---------------------------- MODULE Dht11_proofs ----------------------------
(***************************************************************************)
(* What is stored was sent, for any readings, any number of users and any  *)
(* noise that makes at most one byte of a frame wrong; and the types of    *)
(* the variables, for any noise.                                           *)
(*                                                                         *)
(* The mutex keeps the users apart (Alone), so that two callers are in     *)
(* dht11_get_data together only if one is probe, and then both are marked  *)
(* (Apart).  The frame of a call that is not is not cut off; it differs    *)
(* from the one that was sent in at most one byte (Near), and with such a  *)
(* difference the control sum is wrong.                                    *)
(***************************************************************************)
EXTENDS Dht11, SequenceTheorems, TLAPS

\* How much of data[] is filled.
Filled(c) ==
  /\ c.at \in {"idle", "wait", "init", "unlock"} =>
       c.data = <<>> /\ c.noise = 0 /\ c.cut = FALSE
  /\ c.at \in {"bytes", "stuck"} => Len(c.data) < 5
  /\ c.at \in {"check", "store"} => Len(c.data) = 5

Shape ==
  /\ dev_lock \in Users \cup {NoUser}
  /\ call \in [Callers -> Calls]
  /\ \A u \in Callers : Filled(call[u])
  /\ humidity \in 0 .. 255 /\ temperature \in 0 .. 255
  /\ sent \subseteq Pairs /\ spoilt \in BOOLEAN

\* A user in dht11_get_data holds the mutex, until it has left update_show.
Alone == \A u \in Users : call[u].at \in Inside \cup {"unlock"} => dev_lock = u

\* Two callers in dht11_get_data are marked.
Apart == \A u, v \in Callers :
           u # v /\ call[u].at \in Inside /\ call[v].at \in Inside =>
             call[u].beside /\ call[v].beside

\* A byte of the frame that can be wrong: none before the first misread one.
Near(c) ==
  /\ c.cut = FALSE
  /\ c.noise = 0 => \A i \in 1 .. Len(c.data) : c.data[i] = Frame(c.reading)[i]
  /\ \E k \in 1 .. 5 : \A i \in 1 .. Len(c.data) :
       i # k => c.data[i] = Frame(c.reading)[i]

\* What a call that is not marked has read.
Progress(c) ==
  ~c.beside =>
    /\ c.at \in {"bytes", "check", "store", "stuck"} => Near(c) /\ c.reading \in sent
    /\ c.at = "store" => humidity = c.reading[1] /\ c.data[3] = c.reading[2]

IInv ==
  /\ Shape /\ Alone /\ Apart
  /\ \A u \in Callers : Progress(call[u])
  /\ StoredIsSent
----------------------------------------------------------------------------
\* Records, byte by byte.

LEMMA CallFields ==
  ASSUME NEW c \in Calls
  PROVE  /\ c.at \in Stages /\ c.data \in Data /\ c.reading \in Pairs
         /\ c.noise \in 0 .. MaxNoise /\ c.cut \in BOOLEAN /\ c.beside \in BOOLEAN
  BY DEF Calls

LEMMA PairFields ==
  ASSUME NEW r \in Pairs
  PROVE  r[1] \in 0 .. 90 /\ r[2] \in 0 .. 50 /\ r = <<r[1], r[2]>>
<1>1. CASE r \in Readings
  <2>1. r \in (20 .. 90) \X (0 .. 50)
    BY <1>1, Dht11Assumption
  <2> QED BY <2>1
<1>2. CASE r = NoPair
  BY <1>2 DEF NoPair
<1> QED BY <1>1, <1>2 DEF Pairs

LEMMA FrameBytes ==
  ASSUME NEW r \in Pairs
  PROVE  /\ \A i \in 1 .. 5 : Frame(r)[i] \in 0 .. 255
         /\ Frame(r)[1] = r[1] /\ Frame(r)[2] = 0 /\ Frame(r)[3] = r[2]
         /\ Frame(r)[4] = 0 /\ Frame(r)[5] = r[1] + r[2]
  BY PairFields DEF Frame

LEMMA DataBytes ==
  ASSUME NEW c \in Calls, Len(c.data) = 5
  PROVE  \A i \in 1 .. 5 : c.data[i] \in 0 .. 255
<1>1. c.data \in Seq(0 .. 255)
  BY CallFields DEF Data
<1> QED BY <1>1, ElementOfSeq

LEMMA NoPairIsPair == NoPair \in Pairs
  BY DEF Pairs

LEMMA IdleCall ==
  /\ Idle \in Calls /\ Idle.at = "idle" /\ Filled(Idle)
  /\ [Idle EXCEPT !.at = "wait"] \in Calls /\ [Idle EXCEPT !.at = "wait"].at = "wait"
  /\ Filled([Idle EXCEPT !.at = "wait"])
  /\ [Idle EXCEPT !.at = "unlock"] \in Calls /\ [Idle EXCEPT !.at = "unlock"].at = "unlock"
  /\ Filled([Idle EXCEPT !.at = "unlock"])
<1>1. NoPair \in Pairs /\ <<>> \in Data /\ 0 \in 0 .. MaxNoise
  BY NoPairIsPair, Dht11Assumption DEF Data
<1> QED BY <1>1 DEF Idle, Calls, Stages, Inside, Filled

\* A step of one call that moves it on and changes nothing else of it.
LEMMA ToStep ==
  ASSUME call \in [Callers -> Calls], NEW u \in Callers, NEW at \in Stages, To(u, at)
  PROVE  /\ call' \in [Callers -> Calls]
         /\ \A v \in Callers : v # u => call'[v] = call[v]
         /\ call'[u].at = at /\ call'[u].data = call[u].data
         /\ call'[u].reading = call[u].reading /\ call'[u].beside = call[u].beside
         /\ call'[u].noise = call[u].noise /\ call'[u].cut = call[u].cut
<1>1. call' = [call EXCEPT ![u] = [call[u] EXCEPT !.at = at]]
  BY DEF To
<1>2. /\ [call[u] EXCEPT !.at = at] \in Calls
      /\ [call[u] EXCEPT !.at = at].at = at
      /\ [call[u] EXCEPT !.at = at].data = call[u].data
      /\ [call[u] EXCEPT !.at = at].reading = call[u].reading
      /\ [call[u] EXCEPT !.at = at].noise = call[u].noise
      /\ [call[u] EXCEPT !.at = at].cut = call[u].cut
      /\ [call[u] EXCEPT !.at = at].beside = call[u].beside
  BY DEF Calls
<1> QED BY <1>1, <1>2, Zenon

LEMMA LeaveStep ==
  ASSUME call \in [Callers -> Calls], NEW u \in Callers, Leave(u)
  PROVE  /\ call' \in [Callers -> Calls]
         /\ \A v \in Callers : v # u => call'[v] = call[v]
         /\ call'[u].at = "unlock" /\ Filled(call'[u])
<1>1. call' = [call EXCEPT ![u] = [Idle EXCEPT !.at = "unlock"]]
  BY DEF Leave
<1> QED BY <1>1, IdleCall, Zenon

LEMMA EnterStep ==
  ASSUME call \in [Callers -> Calls], NEW u \in Callers, Enter(u)
  PROVE  /\ call' \in [Callers -> Calls]
         /\ call'[u].at = "init"
         /\ \A v \in Callers :
              /\ v # u => call'[v].at = call[v].at
              /\ call'[v].data = call[v].data /\ call'[v].reading = call[v].reading
              /\ call'[v].noise = call[v].noise /\ call'[v].cut = call[v].cut
         /\ \A v \in Callers : v # u => (call'[v].beside <=> call[v].beside \/ Meets(u, v))
         /\ \A v \in Callers : Meets(u, v) => call'[u].beside
<1>1. PICK b \in BOOLEAN : b <=> \E w \in Callers : Meets(u, w)
  OBVIOUS
<1>2. call'[u] = [call[u] EXCEPT !.at = "init", !.beside = b]
  <2>1. b = \E w \in Callers : Meets(u, w)
    BY <1>1, Zenon
  <2> QED BY <2>1, Zenon DEF Enter
<1>3. \A v \in Callers : v # u =>
        call'[v] = [call[v] EXCEPT !.beside = @ \/ Meets(u, v)]
  BY DEF Enter
<1>4. /\ call'[u] \in Calls /\ call'[u].at = "init" /\ call'[u].beside = b
      /\ call'[u].data = call[u].data /\ call'[u].reading = call[u].reading
      /\ call'[u].noise = call[u].noise /\ call'[u].cut = call[u].cut
  BY <1>2 DEF Calls, Stages, Inside
<1>5. ASSUME NEW v \in Callers, v # u
      PROVE  /\ call'[v] \in Calls /\ call'[v].at = call[v].at
             /\ (call'[v].beside <=> call[v].beside \/ Meets(u, v))
             /\ call'[v].data = call[v].data /\ call'[v].reading = call[v].reading
             /\ call'[v].noise = call[v].noise /\ call'[v].cut = call[v].cut
  <2>1. PICK m \in BOOLEAN : m = (call[v].beside \/ Meets(u, v))
    OBVIOUS
  <2>2. call'[v] = [call[v] EXCEPT !.beside = m]
    BY <1>3, <1>5, <2>1, Zenon
  <2>3. /\ call'[v] \in Calls /\ call'[v].at = call[v].at /\ call'[v].beside = m
        /\ call'[v].data = call[v].data /\ call'[v].reading = call[v].reading
        /\ call'[v].noise = call[v].noise /\ call'[v].cut = call[v].cut
    BY <2>2 DEF Calls
  <2> QED BY <2>1, <2>3, Zenon
<1>6. call' = [v \in Callers |-> call'[v]]
  BY Zenon DEF Enter
<1>7. call' \in [Callers -> Calls]
  <2>1. \A v \in Callers : call'[v] \in Calls
    BY <1>4, <1>5, Zenon
  <2> QED BY <1>6, <2>1, Zenon
<1>8. \A v \in Callers : Meets(u, v) => call'[u].beside
  BY <1>1, <1>4, Zenon
<1> QED BY <1>4, <1>5, <1>7, <1>8, Zenon

\* What a start signal leaves of the calls of others.
LEMMA DisturbedCall ==
  ASSUME NEW c \in Calls, Filled(c)
  PROVE  LET k == Disturbed(c)
         IN  /\ k \in Calls /\ Filled(k) /\ k.beside = c.beside
             /\ k.at \in Inside <=> c.at \in Inside
             /\ k.at = "store" <=> c.at = "store"
             /\ k.at = "unlock" <=> c.at = "unlock"
             /\ c.at \notin Inside => k = c
<1>1. CASE c.at \in {"bytes", "stuck"}
  <2>1. 0 \in 0 .. MaxNoise /\ NoPair \in Pairs
    BY NoPairIsPair, Dht11Assumption
  <2>2. Disturbed(c) = [c EXCEPT !.at = "bytes", !.reading = NoPair, !.noise = 0, !.cut = TRUE]
    BY <1>1 DEF Disturbed
  <2>3. /\ Disturbed(c) \in Calls /\ Disturbed(c).at = "bytes"
        /\ Disturbed(c).data = c.data /\ Disturbed(c).beside = c.beside
    BY <2>1, <2>2 DEF Calls, Stages, Inside
  <2> QED BY <1>1, <2>3 DEF Filled, Inside
<1>2. CASE c.at \notin {"bytes", "stuck"}
  <2>1. Disturbed(c) = c
    BY <1>2 DEF Disturbed
  <2> QED BY <1>2, <2>1, Zenon
<1> QED BY <1>1, <1>2

\* What an answered start signal leaves of the caller's call.
LEMMA BeginCall ==
  ASSUME NEW c \in Calls, c.at = "init", Filled(c), NEW r \in Pairs,
         NEW k, k = [c EXCEPT !.at = "bytes", !.reading = r]
  PROVE  /\ k \in Calls /\ Filled(k) /\ k.at = "bytes" /\ k.data = <<>>
         /\ k.reading = r /\ k.cut = FALSE /\ k.beside = c.beside
<1>1. c.data = <<>> /\ c.noise = 0 /\ c.cut = FALSE
  BY DEF Filled
<1>2. /\ k \in Calls /\ k.at = "bytes" /\ k.data = c.data
      /\ k.reading = r /\ k.cut = c.cut /\ k.beside = c.beside
  BY DEF Calls, Stages, Inside
<1>3. Len(<<>>) < 5
  OBVIOUS
<1> QED BY <1>1, <1>2, <1>3 DEF Filled

\* What a byte changes in a call.
LEMMA ByteReadCall ==
  ASSUME NEW c \in Calls, c.at = "bytes", Len(c.data) < 5,
         NEW b \in {Right(c)} \cup Wrong(c)
  PROVE  LET k == ByteRead(c, b)
             n == Len(c.data) + 1
         IN  /\ b \in 0 .. 255 /\ n \in 1 .. 5
             /\ k \in Calls /\ Filled(k)
             /\ k.at = (IF n = 5 THEN "check" ELSE "bytes")
             /\ k.data = Append(c.data, b) /\ k.reading = c.reading
             /\ k.cut = c.cut /\ k.beside = c.beside
             /\ ~c.cut => /\ b # Right(c) => c.noise < MaxNoise
                          /\ k.noise = (IF b = Right(c) THEN c.noise ELSE c.noise + 1)
<1>1. PICK d : d = Append(c.data, b)
  OBVIOUS
<1>2. PICK m : m = IF b = Right(c) \/ c.cut THEN c.noise ELSE c.noise + 1
  OBVIOUS
<1>3. PICK at : at = IF Len(c.data) = 4 THEN "check" ELSE "bytes"
  OBVIOUS
<1>4. Len(c.data) \in 0 .. 4
  <2>1. c.data \in Seq(0 .. 255)
    BY CallFields DEF Data
  <2>2. Len(c.data) \in Nat
    BY <2>1
  <2>3. \A l \in Nat : l < 5 => l \in 0 .. 4
    OBVIOUS
  <2> QED BY <2>2, <2>3, Zenon
<1>5. b \in 0 .. 255
  <2>1. Right(c) \in 0 .. 255
    <3>1. Len(c.data) + 1 \in 1 .. 5 /\ c.reading \in Pairs
      BY <1>4, CallFields
    <3> QED BY <3>1, FrameBytes DEF Right
  <2>2. Wrong(c) \subseteq Bytes
    BY DEF Wrong
  <2> QED BY <2>1, <2>2, Dht11Assumption
<1>6. d \in Data /\ Len(d) = Len(c.data) + 1
  BY <1>1, <1>5, CallFields DEF Data
<1>7. ~c.cut /\ b # Right(c) => c.noise < MaxNoise
  BY DEF Wrong
<1>8. m \in 0 .. MaxNoise
  BY <1>2, <1>7, CallFields, Dht11Assumption
<1>9. at \in Stages
  BY <1>3 DEF Stages, Inside
<1>10. ByteRead(c, b) = [c EXCEPT !.data = d, !.noise = m, !.at = at]
  BY <1>1, <1>2, <1>3 DEF ByteRead
<1>11. /\ ByteRead(c, b) \in Calls /\ ByteRead(c, b).at = at
       /\ ByteRead(c, b).data = d /\ ByteRead(c, b).reading = c.reading
       /\ ByteRead(c, b).noise = m /\ ByteRead(c, b).cut = c.cut
       /\ ByteRead(c, b).beside = c.beside
  BY <1>6, <1>8, <1>9, <1>10 DEF Calls
<1>12. ~c.cut => m = IF b = Right(c) THEN c.noise ELSE c.noise + 1
  BY <1>2, Zenon
<1>13. at = IF Len(c.data) + 1 = 5 THEN "check" ELSE "bytes"
  <2>1. \A l \in 0 .. 4 : (l = 4) <=> (l + 1 = 5)
    OBVIOUS
  <2> QED BY <1>3, <1>4, <2>1, Zenon
<1>14. Len(c.data) + 1 \in 1 .. 5 /\ (Len(c.data) + 1 # 5 => Len(c.data) + 1 < 5)
  BY <1>4
<1>15. Filled(ByteRead(c, b))
  <2>1. /\ at = "check" => Len(d) = 5
        /\ at = "bytes" => Len(d) < 5
        /\ at \in {"check", "bytes"}
    BY <1>6, <1>13, <1>14
  <2> QED BY <2>1, <1>11 DEF Filled
<1> QED BY <1>1, <1>5, <1>7, <1>11, <1>12, <1>13, <1>14, <1>15, Zenon

\* The control sum is wrong when one byte is (dht11.c:251).
LEMMA SumFindsOneWrong ==
  ASSUME NEW r \in Pairs, NEW d \in Data, Len(d) = 5,
         NEW k \in 1 .. 5, \A i \in 1 .. 5 : i # k => d[i] = Frame(r)[i],
         ControlSum(d)
  PROVE  d[1] = r[1] /\ d[3] = r[2]
<1>1. \A i \in 1 .. 5 : d[i] \in 0 .. 255
  BY ElementOfSeq DEF Data
<1>2. d[1] + d[2] + d[3] + d[4] = d[5]
  BY DEF ControlSum
<1>3. /\ 1 # k => d[1] = r[1]
      /\ 2 # k => d[2] = 0
      /\ 3 # k => d[3] = r[2]
      /\ 4 # k => d[4] = 0
      /\ 5 # k => d[5] = r[1] + r[2]
  BY FrameBytes
<1>4. /\ d[1] \in Int /\ d[2] \in Int /\ d[3] \in Int /\ d[4] \in Int /\ d[5] \in Int
      /\ r[1] \in Int /\ r[2] \in Int
  BY <1>1, PairFields
<1> QED BY <1>2, <1>3, <1>4
----------------------------------------------------------------------------
LEMMA InitIInv == Init => IInv
<1> SUFFICES ASSUME Init PROVE IInv
  OBVIOUS
<1>1. \A u \in Callers :
        call[u] \in Calls /\ call[u].at \in {"idle", "wait"} /\ Filled(call[u])
  BY IdleCall DEF Init
<1>2. call \in [Callers -> Calls]
  BY <1>1 DEF Init
<1>3. Pair = NoPair
  BY DEF Init, Pair, NoPair
<1>4. Shape
  <2>1. dev_lock = NoUser /\ humidity = 0 /\ temperature = 0 /\ sent = {NoPair} /\ spoilt = FALSE
    BY DEF Init
  <2>2. humidity \in 0 .. 255 /\ temperature \in 0 .. 255
    BY <2>1
  <2>3. sent \subseteq Pairs /\ spoilt \in BOOLEAN /\ dev_lock \in Users \cup {NoUser}
    BY <2>1, NoPairIsPair
  <2> QED BY <1>1, <1>2, <2>2, <2>3, Zenon DEF Shape
<1>5. Alone /\ Apart /\ \A u \in Callers : Progress(call[u])
  BY <1>1 DEF Alone, Apart, Progress, Inside, Callers
<1>6. StoredIsSent
  BY <1>3 DEF Init, StoredIsSent
<1> QED BY <1>4, <1>5, <1>6 DEF IInv

\* The types, action by action.
LEMMA StepShape ==
  ASSUME Shape, [Next]_vars
  PROVE  Shape'
<1>a. /\ dev_lock \in Users \cup {NoUser} /\ call \in [Callers -> Calls]
      /\ \A v \in Callers : Filled(call[v])
      /\ humidity \in 0 .. 255 /\ temperature \in 0 .. 255
      /\ sent \subseteq Pairs /\ spoilt \in BOOLEAN
  BY DEF Shape
<1>1. CASE UNCHANGED vars
  BY <1>1, <1>a DEF vars, Shape
<1>2. ASSUME NEW u \in Callers, UpdateShow(u) PROVE Shape'
  <2>1. /\ call' \in [Callers -> Calls] /\ \A v \in Callers : v # u => call'[v] = call[v]
        /\ call'[u].at = "wait" /\ call'[u].data = call[u].data
        /\ call'[u].noise = call[u].noise /\ call'[u].cut = call[u].cut
        /\ call[u].at = "idle"
    BY <1>2, <1>a, ToStep DEF UpdateShow, Stages
  <2>2. \A v \in Callers : Filled(call'[v])
    BY <2>1, <1>a DEF Filled
  <2> QED BY <1>2, <2>1, <2>2, <1>a DEF UpdateShow, Shape
<1>3. ASSUME NEW u \in Callers, MutexLock(u) \/ (u = Probe /\ ProbeReads) PROVE Shape'
  <2>1. Enter(u) /\ call[u].at = "wait"
    BY <1>3 DEF MutexLock, ProbeReads
  <2>2. /\ call' \in [Callers -> Calls] /\ call'[u].at = "init"
        /\ \A v \in Callers :
             /\ v # u => call'[v].at = call[v].at
             /\ call'[v].data = call[v].data
             /\ call'[v].noise = call[v].noise /\ call'[v].cut = call[v].cut
    BY <2>1, <1>a, EnterStep
  <2>3. \A v \in Callers : Filled(call'[v])
    BY <2>1, <2>2, <1>a DEF Filled
  <2> QED BY <1>3, <2>2, <2>3, <1>a DEF MutexLock, ProbeReads, Shape
<1>4. ASSUME NEW u \in Callers, InitAnswered(u) PROVE Shape'
  <2>1. PICK r \in Readings :
          /\ sent' = sent \cup {r}
          /\ call' = [v \in Callers |->
               IF v = u THEN [call[v] EXCEPT !.at = "bytes", !.reading = r]
               ELSE Disturbed(call[v])]
    BY <1>4 DEF InitAnswered
  <2>2. call[u].at = "init" /\ UNCHANGED <<dev_lock, humidity, temperature, spoilt>>
    BY <1>4 DEF InitAnswered
  <2>3. r \in Pairs
    BY DEF Pairs
  <2>4. \A v \in Callers : v # u => call'[v] \in Calls /\ Filled(call'[v])
    BY <2>1, <1>a, DisturbedCall
  <2>5. call'[u] \in Calls /\ Filled(call'[u])
    <3>1. PICK c : c = call[u]
      OBVIOUS
    <3>2. PICK k : k = [c EXCEPT !.at = "bytes", !.reading = r]
      OBVIOUS
    <3>3. call'[u] = k
      BY <2>1, <3>1, <3>2
    <3>4. c \in Calls /\ Filled(c) /\ c.at = "init"
      BY <1>a, <2>2, <3>1
    <3>5. k \in Calls /\ Filled(k)
      BY <2>3, <3>2, <3>4, BeginCall
    <3> QED BY <3>3, <3>5, Zenon
  <2>6. call' \in [Callers -> Calls]
    BY <2>1, <2>4, <2>5
  <2> QED BY <2>1, <2>2, <2>3, <2>4, <2>5, <2>6, <1>a DEF Shape
<1>5. ASSUME NEW u \in Callers, InitSilent(u) PROVE Shape'
  <2>1. call' = [v \in Callers |->
          IF v = u THEN [Idle EXCEPT !.at = "unlock"] ELSE Disturbed(call[v])]
    BY <1>5 DEF InitSilent
  <2>2. UNCHANGED <<dev_lock, humidity, temperature, sent, spoilt>>
    BY <1>5 DEF InitSilent
  <2>3. \A v \in Callers : v # u => call'[v] \in Calls /\ Filled(call'[v])
    BY <2>1, <1>a, DisturbedCall
  <2>4. call'[u] \in Calls /\ Filled(call'[u])
    <3>1. call'[u] = [Idle EXCEPT !.at = "unlock"]
      BY <2>1
    <3> QED BY <3>1, IdleCall, Zenon
  <2>5. call' \in [Callers -> Calls]
    BY <2>1, <2>3, <2>4
  <2> QED BY <2>2, <2>3, <2>4, <2>5, <1>a DEF Shape
<1>6. ASSUME NEW u \in Callers, ReadByte(u) PROVE Shape'
  <2>1. call[u].at = "bytes" /\ UNCHANGED <<dev_lock, humidity, temperature, sent, spoilt>>
    BY <1>6 DEF ReadByte
  <2>2. PICK b \in {Right(call[u])} \cup Wrong(call[u]) :
          call' = [call EXCEPT ![u] = ByteRead(call[u], b)]
    BY <1>6 DEF ReadByte
  <2>3. call[u] \in Calls /\ Len(call[u].data) < 5
    BY <2>1, <1>a DEF Filled
  <2>4. ByteRead(call[u], b) \in Calls /\ Filled(ByteRead(call[u], b))
    BY <2>1, <2>3, ByteReadCall
  <2>5. call' \in [Callers -> Calls] /\ \A v \in Callers : Filled(call'[v])
    BY <2>2, <2>4, <1>a
  <2> QED BY <2>1, <2>5, <1>a DEF Shape
<1>7. ASSUME NEW u \in Callers, Hang(u) PROVE Shape'
  <2>1. /\ call' \in [Callers -> Calls] /\ \A v \in Callers : v # u => call'[v] = call[v]
        /\ call'[u].at = "stuck" /\ call'[u].data = call[u].data /\ call[u].at = "bytes"
    BY <1>7, <1>a, ToStep DEF Hang, Stages, Inside
  <2>2. \A v \in Callers : Filled(call'[v])
    BY <2>1, <1>a DEF Filled
  <2> QED BY <1>7, <2>1, <2>2, <1>a DEF Hang, Shape
<1>8. ASSUME NEW u \in Callers, StoreHumidity(u) PROVE Shape'
  <2>1. /\ call' \in [Callers -> Calls] /\ \A v \in Callers : v # u => call'[v] = call[v]
        /\ call'[u].at = "store" /\ call'[u].data = call[u].data /\ call[u].at = "check"
    BY <1>8, <1>a, ToStep DEF StoreHumidity, Stages, Inside
  <2>2. \A v \in Callers : Filled(call'[v])
    BY <2>1, <1>a DEF Filled
  <2>3. humidity' \in 0 .. 255
    <3>1. call[u] \in Calls /\ Len(call[u].data) = 5
      BY <2>1, <1>a DEF Filled
    <3> QED BY <1>8, <3>1, DataBytes DEF StoreHumidity
  <2>4. spoilt' \in BOOLEAN /\ UNCHANGED <<dev_lock, temperature, sent>>
    BY <1>8 DEF StoreHumidity
  <2> QED BY <2>1, <2>2, <2>3, <2>4, <1>a DEF Shape
<1>9. ASSUME NEW u \in Callers, StoreTemperature(u) PROVE Shape'
  <2>1. /\ call' \in [Callers -> Calls] /\ \A v \in Callers : v # u => call'[v] = call[v]
        /\ Filled(call'[u]) /\ call[u].at = "store"
    BY <1>9, <1>a, LeaveStep DEF StoreTemperature
  <2>2. \A v \in Callers : Filled(call'[v])
    BY <2>1, <1>a
  <2>3. temperature' \in 0 .. 255
    <3>1. call[u] \in Calls /\ Len(call[u].data) = 5
      BY <2>1, <1>a DEF Filled
    <3> QED BY <1>9, <3>1, DataBytes DEF StoreTemperature
  <2>4. spoilt' \in BOOLEAN
    BY <1>9, <1>a, CallFields DEF StoreTemperature
  <2>5. UNCHANGED <<dev_lock, humidity, sent>>
    BY <1>9 DEF StoreTemperature
  <2> QED BY <2>1, <2>2, <2>3, <2>4, <2>5, <1>a DEF Shape
<1>10. ASSUME NEW u \in Callers, Discard(u) PROVE Shape'
  <2>1. /\ call' \in [Callers -> Calls] /\ \A v \in Callers : v # u => call'[v] = call[v]
        /\ Filled(call'[u])
    BY <1>10, <1>a, LeaveStep DEF Discard
  <2>2. \A v \in Callers : Filled(call'[v])
    BY <2>1, <1>a
  <2> QED BY <1>10, <2>1, <2>2, <1>a DEF Discard, Shape
<1>11. ASSUME NEW u \in Callers, MutexUnlock(u) PROVE Shape'
  <2>1. call' \in [Callers -> Calls] /\ \A v \in Callers : Filled(call'[v])
    BY <1>11, <1>a, IdleCall DEF MutexUnlock
  <2> QED BY <1>11, <2>1, <1>a DEF MutexUnlock, Shape
<1>12. Probe \in Callers
  BY DEF Callers
<1> QED
  BY <1>1, <1>2, <1>3, <1>4, <1>5, <1>6, <1>7, <1>8, <1>9, <1>10, <1>11, <1>12 DEF Next, Work

\* The variables keep their types, whatever the sensor does (dht11.c:30-36, 231-256).
THEOREM TypeCorrect == Spec => []TypeOK
<1>1. Init => Shape
  BY InitIInv DEF IInv
<1>2. Shape /\ [Next]_vars => Shape'
  BY StepShape
<1>3. Shape => TypeOK
  <2> SUFFICES ASSUME Shape PROVE TypeOK
    OBVIOUS
  <2>1. \A u \in Callers : call[u] \in Calls /\ Filled(call[u])
    BY DEF Shape
  <2>2. ASSUME NEW u \in Callers PROVE Len(call[u].data) <= 5
    <3>1. call[u].at \in Stages /\ Len(call[u].data) \in Nat
      BY <2>1, CallFields DEF Data
    <3>2. call[u].data = <<>> \/ Len(call[u].data) < 5 \/ Len(call[u].data) = 5
      BY <2>1, <3>1 DEF Filled, Stages, Inside
    <3>3. CASE call[u].data = <<>>
      <4>1. Len(<<>>) = 0
        OBVIOUS
      <4> QED BY <3>3, <4>1
    <3>4. CASE Len(call[u].data) < 5 \/ Len(call[u].data) = 5
      <4>1. \A l \in Nat : l < 5 \/ l = 5 => l <= 5
        OBVIOUS
      <4> QED BY <3>1, <3>4, <4>1, Zenon
    <3> QED BY <3>2, <3>3, <3>4
  <2> QED BY <2>1, <2>2 DEF Shape, TypeOK
<1> QED BY <1>1, <1>2, <1>3, PTL DEF Spec
----------------------------------------------------------------------------
\* Nobody goes into dht11_get_data: the marks stay.
LEMMA KeepApart ==
  ASSUME Apart,
         \A v \in Callers : call'[v].at \in Inside =>
           call[v].at \in Inside /\ call'[v].beside = call[v].beside
  PROVE  Apart'
  BY DEF Apart

\* A byte leaves a frame near to what was sent.
LEMMA NearByte ==
  ASSUME MaxNoise <= 1, NEW c \in Calls, c.at = "bytes", Len(c.data) < 5, Near(c),
         NEW b \in {Right(c)} \cup Wrong(c), NEW k, k = ByteRead(c, b)
  PROVE  Near(k)
<1> DEFINE n == Len(c.data) + 1
           d == Append(c.data, b)
<1>1. /\ b \in 0 .. 255 /\ n \in 1 .. 5 /\ k \in Calls /\ c.cut = FALSE
      /\ k.data = d /\ k.reading = c.reading /\ k.cut = FALSE
      /\ b # Right(c) => c.noise < MaxNoise
      /\ k.noise = (IF b = Right(c) THEN c.noise ELSE c.noise + 1)
  BY ByteReadCall DEF Near
<1>2. c.data \in Seq(0 .. 255) /\ c.noise \in 0 .. MaxNoise
  BY CallFields DEF Data
<1>3. Len(d) = n /\ d[n] = b /\ \A i \in 1 .. n : i # n => d[i] = c.data[i]
  BY <1>1, <1>2
<1>4. /\ b = Right(c) => k.noise = c.noise
      /\ b # Right(c) => c.noise = 0 /\ k.noise = 1
  BY <1>1, <1>2, Dht11Assumption
<1>5. b = Right(c) => d[n] = Frame(c.reading)[n]
  BY <1>3 DEF Right
<1> HIDE DEF d
<1>6. CASE b = Right(c)
  <2>1. k.noise = 0 => \A i \in 1 .. n : d[i] = Frame(c.reading)[i]
    BY <1>6, <1>1, <1>3, <1>4, <1>5 DEF Near
  <2>2. PICK j \in 1 .. 5 : \A i \in 1 .. Len(c.data) :
          i # j => c.data[i] = Frame(c.reading)[i]
    BY DEF Near
  <2>3. \A i \in 1 .. n : i # j => d[i] = Frame(c.reading)[i]
    BY <1>6, <2>2, <1>1, <1>3, <1>5
  <2> QED BY <2>1, <2>3, <1>1, <1>3 DEF Near
<1>7. CASE b # Right(c)
  <2>1. \A i \in 1 .. n : i # n => d[i] = Frame(c.reading)[i]
    BY <1>7, <1>1, <1>3, <1>4 DEF Near
  <2> QED BY <1>7, <2>1, <1>1, <1>3, <1>4 DEF Near
<1> QED BY <1>6, <1>7

\* A right control sum of a frame that is near makes the pair the reading.
LEMMA NearSum ==
  ASSUME NEW c \in Calls, Near(c), Len(c.data) = 5, ControlSum(c.data)
  PROVE  c.data[1] = c.reading[1] /\ c.data[3] = c.reading[2]
<1>1. c.data \in Data /\ c.reading \in Pairs
  BY CallFields
<1>2. PICK k \in 1 .. 5 : \A i \in 1 .. 5 : i # k => c.data[i] = Frame(c.reading)[i]
  BY DEF Near
<1> QED BY <1>1, <1>2, SumFindsOneWrong

LEMMA StepIInv ==
  ASSUME MaxNoise <= 1, IInv, [Next]_vars
  PROVE  IInv'
<1>a. /\ dev_lock \in Users \cup {NoUser} /\ call \in [Callers -> Calls]
      /\ \A v \in Callers : Filled(call[v])
      /\ sent \subseteq Pairs
  BY DEF IInv, Shape
<1>b. \A u \in Users : call[u].at \in Inside \cup {"unlock"} => dev_lock = u
  BY DEF IInv, Alone
<1>c. /\ Apart
      /\ \A u, v \in Callers : u # v /\ call[u].at \in Inside /\ call[v].at \in Inside =>
           call[u].beside /\ call[v].beside
  BY DEF IInv, Apart
<1>d. \A u \in Callers : Progress(call[u])
  BY DEF IInv
<1>e. StoredIsSent
  BY DEF IInv
<1>f. NoUser \notin Users /\ Probe \notin Users /\ Users \subseteq Callers /\ Probe \in Callers
  BY Dht11Assumption DEF Callers
<1>s. Shape'
  BY StepShape DEF IInv
<1> SUFFICES Alone' /\ Apart' /\ (\A u \in Callers : Progress(call[u])') /\ StoredIsSent'
  BY <1>s DEF IInv
<1>1. CASE UNCHANGED vars
  BY <1>1, <1>b, <1>c, <1>d, <1>e DEF vars, Alone, Apart, Progress, StoredIsSent, Pair
\* Steps outside dht11_get_data.
<1>2. ASSUME NEW u \in Callers, UpdateShow(u)
      PROVE  Alone' /\ Apart' /\ (\A v \in Callers : Progress(call[v])') /\ StoredIsSent'
  <2>1. /\ \A v \in Callers : v # u => call'[v] = call[v]
        /\ call'[u].at = "wait" /\ call[u].at = "idle"
        /\ UNCHANGED <<dev_lock, humidity, temperature, sent, spoilt>>
    BY <1>2, <1>a, ToStep DEF UpdateShow, Stages
  <2>2. Alone'
    BY <2>1, <1>b, <1>f DEF Alone, Inside
  <2>3. Apart'
    BY <2>1, <1>c, KeepApart DEF Inside
  <2>4. \A v \in Callers : Progress(call[v])'
    BY <2>1, <1>d DEF Progress
  <2>5. StoredIsSent'
    BY <2>1, <1>e DEF StoredIsSent, Pair
  <2> QED BY <2>2, <2>3, <2>4, <2>5
<1>3. ASSUME NEW u \in Callers, MutexUnlock(u)
      PROVE  Alone' /\ Apart' /\ (\A v \in Callers : Progress(call[v])') /\ StoredIsSent'
  <2>1. /\ \A v \in Callers : v # u => call'[v] = call[v]
        /\ call'[u].at = "idle" /\ call[u].at = "unlock"
        /\ UNCHANGED <<humidity, temperature, sent, spoilt>>
        /\ dev_lock' = IF u = Probe THEN dev_lock ELSE NoUser
    BY <1>3, <1>a, IdleCall DEF MutexUnlock
  <2>2. Alone'
    BY <2>1, <1>b, <1>f DEF Alone, Inside, Callers
  <2>3. Apart'
    BY <2>1, <1>c, KeepApart DEF Inside
  <2>4. \A v \in Callers : Progress(call[v])'
    BY <2>1, <1>d DEF Progress
  <2>5. StoredIsSent'
    BY <2>1, <1>e DEF StoredIsSent, Pair
  <2> QED BY <2>2, <2>3, <2>4, <2>5
\* A caller goes in: a user finds no other user, so that it meets probe or nobody.
<1>4. ASSUME NEW u \in Callers, MutexLock(u) \/ (u = Probe /\ ProbeReads)
      PROVE  Alone' /\ Apart' /\ (\A v \in Callers : Progress(call[v])') /\ StoredIsSent'
  <2>1. /\ Enter(u) /\ call[u].at = "wait"
        /\ UNCHANGED <<humidity, temperature, sent, spoilt>>
        /\ \/ u \in Users /\ dev_lock = NoUser /\ dev_lock' = u
           \/ u = Probe /\ dev_lock' = dev_lock
    BY <1>4 DEF MutexLock, ProbeReads
  <2>2. /\ call' \in [Callers -> Calls] /\ call'[u].at = "init"
        /\ \A v \in Callers :
             /\ v # u => call'[v].at = call[v].at
             /\ call'[v].data = call[v].data /\ call'[v].reading = call[v].reading
             /\ call'[v].noise = call[v].noise /\ call'[v].cut = call[v].cut
        /\ \A v \in Callers : v # u => (call'[v].beside <=> call[v].beside \/ Meets(u, v))
        /\ \A v \in Callers : Meets(u, v) => call'[u].beside
    BY <2>1, <1>a, EnterStep
  <2>3. \A v \in Callers : v # u /\ call[v].at \in Inside => Meets(u, v)
    BY <2>1, <1>b, <1>f DEF Meets, Callers
  <2>4. Alone'
    BY <2>1, <2>2, <1>b, <1>f DEF Alone, Inside
  <2>5. Apart'
    <3> SUFFICES ASSUME NEW w \in Callers, NEW x \in Callers, w # x,
                        call'[w].at \in Inside, call'[x].at \in Inside
                 PROVE  call'[w].beside /\ call'[x].beside
      BY DEF Apart
    <3>1. CASE w = u
      <4>1. Meets(u, x)
        BY <3>1, <2>2, <2>3
      <4> QED BY <3>1, <4>1, <2>2
    <3>2. CASE x = u
      <4>1. Meets(u, w)
        BY <3>2, <2>2, <2>3
      <4> QED BY <3>2, <4>1, <2>2
    <3>3. CASE w # u /\ x # u
      BY <3>3, <2>2, <1>c
    <3> QED BY <3>1, <3>2, <3>3
  <2>6. ASSUME NEW v \in Callers PROVE Progress(call[v])'
    <3>1. CASE v = u
      BY <3>1, <2>2 DEF Progress
    <3>2. CASE v # u
      <4>1. ~call'[v].beside => ~call[v].beside
        BY <3>2, <2>2
      <4>2. Near(call[v]) => Near(call'[v])
        BY <2>2 DEF Near
      <4> QED BY <3>2, <4>1, <4>2, <2>1, <2>2, <1>d DEF Progress
    <3> QED BY <3>1, <3>2
  <2>7. StoredIsSent'
    BY <2>1, <2>2, <1>e DEF StoredIsSent, Pair
  <2> QED BY <2>4, <2>5, <2>6, <2>7
\* A start signal: whoever else is in dht11_get_data is marked.
<1>5. ASSUME NEW u \in Callers, InitAnswered(u) \/ InitSilent(u)
      PROVE  Alone' /\ Apart' /\ (\A v \in Callers : Progress(call[v])') /\ StoredIsSent'
  <2>1. /\ call[u].at = "init" /\ UNCHANGED <<dev_lock, humidity, temperature, spoilt>>
        /\ sent \subseteq sent'
        /\ \A v \in Callers : v # u => call'[v] = Disturbed(call[v])
    BY <1>5 DEF InitAnswered, InitSilent
  <2>2. ASSUME NEW v \in Callers, v # u
        PROVE  /\ call'[v].beside = call[v].beside
               /\ call'[v].at \in Inside <=> call[v].at \in Inside
               /\ call'[v].at = "store" <=> call[v].at = "store"
               /\ call'[v].at = "unlock" <=> call[v].at = "unlock"
               /\ call[v].at \notin Inside => call'[v] = call[v]
    BY <2>1, <2>2, <1>a, DisturbedCall
  <2>3. /\ call'[u].at \in {"bytes", "unlock"}
        /\ call'[u].at = "bytes" =>
             /\ call'[u].beside = call[u].beside
             /\ call'[u].data = <<>> /\ call'[u].cut = FALSE /\ call'[u].reading \in sent'
    <3>1. CASE InitAnswered(u)
      <4>1. PICK r \in Readings :
              /\ sent' = sent \cup {r}
              /\ call' = [v \in Callers |->
                   IF v = u THEN [call[v] EXCEPT !.at = "bytes", !.reading = r]
                   ELSE Disturbed(call[v])]
        BY <3>1 DEF InitAnswered
      <4>2. PICK c : c = call[u]
        OBVIOUS
      <4>3. PICK k : k = [c EXCEPT !.at = "bytes", !.reading = r]
        OBVIOUS
      <4>4. call'[u] = k
        BY <4>1, <4>2, <4>3
      <4>a. r \in Pairs
        BY DEF Pairs
      <4>5. c \in Calls /\ Filled(c) /\ c.at = "init"
        BY <1>a, <2>1, <4>2
      <4>6. k.at = "bytes" /\ k.reading = r /\ k.beside = c.beside
        BY <4>a, <4>3, <4>5 DEF Calls
      <4>b. k.data = c.data /\ k.cut = c.cut
        BY <4>a, <4>3, <4>5 DEF Calls
      <4>c. k.data = <<>> /\ k.cut = FALSE
        BY <4>5, <4>b DEF Filled
      <4>7. r \in sent'
        BY <4>1
      <4> QED BY <4>2, <4>4, <4>6, <4>7, <4>c, Zenon
    <3>2. CASE InitSilent(u)
      <4>1. call'[u] = [Idle EXCEPT !.at = "unlock"]
        BY <3>2 DEF InitSilent
      <4>2. call'[u].at = "unlock"
        BY <4>1, IdleCall, Zenon
      <4> QED BY <4>2
    <3> QED BY <1>5, <3>1, <3>2
  <2>4. Alone'
    BY <2>1, <2>2, <2>3, <1>b, <1>f DEF Alone, Inside
  <2>5. Apart'
    <3>1. \A v \in Callers : call'[v].at \in Inside =>
            call[v].at \in Inside /\ call'[v].beside = call[v].beside
      BY <2>1, <2>2, <2>3 DEF Inside
    <3> QED BY <3>1, <1>c, KeepApart
  <2>6. ASSUME NEW v \in Callers PROVE Progress(call[v])'
    <3>1. CASE v = u
      <4>1. call'[u].at = "bytes" => 1 .. Len(call'[u].data) = {}
        <5>1. Len(<<>>) = 0
          OBVIOUS
        <5> QED BY <5>1, <2>3
      <4>2. call'[u].at = "bytes" => Near(call'[u])
        BY <4>1, <2>3 DEF Near
      <4> QED BY <3>1, <4>2, <2>3 DEF Progress
    <3>2. CASE v # u /\ call[v].at \in Inside
      <4>1. call'[v].beside
        BY <3>2, <2>1, <2>2, <1>c DEF Inside
      <4> QED BY <4>1 DEF Progress
    <3>3. CASE v # u /\ call[v].at \notin Inside
      BY <3>3, <2>2 DEF Progress, Inside
    <3> QED BY <3>1, <3>2, <3>3
  <2>7. StoredIsSent'
    <3>1. (\A v \in Callers : call'[v].at # "store") => \A v \in Callers : call[v].at # "store"
      BY <2>1, <2>2
    <3> QED BY <3>1, <2>1, <1>e DEF StoredIsSent, Pair
  <2> QED BY <2>4, <2>5, <2>6, <2>7
\* Steps of one call, which is alone or marked.
<1>6. ASSUME NEW u \in Callers, ReadByte(u)
      PROVE  Alone' /\ Apart' /\ (\A v \in Callers : Progress(call[v])') /\ StoredIsSent'
  <2>1. call[u].at = "bytes" /\ UNCHANGED <<dev_lock, humidity, temperature, sent, spoilt>>
    BY <1>6 DEF ReadByte
  <2>2. PICK b \in {Right(call[u])} \cup Wrong(call[u]) :
          call' = [call EXCEPT ![u] = ByteRead(call[u], b)]
    BY <1>6 DEF ReadByte
  <2>3. PICK c : c = call[u]
    OBVIOUS
  <2>4. PICK k : k = ByteRead(c, b)
    OBVIOUS
  <2>5. call'[u] = k /\ \A v \in Callers : v # u => call'[v] = call[v]
    BY <2>2, <2>3, <2>4, <1>a
  <2>6. c \in Calls /\ c.at = "bytes" /\ Len(c.data) < 5 /\ b \in {Right(c)} \cup Wrong(c)
    BY <2>1, <2>2, <2>3, <1>a DEF Filled
  <2>7. k.at \in {"bytes", "check"} /\ k.reading = c.reading /\ k.beside = c.beside
    BY <2>4, <2>6, ByteReadCall
  <2>8. ~c.beside => Near(c) /\ c.reading \in sent
    BY <2>3, <2>6, <1>d DEF Progress
  <2>9. ~c.beside => Near(k)
    BY <2>4, <2>6, <2>8, NearByte
  <2>10. Alone'
    BY <2>1, <2>5, <2>7, <1>b, <1>f DEF Alone, Inside
  <2>11. Apart'
    <3>1. \A v \in Callers : call'[v].at \in Inside =>
            call[v].at \in Inside /\ call'[v].beside = call[v].beside
      BY <2>1, <2>3, <2>5, <2>7 DEF Inside
    <3> QED BY <3>1, <1>c, KeepApart
  <2>12. ASSUME NEW v \in Callers PROVE Progress(call[v])'
    <3>1. CASE v = u
      BY <3>1, <2>1, <2>5, <2>7, <2>8, <2>9 DEF Progress
    <3>2. CASE v # u
      BY <3>2, <2>1, <2>5, <1>d DEF Progress
    <3> QED BY <3>1, <3>2
  <2>13. StoredIsSent'
    BY <2>1, <2>5, <2>7, <1>e DEF StoredIsSent, Pair
  <2> QED BY <2>10, <2>11, <2>12, <2>13
<1>7. ASSUME NEW u \in Callers, Hang(u)
      PROVE  Alone' /\ Apart' /\ (\A v \in Callers : Progress(call[v])') /\ StoredIsSent'
  <2>1. /\ \A v \in Callers : v # u => call'[v] = call[v]
        /\ call'[u].at = "stuck" /\ call'[u].data = call[u].data
        /\ call'[u].reading = call[u].reading /\ call'[u].beside = call[u].beside
        /\ call'[u].noise = call[u].noise /\ call'[u].cut = call[u].cut
        /\ call[u].at = "bytes" /\ UNCHANGED <<dev_lock, humidity, temperature, sent, spoilt>>
    BY <1>7, <1>a, ToStep DEF Hang, Stages, Inside
  <2>2. Alone'
    BY <2>1, <1>b, <1>f DEF Alone, Inside
  <2>3. Apart'
    BY <2>1, <1>c, KeepApart DEF Inside
  <2>4. ASSUME NEW v \in Callers PROVE Progress(call[v])'
    <3>1. CASE v = u
      <4>1. Near(call[u]) => Near(call'[u])
        BY <2>1, Zenon DEF Near
      <4> QED BY <3>1, <4>1, <2>1, <1>d DEF Progress
    <3>2. CASE v # u
      BY <3>2, <2>1, <1>d DEF Progress
    <3> QED BY <3>1, <3>2
  <2>5. StoredIsSent'
    BY <2>1, <1>e DEF StoredIsSent, Pair
  <2> QED BY <2>2, <2>3, <2>4, <2>5
<1>8. ASSUME NEW u \in Callers, StoreHumidity(u)
      PROVE  Alone' /\ Apart' /\ (\A v \in Callers : Progress(call[v])') /\ StoredIsSent'
  <2>1. /\ \A v \in Callers : v # u => call'[v] = call[v]
        /\ call'[u].at = "store" /\ call'[u].data = call[u].data
        /\ call'[u].reading = call[u].reading /\ call'[u].beside = call[u].beside
        /\ call'[u].noise = call[u].noise /\ call'[u].cut = call[u].cut
    BY <1>8, <1>a, ToStep DEF StoreHumidity, Stages, Inside
  <2>2. /\ call[u].at = "check" /\ ControlSum(call[u].data)
        /\ humidity' = call[u].data[1] /\ UNCHANGED <<dev_lock, temperature, sent>>
    BY <1>8 DEF StoreHumidity
  <2>3. Alone'
    BY <2>1, <2>2, <1>b, <1>f DEF Alone, Inside
  <2>4. Apart'
    BY <2>1, <2>2, <1>c, KeepApart DEF Inside
  <2>5. ASSUME NEW v \in Callers PROVE Progress(call[v])'
    <3>1. CASE v = u
      <4>1. SUFFICES ASSUME ~call[u].beside
                     PROVE  /\ Near(call'[u]) /\ call[u].reading \in sent
                            /\ call[u].data[1] = call[u].reading[1]
                            /\ call[u].data[3] = call[u].reading[2]
        BY <3>1, <2>1, <2>2 DEF Progress
      <4>2. Near(call[u]) /\ call[u].reading \in sent
        BY <4>1, <2>2, <1>d DEF Progress
      <4>3. Near(call'[u])
        BY <4>2, <2>1, Zenon DEF Near
      <4>4. Len(call[u].data) = 5 /\ call[u] \in Calls
        BY <2>2, <1>a DEF Filled
      <4> QED BY <2>2, <4>2, <4>3, <4>4, NearSum
    <3>2. CASE v # u /\ call[v].at \in Inside
      <4>1. call'[v].beside
        BY <3>2, <2>1, <2>2, <1>c DEF Inside
      <4> QED BY <4>1 DEF Progress
    <3>3. CASE v # u /\ call[v].at \notin Inside
      BY <3>3, <2>1 DEF Progress, Inside
    <3> QED BY <3>1, <3>2, <3>3
  <2>6. StoredIsSent'
    BY <2>1 DEF StoredIsSent
  <2> QED BY <2>3, <2>4, <2>5, <2>6
<1>9. ASSUME NEW u \in Callers, StoreTemperature(u) \/ Discard(u)
      PROVE  Alone' /\ Apart' /\ (\A v \in Callers : Progress(call[v])') /\ StoredIsSent'
  <2>1. /\ \A v \in Callers : v # u => call'[v] = call[v]
        /\ call'[u].at = "unlock" /\ call[u].at \in {"check", "store"}
        /\ UNCHANGED <<dev_lock, humidity, sent>>
    BY <1>9, <1>a, LeaveStep DEF StoreTemperature, Discard
  <2>2. Alone'
    BY <2>1, <1>b, <1>f DEF Alone, Inside
  <2>3. Apart'
    BY <2>1, <1>c, KeepApart DEF Inside
  <2>4. ASSUME NEW v \in Callers PROVE Progress(call[v])'
    <3>1. CASE v = u
      BY <3>1, <2>1 DEF Progress
    <3>2. CASE v # u
      BY <3>2, <2>1, <1>d DEF Progress
    <3> QED BY <3>1, <3>2
  <2>5. StoredIsSent'
    <3>1. CASE StoreTemperature(u)
      <4>1. /\ call[u].at = "store" /\ temperature' = call[u].data[3]
            /\ spoilt' = call[u].beside
        BY <3>1 DEF StoreTemperature
      <4>2. ~call[u].beside =>
              /\ humidity = call[u].reading[1] /\ temperature' = call[u].reading[2]
              /\ call[u].reading \in sent
        BY <4>1, <1>d DEF Progress
      <4>3. ~call[u].beside => Pair' = call[u].reading
        <5>1. call[u].reading \in Pairs
          BY <1>a, CallFields
        <5> QED BY <5>1, <4>2, <2>1, PairFields DEF Pair
      <4> QED BY <4>1, <4>2, <4>3, <2>1 DEF StoredIsSent
    <3>2. CASE Discard(u)
      <4>1. call[u].at = "check" /\ UNCHANGED <<temperature, spoilt>>
        BY <3>2 DEF Discard
      <4> QED BY <4>1, <2>1, <1>e DEF StoredIsSent, Pair
    <3> QED BY <1>9, <3>1, <3>2
  <2> QED BY <2>2, <2>3, <2>4, <2>5
<1> QED
  BY <1>1, <1>2, <1>3, <1>4, <1>5, <1>6, <1>7, <1>8, <1>9, <1>f DEF Next, Work

\* With at most one byte of a frame misread, the stored pair is one the sensor
\* has sent, unless a call beside probe's has stored it (dht11.c:70-78, 158,
\* 250-254).
THEOREM NothingInvented ==
  ASSUME MaxNoise <= 1
  PROVE  Spec => []StoredIsSent
<1>1. IInv /\ [Next]_vars => IInv'
  BY StepIInv
<1>2. IInv => StoredIsSent
  BY DEF IInv
<1> QED BY InitIInv, <1>1, <1>2, PTL DEF Spec
=============================================================================
