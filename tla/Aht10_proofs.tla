---------------------------- MODULE Aht10_proofs ----------------------------
(***************************************************************************)
(* The arithmetic of aht10_get_data for every 20-bit word, the range of    *)
(* what is stored whatever lies on the stack, and, until a transfer fails, *)
(* that only measured values are shown, for any number of users.           *)
(*                                                                         *)
(* A call that has fetched its bytes holds a packed measurement; one that  *)
(* has stored a value can rely on the variable keeping a measured one,     *)
(* although others overwrite it.                                           *)
(***************************************************************************)
EXTENDS Aht10, TLAPS

\* Division with remainder by the powers of two the shifts and masks stand for.
LEMMA Div16 ==
  ASSUME NEW n \in Nat
  PROVE  n = 16 * (n \div 16) + (n % 16) /\ (n % 16) \in 0 .. 15 /\ (n \div 16) \in Nat
  BY SMT

LEMMA Div256 ==
  ASSUME NEW n \in Nat
  PROVE  n = 256 * (n \div 256) + (n % 256) /\ (n % 256) \in 0 .. 255 /\ (n \div 256) \in Nat
  BY SMT

LEMMA Div4096 ==
  ASSUME NEW n \in Nat
  PROVE  n \div 4096 = (n \div 16) \div 256
  BY SMT

LEMMA Div65536 ==
  ASSUME NEW n \in Nat
  PROVE  n \div 65536 = (n \div 256) \div 256
  BY SMT

LEMMA Join16 ==
  ASSUME NEW a \in Nat, NEW b \in 0 .. 15
  PROVE  (a * 16 + b) \div 16 = a /\ (a * 16 + b) % 16 = b
  BY SMT

\* The parts of a word.
LEMMA HumidityParts ==
  ASSUME NEW w \in Word
  PROVE  /\ (w \div 4096) \in 0 .. 255 /\ ((w \div 16) % 256) \in 0 .. 255
         /\ (w % 16) \in 0 .. 15
         /\ (w \div 4096) * 4096 + ((w \div 16) % 256) * 16 + (w % 16) = w
<1>1. w \in Nat /\ w < 1048576
  BY SMT DEF Word
<1> DEFINE q == w \div 16
           r == w % 16
           a == q \div 256
           b == q % 256
<1>2. w = 16 * q + r /\ r \in 0 .. 15 /\ q \in Nat
  BY <1>1, Div16, SMT
<1> HIDE DEF q, r
<1>3. q = 256 * a + b /\ b \in 0 .. 255 /\ a \in Nat
  BY <1>2, Div256, SMT
<1> HIDE DEF a, b
<1>4. a < 256
  BY <1>1, <1>2, <1>3, SMT
<1>5. a * 4096 + b * 16 + r = w
  BY <1>2, <1>3, SMT
<1>6. w \div 4096 = a
  BY <1>1, Div4096, SMT DEF a, q
<1>7. (w \div 16) % 256 = b /\ w % 16 = r
  BY SMT DEF b, q, r
<1> QED BY <1>2, <1>3, <1>4, <1>5, <1>6, <1>7, SMT

LEMMA TemperatureParts ==
  ASSUME NEW w \in Word
  PROVE  /\ (w \div 65536) \in 0 .. 15 /\ ((w \div 256) % 256) \in 0 .. 255
         /\ (w % 256) \in 0 .. 255
         /\ (w \div 65536) * 65536 + ((w \div 256) % 256) * 256 + (w % 256) = w
<1>1. w \in Nat /\ w < 1048576
  BY SMT DEF Word
<1> DEFINE q == w \div 256
           r == w % 256
           a == q \div 256
           b == q % 256
<1>2. w = 256 * q + r /\ r \in 0 .. 255 /\ q \in Nat
  BY <1>1, Div256, SMT
<1> HIDE DEF q, r
<1>3. q = 256 * a + b /\ b \in 0 .. 255 /\ a \in Nat
  BY <1>2, Div256, SMT
<1> HIDE DEF a, b
<1>4. a < 16
  BY <1>1, <1>2, <1>3, SMT
<1>5. a * 65536 + b * 256 + r = w
  BY <1>2, <1>3, SMT
<1>6. w \div 65536 = a
  BY <1>1, Div65536, SMT DEF a, q
<1>7. (w \div 256) % 256 = b /\ w % 256 = r
  BY SMT DEF b, q, r
<1> QED BY <1>2, <1>3, <1>4, <1>5, <1>6, <1>7, SMT

\* The driver's shifts and masks undo the sensor's packing of every measurement
\* (aht10.c:178-183), and the answer is six bytes.
THEOREM UnpackPack ==
  ASSUME NEW s \in Byte, NEW h \in Word, NEW t \in Word
  PROVE  /\ Pack(s, <<h, t>>) \in Raws
         /\ RawHumidity(Pack(s, <<h, t>>)) = h
         /\ RawTemperature(Pack(s, <<h, t>>)) = t
<1> DEFINE h1 == h \div 4096
           h2 == (h \div 16) % 256
           h3 == h % 16
           t1 == t \div 65536
           t2 == (t \div 256) % 256
           t3 == t % 256
           x  == h3 * 16 + t1
<1>1. /\ h1 \in 0 .. 255 /\ h2 \in 0 .. 255 /\ h3 \in 0 .. 15
      /\ h1 * 4096 + h2 * 16 + h3 = h
  BY HumidityParts, SMT
<1>2. /\ t1 \in 0 .. 15 /\ t2 \in 0 .. 255 /\ t3 \in 0 .. 255
      /\ t1 * 65536 + t2 * 256 + t3 = t
  BY TemperatureParts, SMT
<1>3. Pack(s, <<h, t>>) = <<s, h1, h2, x, t2, t3>>
  BY SMT DEF Pack
<1> HIDE DEF h1, h2, h3, t1, t2, t3
<1>4. x \in 0 .. 255 /\ x \div 16 = h3 /\ x % 16 = t1
  BY <1>1, <1>2, Join16, SMT
<1> HIDE DEF x
<1>5. Pack(s, <<h, t>>) \in Raws
  BY <1>1, <1>2, <1>3, <1>4, SMT DEF Raws, Byte
<1>6. RawHumidity(Pack(s, <<h, t>>)) = h1 * 4096 + h2 * 16 + x \div 16
  BY <1>3, SMT DEF RawHumidity
<1>7. RawTemperature(Pack(s, <<h, t>>)) = (x % 16) * 65536 + t2 * 256 + t3
  BY <1>3, SMT DEF RawTemperature
<1> QED BY <1>1, <1>2, <1>4, <1>5, <1>6, <1>7, SMT

\* Any six bytes give words of 20 bits.
LEMMA RawWords ==
  ASSUME NEW raw \in Raws
  PROVE  RawTemperature(raw) \in Word /\ RawHumidity(raw) \in Word
<1> DEFINE r2 == raw[2]
           r3 == raw[3]
           r5 == raw[5]
           r6 == raw[6]
           p  == raw[4] % 16
           q  == raw[4] \div 16
<1>1. /\ r2 \in 0 .. 255 /\ r3 \in 0 .. 255 /\ raw[4] \in 0 .. 255
      /\ r5 \in 0 .. 255 /\ r6 \in 0 .. 255
  BY SMT DEF Raws, Byte
<1>2. p \in 0 .. 15 /\ q \in 0 .. 15
  BY <1>1, Div16, SMT
<1>3. RawTemperature(raw) = p * 65536 + r5 * 256 + r6
  BY SMT DEF RawTemperature
<1>4. RawHumidity(raw) = r2 * 4096 + r3 * 16 + q
  BY SMT DEF RawHumidity
<1> HIDE DEF p, q, r2, r3, r5, r6
<1>5. RawTemperature(raw) \in Word
  BY <1>1, <1>2, <1>3, SMT DEF Word
<1>6. RawHumidity(raw) \in Word
  BY <1>1, <1>2, <1>4, SMT DEF Word
<1> QED BY <1>5, <1>6

\* Scaled by a factor up to 200, a word stays below 2^28 and gives a number
\* below the factor.
LEMMA Scaled ==
  ASSUME NEW w \in Word
  PROVE  ((w * 200) \div 1048576) \in 0 .. 199 /\ ((w * 100) \div 1048576) \in 0 .. 99
<1>1. w \in Nat /\ w < 1048576
  BY SMT DEF Word
<1>2. \A n \in Nat : /\ n = 1048576 * (n \div 1048576) + (n % 1048576)
                     /\ (n % 1048576) \in Nat /\ (n \div 1048576) \in Nat
  BY SMT
<1>3. \A q, r \in Nat : 1048576 * q + r < 209715200 => q < 200
  BY SMT
<1>4. \A q, r \in Nat : 1048576 * q + r < 104857600 => q < 100
  BY SMT
<1> DEFINE m == w * 200
           n == w * 100
<1>5. m \in Nat /\ m < 209715200 /\ n \in Nat /\ n < 104857600
  BY <1>1, SMT
<1> HIDE DEF m, n
<1>6. m \div 1048576 < 200 /\ n \div 1048576 < 100
  BY <1>2, <1>3, <1>4, <1>5, SMT
<1> QED BY <1>2, <1>5, <1>6, SMT DEF m, n

\* Whatever six bytes are converted, the results are what the sensor can mean.
LEMMA Converted ==
  ASSUME NEW raw \in Raws
  PROVE  /\ Temperature(RawTemperature(raw)) \in TemperatureRange
         /\ Humidity(RawHumidity(raw)) \in HumidityRange
<1>1. RawTemperature(raw) \in Word /\ RawHumidity(raw) \in Word
  BY RawWords, SMT
<1> QED BY <1>1, Scaled, SMT
    DEF Temperature, Humidity, TemperatureRange, HumidityRange
----------------------------------------------------------------------------
\* Type correctness, whatever fails and whatever lies on the stack.
LEMMA InitType == Init => TypeOK
<1> SUFFICES ASSUME Init PROVE TypeOK
  OBVIOUS
<1>1. PICK s \in Statuses, m \in Measurements : register = Pack(s, m) /\ made = {m}
  BY SMT DEF Init
<1>2. s \in Byte /\ m \in Word \X Word
  BY <1>1, Aht10Assumption, SMT
<1>3. m = <<m[1], m[2]>> /\ m[1] \in Word /\ m[2] \in Word
  BY <1>2, SMT
<1>4. register \in Raws
  BY <1>1, <1>2, <1>3, UnpackPack, SMT
<1>5. [i \in 1 .. 6 |-> 0] \in Raws
  BY SMT DEF Raws, Byte
<1>6. call \in [Callers -> Calls]
  BY <1>5, SMT DEF Init, Calls, Stages, Files
<1> QED
  BY <1>1, <1>2, <1>4, <1>6, Aht10Assumption, SMT
  DEF Init, TypeOK, TemperatureRange, HumidityRange

\* Steps of one user's call.
LEMMA ToStep ==
  ASSUME call \in [Callers -> Calls], NEW u \in Callers, NEW at \in Stages,
         call' = [call EXCEPT ![u].at = at]
  PROVE  call' \in [Callers -> Calls]
<1>1. call' = [call EXCEPT ![u] = [call[u] EXCEPT !.at = at]]
  OBVIOUS
<1>2. [call[u] EXCEPT !.at = at] \in Calls
  BY SMT DEF Calls
<1> QED BY <1>1, <1>2, Zenon

LEMMA BeginCall ==
  ASSUME NEW c \in Calls, NEW at \in Stages, NEW f \in Files \cup {"log"}
  PROVE  [c EXCEPT !.at = at, !.file = f] \in Calls
  BY DEF Calls

LEMMA BeginStep ==
  ASSUME call \in [Callers -> Calls], NEW c \in Callers,
         NEW f \in Files \cup {"log"}, Begin(c, f)
  PROVE  call' \in [Callers -> Calls]
<1>1. call' = [call EXCEPT ![c] = [call[c] EXCEPT !.at = "send", !.file = f]]
  BY Zenon DEF Begin
<1>2. "send" \in Stages /\ call[c] \in Calls
  BY DEF Stages
<1>3. [call[c] EXCEPT !.at = "send", !.file = f] \in Calls
  BY <1>2, BeginCall, Zenon
<1> QED BY <1>1, <1>3, Zenon

LEMMA FetchedCall ==
  ASSUME NEW c \in Calls, NEW at \in Stages, NEW raw \in Raws
  PROVE  [c EXCEPT !.at = at, !.raw = raw] \in Calls
  BY DEF Calls

LEMMA FetchedStep ==
  ASSUME call \in [Callers -> Calls], NEW u \in Callers, NEW raw \in Raws, Fetched(u, raw)
  PROVE  call' \in [Callers -> Calls]
<1>1. call' = [call EXCEPT ![u] = [call[u] EXCEPT !.at = "temperature", !.raw = raw]]
  BY Zenon DEF Fetched
<1>2. "temperature" \in Stages /\ call[u] \in Calls
  BY DEF Stages
<1>3. [call[u] EXCEPT !.at = "temperature", !.raw = raw] \in Calls
  BY <1>2, FetchedCall, Zenon
<1> QED BY <1>1, <1>3, Zenon

LEMMA RawOf ==
  ASSUME call \in [Callers -> Calls], NEW u \in Callers
  PROVE  call[u].raw \in Raws
  BY SMT DEF Calls

LEMMA StepType == TypeOK /\ [Next]_vars => TypeOK'
<1> SUFFICES ASSUME TypeOK, [Next]_vars PROVE TypeOK'
  OBVIOUS
<1> USE DEF TypeOK
<1>1. CASE SensorInit
  <2>1. call' \in [Callers -> Calls]
    BY <1>1, BeginStep, Zenon DEF SensorInit, Callers
  <2>2. errors' \in 0 .. MaxErrors
    BY <1>1, Aht10Assumption, SMT DEF SensorInit, TransferFails
  <2> QED BY <1>1, <2>1, <2>2, SMT DEF SensorInit
<1>2. ASSUME NEW u \in Users, NEW f \in Files, Show(u, f) PROVE TypeOK'
  <2>1. call' \in [Callers -> Calls]
    BY <1>2, BeginStep, Zenon DEF Show, Callers
  <2> QED BY <1>2, <2>1, SMT DEF Show
<1>3. ASSUME NEW u \in Callers, Send(u) PROVE TypeOK'
  <2>1. call' \in [Callers -> Calls]
    <3>1. "recv" \in Stages /\ call' = [call EXCEPT ![u].at = "recv"]
      BY <1>3, Zenon DEF Send, Stages
    <3> QED BY <3>1, ToStep, Zenon
  <2>2. register' \in Raws /\ made' \subseteq Word \X Word /\ errors' \in 0 .. MaxErrors
    <3>1. CASE MeasureSent
      <4>1. PICK m \in Measurements, s \in Statuses :
              register' = Pack(s, m) /\ made' = made \cup {m} /\ UNCHANGED errors
        BY <3>1, SMT DEF MeasureSent
      <4>2. s \in Byte /\ m \in Word \X Word
        BY <4>1, Aht10Assumption, SMT
      <4>3. m = <<m[1], m[2]>> /\ m[1] \in Word /\ m[2] \in Word
        BY <4>2, SMT
      <4> QED BY <4>1, <4>2, <4>3, UnpackPack, SMT
    <3>2. CASE TransferFails /\ UNCHANGED <<register, made>>
      BY <3>2, Aht10Assumption, SMT DEF TransferFails
    <3> QED BY <1>3, <3>1, <3>2, SMT DEF Send
  <2> QED BY <1>3, <2>1, <2>2, SMT DEF Send
<1>4. ASSUME NEW u \in Callers, Recv(u) PROVE TypeOK'
  <2>1. errors' \in 0 .. MaxErrors /\ \E raw \in Raws : Fetched(u, raw)
    BY <1>4, Aht10Assumption, SMT DEF Recv, TransferFails
  <2>2. PICK raw \in Raws : Fetched(u, raw)
    BY <2>1
  <2>5. call' \in [Callers -> Calls]
    BY <2>2, FetchedStep, Zenon
  <2> QED BY <1>4, <2>1, <2>5, SMT DEF Recv
<1>5. ASSUME NEW u \in Callers, StoreTemperature(u) PROVE TypeOK'
  <2>1. call' \in [Callers -> Calls] /\ call[u].raw \in Raws
    <3>1. "humidity" \in Stages /\ call' = [call EXCEPT ![u].at = "humidity"]
      BY <1>5, Zenon DEF StoreTemperature, Stages
    <3> QED BY <3>1, ToStep, RawOf, Zenon
  <2>2. Temperature(RawTemperature(call[u].raw)) \in TemperatureRange
    BY <2>1, Converted, SMT
  <2> QED BY <1>5, <2>1, <2>2, SMT DEF StoreTemperature
<1>6. ASSUME NEW u \in Callers, StoreHumidity(u) PROVE TypeOK'
  <2>1. call' \in [Callers -> Calls] /\ call[u].raw \in Raws
    <3>1. "show" \in Stages /\ call' = [call EXCEPT ![u].at = "show"]
      BY <1>6, Zenon DEF StoreHumidity, Stages
    <3> QED BY <3>1, ToStep, RawOf, Zenon
  <2>2. Humidity(RawHumidity(call[u].raw)) \in HumidityRange
    BY <2>1, Converted, SMT
  <2> QED BY <1>6, <2>1, <2>2, SMT DEF StoreHumidity
<1>7. ASSUME NEW u \in Callers, Return(u) PROVE TypeOK'
  <2>1. call' \in [Callers -> Calls]
    <3>1. "idle" \in Stages /\ call' = [call EXCEPT ![u].at = "idle"]
      BY <1>7, Zenon DEF Return, Stages
    <3> QED BY <3>1, ToStep, Zenon
  <2> QED BY <1>7, <2>1, SMT DEF Return
<1>8. CASE UNCHANGED vars
  BY <1>8, SMT DEF vars
<1> QED BY <1>1, <1>2, <1>3, <1>4, <1>5, <1>6, <1>7, <1>8, SMT DEF Next

\* Whatever transfers fail and whatever lies on the stack, what is stored and
\* shown stays within the sensor's range (aht10.c:178-187).
THEOREM TypeCorrect == Spec => []TypeOK
  BY InitType, StepType, PTL DEF Spec
----------------------------------------------------------------------------
\* Values shown were measured, until a transfer fails.  Every call stores into
\* the same pair, but none stores anything the sensor has not measured.
Measured(raw) ==
  /\ Temperature(RawTemperature(raw)) \in TemperaturesMade
  /\ Humidity(RawHumidity(raw)) \in HumiditiesMade

Fetches(c) == c.at \in {"temperature", "humidity"} => Measured(c.raw)
Stored(c) ==
  /\ c.at \in {"humidity", "show"} => sensor_data.temperature \in TemperaturesMade
  /\ c.at = "show" => sensor_data.humidity \in HumiditiesMade

ShownMade == shown.temp \subseteq TemperaturesMade /\ shown.humid \subseteq HumiditiesMade

Clean ==
  /\ Measured(register)
  /\ \A c \in Callers : Fetches(call[c]) /\ Stored(call[c])
  /\ ShownMade

IInv == TypeOK /\ (errors = 0 => Clean)

LEMMA PackMeasured ==
  ASSUME NEW s \in Byte, NEW m \in Word \X Word, m \in made
  PROVE  Measured(Pack(s, m))
<1>1. m = <<m[1], m[2]>> /\ m[1] \in Word /\ m[2] \in Word
  BY SMT
<1>2. RawHumidity(Pack(s, m)) = m[1] /\ RawTemperature(Pack(s, m)) = m[2]
  BY <1>1, UnpackPack, SMT
<1> QED BY <1>2, Zenon DEF Measured, TemperaturesMade, HumiditiesMade

\* What has been measured stays measured.
LEMMA Grows ==
  ASSUME made \subseteq made'
  PROVE  /\ TemperaturesMade \subseteq TemperaturesMade'
         /\ HumiditiesMade \subseteq HumiditiesMade'
         /\ \A raw : Measured(raw) => Measured(raw)'
  BY Zenon DEF TemperaturesMade, HumiditiesMade, Measured

LEMMA InitMeasured == Init => IInv
<1> SUFFICES ASSUME Init PROVE IInv
  OBVIOUS
<1>1. TypeOK
  BY InitType, Zenon
<1>2. PICK s \in Statuses, m \in Measurements : register = Pack(s, m) /\ made = {m}
  BY Zenon DEF Init
<1>3. s \in Byte /\ m \in Word \X Word /\ m \in made
  BY <1>2, Aht10Assumption, Zenon
<1>4. Measured(register)
  BY <1>2, <1>3, PackMeasured, Zenon
<1>5. ASSUME NEW c \in Callers PROVE Fetches(call[c]) /\ Stored(call[c])
  <2>1. call[c].at = "idle"
    BY SMT DEF Init
  <2> QED BY <2>1, Zenon DEF Fetches, Stored
<1>6. ShownMade
  BY SMT DEF Init, ShownMade
<1> QED BY <1>1, <1>4, <1>5, <1>6, Zenon DEF IInv, Clean

\* One caller's move to a stage, with the same bytes.
LEMMA Moved ==
  ASSUME call \in [Callers -> Calls], NEW u \in Callers, NEW at \in Stages,
         call' = [call EXCEPT ![u].at = at]
  PROVE  /\ call'[u].at = at /\ call'[u].raw = call[u].raw
         /\ \A v \in Callers : v # u => call'[v] = call[v]
<1>1. call' = [call EXCEPT ![u] = [call[u] EXCEPT !.at = at]]
  OBVIOUS
<1>2. \A c \in Calls : [c EXCEPT !.at = at].at = at /\ [c EXCEPT !.at = at].raw = c.raw
  BY DEF Calls
<1> QED BY <1>1, <1>2, Zenon

\* A step whose sensor data stay measured, whose shown values do, and which
\* leaves one call, if any, at a stage it may be at.
LEMMA Kept ==
  ASSUME Clean, made \subseteq made', NEW u \in Callers,
         Measured(register)',
         \/ sensor_data' = sensor_data
         \/ /\ sensor_data'.temperature \in TemperaturesMade'
            /\ sensor_data'.humidity = sensor_data.humidity
         \/ /\ sensor_data'.temperature = sensor_data.temperature
            /\ sensor_data'.humidity \in HumiditiesMade',
         \A v \in Callers : v # u => call'[v] = call[v],
         Fetches(call[u])' /\ Stored(call[u])',
         ShownMade'
  PROVE  Clean'
<1>1. /\ TemperaturesMade \subseteq TemperaturesMade'
      /\ HumiditiesMade \subseteq HumiditiesMade'
      /\ \A raw : Measured(raw) => Measured(raw)'
  BY Grows, Zenon
<1>2. ASSUME NEW v \in Callers, v # u PROVE Fetches(call[v])' /\ Stored(call[v])'
  <2>1. call'[v] = call[v] /\ Fetches(call[v]) /\ Stored(call[v])
    BY <1>2, Zenon DEF Clean
  <2> QED BY <1>1, <2>1, Zenon DEF Fetches, Stored
<1> QED BY <1>2, Zenon DEF Clean

\* A step after which no transfer has failed is one without a failure.
LEMMA NoFailure ==
  ASSUME TypeOK, [Next]_vars, errors' = 0
  PROVE  errors = 0 /\ ~TransferFails
<1>1. errors \in Nat
  BY Aht10Assumption, SMT DEF TypeOK
<1>2. errors' = errors \/ TransferFails
  BY Zenon DEF Next, vars, SensorInit, Show, Send, MeasureSent, Recv, StoreTemperature,
               StoreHumidity, Return
<1>3. ~TransferFails
  BY <1>1, SMT DEF TransferFails
<1> QED BY <1>2, <1>3

LEMMA StepMeasured == IInv /\ [Next]_vars => IInv'
<1> SUFFICES ASSUME IInv, [Next]_vars, errors' = 0 PROVE Clean'
  BY StepType, Zenon DEF IInv
<1>1. TypeOK /\ TypeOK' /\ call \in [Callers -> Calls]
  <2>1. TypeOK /\ TypeOK'
    BY StepType, Zenon DEF IInv
  <2> QED BY <2>1, SMT DEF TypeOK
<1>3. errors = 0 /\ ~TransferFails
  BY <1>1, NoFailure
<1>2. /\ Clean /\ Measured(register) /\ ShownMade
      /\ \A c \in Callers : Fetches(call[c]) /\ Stored(call[c])
  BY <1>3, Zenon DEF IInv, Clean
<1>4. made' = made /\ register' = register => Measured(register)'
  BY <1>2, Zenon DEF Measured, TemperaturesMade, HumiditiesMade
<1>5. made' = made /\ shown' = shown => ShownMade'
  BY <1>2, Zenon DEF ShownMade, TemperaturesMade, HumiditiesMade
<1>6. ASSUME NEW u \in Callers, NEW f \in Files \cup {"log"}, Begin(u, f),
             UNCHANGED <<register, made, sensor_data, shown>>
      PROVE Clean'
  <2>1. /\ call'[u].at = "send"
        /\ \A v \in Callers : v # u => call'[v] = call[v]
    <3>1. call' = [call EXCEPT ![u] = [call[u] EXCEPT !.at = "send", !.file = f]]
      BY <1>6, Zenon DEF Begin
    <3>2. \A c \in Calls : [c EXCEPT !.at = "send", !.file = f].at = "send"
      BY DEF Calls
    <3> QED BY <1>1, <3>1, <3>2, Zenon
  <2>2. Fetches(call[u])' /\ Stored(call[u])'
    BY <2>1, Zenon DEF Fetches, Stored
  <2> QED BY <1>1, <1>4, <1>5, <1>6, <2>1, <2>2, <1>2, Kept, Zenon
<1>7. CASE SensorInit
  BY <1>6, <1>7, Zenon DEF SensorInit, Callers
<1>8. ASSUME NEW u \in Users, NEW f \in Files, Show(u, f) PROVE Clean'
  BY <1>6, <1>8, Zenon DEF Show, Callers
<1>9. ASSUME NEW u \in Callers, Send(u) PROVE Clean'
  <2>1. "recv" \in Stages /\ call' = [call EXCEPT ![u].at = "recv"]
        /\ sensor_data' = sensor_data /\ shown' = shown
    BY <1>9, Zenon DEF Send, Stages
  <2>2. PICK m \in Measurements, s \in Statuses :
          register' = Pack(s, m) /\ made' = made \cup {m}
    BY <1>3, <1>9, Zenon DEF Send, MeasureSent
  <2>3. s \in Byte /\ m \in Word \X Word /\ m \in made' /\ made \subseteq made'
    BY <2>2, Aht10Assumption, Zenon
  <2>4. Measured(register)'
    <3>1. m = <<m[1], m[2]>> /\ m[1] \in Word /\ m[2] \in Word
      BY <2>3, SMT
    <3>2. RawHumidity(Pack(s, m)) = m[1] /\ RawTemperature(Pack(s, m)) = m[2]
      BY <2>3, <3>1, UnpackPack, SMT
    <3> QED BY <2>2, <2>3, <3>2, Zenon DEF Measured, TemperaturesMade, HumiditiesMade
  <2>5. ShownMade'
    <3>1. TemperaturesMade \subseteq TemperaturesMade' /\ HumiditiesMade \subseteq HumiditiesMade'
      BY <2>3, Grows, Zenon
    <3> QED BY <1>2, <2>1, <3>1, Zenon DEF ShownMade
  <2>6. call'[u].at = "recv" /\ \A v \in Callers : v # u => call'[v] = call[v]
    BY <1>1, <2>1, Moved, Zenon
  <2>7. Fetches(call[u])' /\ Stored(call[u])'
    BY <2>6, Zenon DEF Fetches, Stored
  <2> QED BY <1>1, <2>1, <2>3, <2>4, <2>5, <2>6, <2>7, <1>2, Kept, Zenon
<1>10. ASSUME NEW u \in Callers, Recv(u) PROVE Clean'
  <2>1. Fetched(u, register) /\ register \in Raws
        /\ UNCHANGED <<register, made, sensor_data, shown>>
    BY <1>1, <1>3, <1>10, Zenon DEF Recv, TypeOK
  <2>2. /\ call'[u].at = "temperature" /\ call'[u].raw = register
        /\ \A v \in Callers : v # u => call'[v] = call[v]
    <3>1. call' = [call EXCEPT ![u] = [call[u] EXCEPT !.at = "temperature", !.raw = register]]
      BY <2>1, Zenon DEF Fetched
    <3>2. \A c \in Calls :
            /\ [c EXCEPT !.at = "temperature", !.raw = register].at = "temperature"
            /\ [c EXCEPT !.at = "temperature", !.raw = register].raw = register
      BY DEF Calls
    <3> QED BY <1>1, <3>1, <3>2, Zenon
  <2>3. Fetches(call[u])' /\ Stored(call[u])'
    <3>1. Measured(call[u].raw)'
      BY <1>2, <2>1, <2>2, Zenon DEF Measured, TemperaturesMade, HumiditiesMade
    <3> QED BY <2>2, <3>1, Zenon DEF Fetches, Stored
  <2> QED BY <1>1, <1>4, <1>5, <2>1, <2>2, <2>3, <1>2, Kept, Zenon
<1>11. ASSUME NEW u \in Callers, StoreTemperature(u) PROVE Clean'
  <2>1. "humidity" \in Stages /\ call' = [call EXCEPT ![u].at = "humidity"]
        /\ UNCHANGED <<register, made, shown>>
    BY <1>11, Zenon DEF StoreTemperature, Stages
  <2>2. /\ call'[u].at = "humidity" /\ call'[u].raw = call[u].raw
        /\ \A v \in Callers : v # u => call'[v] = call[v]
    BY <1>1, <2>1, Moved, Zenon
  <2>3. Measured(call[u].raw)
    BY <1>2, <1>11, Zenon DEF StoreTemperature, Fetches
  <2>4. /\ sensor_data'.temperature = Temperature(RawTemperature(call[u].raw))
        /\ sensor_data'.humidity = sensor_data.humidity
    BY <1>1, <1>11, SMT DEF StoreTemperature, TypeOK
  <2>5. sensor_data'.temperature \in TemperaturesMade'
    BY <2>1, <2>3, <2>4, Zenon DEF Measured, TemperaturesMade
  <2>6. Fetches(call[u])' /\ Stored(call[u])'
    BY <2>1, <2>2, <2>3, <2>5, Zenon
    DEF Fetches, Stored, Measured, TemperaturesMade, HumiditiesMade
  <2> QED BY <1>1, <1>4, <1>5, <2>1, <2>2, <2>4, <2>5, <2>6, <1>2, Kept, Zenon
<1>12. ASSUME NEW u \in Callers, StoreHumidity(u) PROVE Clean'
  <2>1. "show" \in Stages /\ call' = [call EXCEPT ![u].at = "show"]
        /\ UNCHANGED <<register, made, shown>>
    BY <1>12, Zenon DEF StoreHumidity, Stages
  <2>2. /\ call'[u].at = "show"
        /\ \A v \in Callers : v # u => call'[v] = call[v]
    BY <1>1, <2>1, Moved, Zenon
  <2>3. Measured(call[u].raw) /\ sensor_data.temperature \in TemperaturesMade
    BY <1>2, <1>12, Zenon DEF StoreHumidity, Fetches, Stored
  <2>4. /\ sensor_data'.humidity = Humidity(RawHumidity(call[u].raw))
        /\ sensor_data'.temperature = sensor_data.temperature
    BY <1>1, <1>12, SMT DEF StoreHumidity, TypeOK
  <2>5. sensor_data'.humidity \in HumiditiesMade'
    BY <2>1, <2>3, <2>4, Zenon DEF Measured, HumiditiesMade
  <2>6. Fetches(call[u])' /\ Stored(call[u])'
    BY <2>1, <2>2, <2>3, <2>4, <2>5, Zenon DEF Fetches, Stored, TemperaturesMade
  <2> QED BY <1>1, <1>4, <1>5, <2>1, <2>2, <2>4, <2>5, <2>6, <1>2, Kept, Zenon
<1>13. ASSUME NEW u \in Callers, Return(u) PROVE Clean'
  <2>1. "idle" \in Stages /\ call' = [call EXCEPT ![u].at = "idle"]
        /\ UNCHANGED <<register, made, sensor_data>>
    BY <1>13, Zenon DEF Return, Stages
  <2>2. /\ call'[u].at = "idle"
        /\ \A v \in Callers : v # u => call'[v] = call[v]
    BY <1>1, <2>1, Moved, Zenon
  <2>3. Fetches(call[u])' /\ Stored(call[u])'
    BY <2>2, Zenon DEF Fetches, Stored
  <2>4. /\ sensor_data.temperature \in TemperaturesMade
        /\ sensor_data.humidity \in HumiditiesMade
    BY <1>2, <1>13, Zenon DEF Return, Stored
  <2>5. /\ shown'.temp \subseteq shown.temp \cup {sensor_data.temperature}
        /\ shown'.humid \subseteq shown.humid \cup {sensor_data.humidity}
    BY <1>1, <1>13, SMT DEF Return, TypeOK
  <2>6. ShownMade'
    BY <1>2, <2>1, <2>4, <2>5, Zenon DEF ShownMade, TemperaturesMade, HumiditiesMade
  <2> QED BY <1>1, <1>4, <2>1, <2>2, <2>3, <2>6, <1>2, Kept, Zenon
<1>14. CASE UNCHANGED vars
  BY <1>2, <1>14, Zenon
  DEF vars, Clean, Measured, Fetches, Stored, ShownMade, TemperaturesMade, HumiditiesMade
<1> QED
  BY <1>7, <1>8, <1>9, <1>10, <1>11, <1>12, <1>13, <1>14, Zenon DEF Next

\* Until a transfer fails, every value shown was measured, whichever calls
\* overlap (aht10.c:109-127, 163-188).
THEOREM ShownMeasured == Spec => []ShowsMeasured
<1>1. Init => IInv
  BY InitMeasured
<1>2. IInv /\ [Next]_vars => IInv'
  BY StepMeasured
<1>3. IInv => ShowsMeasured
  BY DEF IInv, Clean, ShownMade, ShowsMeasured
<1> QED BY <1>1, <1>2, <1>3, PTL DEF Spec
=============================================================================
