------------------------------- MODULE Aht10 -------------------------------
(***************************************************************************)
(* The AHT10 driver, i2c/aht10/aht10.c, its sensor and its readers.        *)
(*                                                                         *)
(* Reading "temp" or "humid" has the sensor measure, waits 350 ms, fetches *)
(* six bytes, stores both values in sensor_data, which all calls share     *)
(* without a lock, and shows one of them.  The bytes are left as they were *)
(* on the stack when the transfer fails: no result is looked at.           *)
(*                                                                         *)
(* A measurement takes the sensor less than the driver waits; here it is   *)
(* made at the command.  The products stay below 2^28, and a temperature   *)
(* below zero comes back from u32 to int as it was.                        *)
(***************************************************************************)
EXTENDS Integers, Sequences

CONSTANTS
  Users,         \* processes that read the files
  Probe,         \* aht10_probe, which takes a reading of its own
  Measurements,  \* pairs of 20-bit values the sensor measures: humidity, temperature
  Garbage,       \* what may lie on the stack where raw_data is
  Statuses,      \* status bytes of the sensor
  MaxErrors      \* bound: transfers that fail

Byte  == 0 .. 255
Raws  == [1 .. 6 -> Byte]
Word  == {w \in Nat : w < 1048576}      \* 20 bits

ASSUME Aht10Assumption ==
  /\ Measurements \subseteq Word \X Word /\ Measurements # {}
  /\ Garbage \subseteq Raws /\ Statuses \subseteq Byte
  /\ MaxErrors \in Nat
  /\ Probe \notin Users

VARIABLES
  probe,         \* "files" once they exist, "read" when all that is left is a reading
  register,      \* the six bytes the sensor answers with
  made,          \* measurements made
  call,          \* per caller: where the call is, and what it is for
  sensor_data,   \* the shared pair
  shown,         \* values shown, by file
  errors         \* transfers that have failed

vars == <<probe, register, made, call, sensor_data, shown, errors>>

Files == {"temp", "humid"}
Callers == Users \cup {Probe}
Stages == {"idle", "send", "recv", "temperature", "humidity", "show"}
Calls == [at : Stages, file : Files \cup {"log"}, raw : Raws]
----------------------------------------------------------------------------
\* The sensor's answer: status, 20 bits of humidity, 20 bits of temperature.
Pack(s, m) == <<s, m[1] \div 4096, (m[1] \div 16) % 256,
                (m[1] % 16) * 16 + m[2] \div 65536, (m[2] \div 256) % 256, m[2] % 256>>

\* Mutant of RawTemperature: the humidity's four bits not masked off.
RawTemperatureAll(raw) == raw[4] * 65536 + raw[5] * 256 + raw[6]

RawTemperature(raw) == (raw[4] % 16) * 65536 + raw[5] * 256 + raw[6]
RawHumidity(raw)    == raw[2] * 4096 + raw[3] * 16 + raw[4] \div 16

Temperature(t) == (t * 200) \div 1048576 - 50
Humidity(h)    == (h * 100) \div 1048576
----------------------------------------------------------------------------
Begin(c, f) == call' = [call EXCEPT ![c] = [@ EXCEPT !.at = "send", !.file = f]]

\* show_temp and show_humid: the files exist before probe has done with the
\* sensor.
Show(u, f) ==
  /\ call[u].at = "idle"
  /\ Begin(u, f)
  /\ UNCHANGED <<probe, register, made, sensor_data, shown, errors>>

\* i2c_master_send fails or not; aht10_get_data goes on.
MeasureSent ==
  \E m \in Measurements, s \in Statuses :
    register' = Pack(s, m) /\ made' = made \cup {m} /\ UNCHANGED errors

TransferFails == errors < MaxErrors /\ errors' = errors + 1

Send(u) ==
  /\ call[u].at = "send"
  /\ MeasureSent \/ (TransferFails /\ UNCHANGED <<register, made>>)
  /\ call' = [call EXCEPT ![u].at = "recv"]
  /\ UNCHANGED <<probe, sensor_data, shown>>

Fetched(u, raw) ==
  call' = [call EXCEPT ![u] = [@ EXCEPT !.at = "temperature", !.raw = raw]]

Recv(u) ==
  /\ call[u].at = "recv"
  /\ \/ Fetched(u, register) /\ UNCHANGED errors
     \/ TransferFails /\ \E raw \in Garbage : Fetched(u, raw)
  /\ UNCHANGED <<probe, register, made, sensor_data, shown>>

\* Mutant of StoreTemperature: scaled and then shifted in the shared variable.
StoreTemperatureInPlace(u) ==
  /\ \/ /\ call[u].at = "temperature"
        /\ sensor_data' = [sensor_data EXCEPT !.temperature =
                             (RawTemperature(call[u].raw) * 200) \div 1048576]
        /\ call' = [call EXCEPT ![u].at = "shift"]
     \/ /\ call[u].at = "shift"
        /\ sensor_data' = [sensor_data EXCEPT !.temperature = @ - 50]
        /\ call' = [call EXCEPT ![u].at = "humidity"]
  /\ UNCHANGED <<probe, register, made, shown, errors>>

StoreTemperature(u) ==
  /\ call[u].at = "temperature"
  /\ sensor_data' = [sensor_data EXCEPT !.temperature = Temperature(RawTemperature(call[u].raw))]
  /\ call' = [call EXCEPT ![u].at = "humidity"]
  /\ UNCHANGED <<probe, register, made, shown, errors>>

StoreHumidity(u) ==
  /\ call[u].at = "humidity"
  /\ sensor_data' = [sensor_data EXCEPT !.humidity = Humidity(RawHumidity(call[u].raw))]
  /\ call' = [call EXCEPT ![u].at = "show"]
  /\ UNCHANGED <<probe, register, made, shown, errors>>

\* sprintf of the shared value, whoever stored it last; probe only logs.
Return(u) ==
  /\ call[u].at = "show"
  /\ shown' = CASE call[u].file = "temp"  -> [shown EXCEPT !.temp = @ \cup {sensor_data.temperature}]
                [] call[u].file = "humid" -> [shown EXCEPT !.humid = @ \cup {sensor_data.humidity}]
                [] OTHER -> shown
  /\ call' = [call EXCEPT ![u].at = "idle"]
  /\ UNCHANGED <<probe, register, made, sensor_data, errors>>

\* aht10_sensor_init returns after its command in any case: a transfer of one
\* byte returns 1, which is not 0, so that the status is never fetched.  The
\* sensor's initialisation changes nothing here; probe's reading follows.
SensorInit ==
  /\ probe = "files" /\ probe' = "read"
  /\ UNCHANGED errors \/ TransferFails
  /\ Begin(Probe, "log")
  /\ UNCHANGED <<register, made, sensor_data, shown>>
----------------------------------------------------------------------------
Init ==
  /\ probe = "files"
  /\ \E s \in Statuses, m \in Measurements : register = Pack(s, m) /\ made = {m}
  /\ call = [c \in Callers |-> [at |-> "idle", file |-> "temp", raw |-> [i \in 1 .. 6 |-> 0]]]
  /\ sensor_data = [temperature |-> 0, humidity |-> 0]
  /\ shown = [temp |-> {}, humid |-> {}]
  /\ errors = 0

Next ==
  \/ SensorInit
  \/ \E u \in Users, f \in Files : Show(u, f)
  \/ \E u \in Callers :
       \/ Send(u) \/ Recv(u) \/ StoreTemperature(u) \/ StoreHumidity(u) \/ Return(u)

Spec == Init /\ [][Next]_vars
----------------------------------------------------------------------------
TemperatureRange == -50 .. 149
HumidityRange    == 0 .. 99

TypeOK ==
  /\ probe \in {"files", "read"}
  /\ register \in Raws /\ made \subseteq Word \X Word
  /\ call \in [Callers -> Calls]
  /\ sensor_data \in [temperature : TemperatureRange, humidity : HumidityRange]
  /\ shown \in [temp : SUBSET TemperatureRange, humid : SUBSET HumidityRange]
  /\ errors \in 0 .. MaxErrors

TemperaturesMade == {Temperature(m[2]) : m \in made}
HumiditiesMade   == {Humidity(m[1]) : m \in made}

\* "Get temperature and humidity" (aht10.c:3): what is shown was measured,
\* although all calls store into the same two variables, unlocked, and the
\* one that shows may not be the one that stored last.  It takes a transfer
\* that fails to show what lay on the stack: no result is looked at.
ShowsMeasured ==
  errors = 0 => shown.temp \subseteq TemperaturesMade /\ shown.humid \subseteq HumiditiesMade
=============================================================================
