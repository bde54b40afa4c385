------------------------------- MODULE Dht11 -------------------------------
(***************************************************************************)
(* The DHT11 driver, gpio/dht11/dht11.c, its sensor and its readers.       *)
(*                                                                         *)
(* Reading "update" takes a frame of five bytes from the sensor, bit by    *)
(* bit, with the mutex held, and stores its humidity and then its          *)
(* temperature when the control sum is right.  It says SUCCESS whatever    *)
(* happened.  "temperature" and "humidity" show what is stored, unlocked.  *)
(*                                                                         *)
(* The sensor answers a start signal with a frame or not at all.  A bit    *)
(* sampled late makes a byte wrong.  A bit missed, or a sensor that stops, *)
(* leaves the reader in a wait loop without an end.  A start signal during *)
(* another's frame moves the line that the other waits for and puts it out *)
(* of step: its bytes may be anything.                                     *)
(*                                                                         *)
(* dht11_probe creates the files and then takes a reading of its own,      *)
(* without the mutex: users may already be about.                          *)
(***************************************************************************)
EXTENDS Integers, Sequences

CONSTANTS
  Users,       \* processes that read the files
  Probe,       \* dht11_probe
  NoUser,      \* the mutex is free
  Readings,    \* what the sensor measures: pairs of humidity and temperature
  Bytes,       \* bytes that noise can turn a byte into
  MaxNoise,    \* bytes of a frame that noise can change
  MaySilent,   \* TRUE: the sensor may not answer a start signal
  MayStop      \* TRUE: a reader may wait for a bit that does not come

ASSUME Dht11Assumption ==
  /\ NoUser \notin Users /\ Probe \notin Users
  /\ Readings \subseteq (20 .. 90) \X (0 .. 50)
  /\ Bytes \subseteq 0 .. 255
  /\ MaxNoise \in 0 .. 5 /\ MaySilent \in BOOLEAN /\ MayStop \in BOOLEAN

VARIABLES
  dev_lock,                \* holder of the mutex
  call,                    \* per caller: where dht11_get_data is
  humidity, temperature,   \* the stored pair
  sent,                    \* pairs the sensor has sent
  spoilt                   \* history: the stored pair is of a call beside probe's

vars == <<dev_lock, call, humidity, temperature, sent, spoilt>>

Callers == Users \cup {Probe}

NoPair == <<0, 0>>         \* the pair before the first reading
Pairs  == Readings \cup {NoPair}
Frame(r) == <<r[1], 0, r[2], 0, r[1] + r[2]>>   \* below 256: no carry is lost

Inside == {"init", "bytes", "check", "store", "stuck"}
Stages == Inside \cup {"idle", "wait", "unlock"}
Data   == Seq(0 .. 255)

\* data[] so far, the reading it is taken from, misread bytes, whether another's
\* start signal cut the frame off, and (history) whether probe's call and this
\* one have been beside each other.
Calls == [at : Stages, data : Data, reading : Pairs, noise : 0 .. MaxNoise, cut : BOOLEAN,
          beside : BOOLEAN]

Idle == [at |-> "idle", data |-> <<>>, reading |-> NoPair, noise |-> 0, cut |-> FALSE,
         beside |-> FALSE]

To(u, at) == call' = [call EXCEPT ![u].at = at]
Leave(u)  == call' = [call EXCEPT ![u] = [Idle EXCEPT !.at = "unlock"]]
Pair == <<humidity, temperature>>

\* One of the two is probe, and v is in dht11_get_data.
Meets(u, v) == v # u /\ Probe \in {u, v} /\ call[v].at \in Inside

\* u calls dht11_get_data.
Enter(u) ==
  call' = [v \in Callers |->
    IF v = u THEN [call[v] EXCEPT !.at = "init", !.beside = \E w \in Callers : Meets(u, w)]
    ELSE [call[v] EXCEPT !.beside = @ \/ Meets(u, v)]]

\* A start signal moves the line that another reads.
Disturbed(c) ==
  IF c.at \in {"bytes", "stuck"}
  THEN [c EXCEPT !.at = "bytes", !.reading = NoPair, !.noise = 0, !.cut = TRUE] ELSE c
----------------------------------------------------------------------------
\* update_show up to its mutex_lock.
UpdateShow(u) ==
  /\ u \in Users /\ call[u].at = "idle" /\ To(u, "wait")
  /\ UNCHANGED <<dev_lock, humidity, temperature, sent, spoilt>>

\* Mutant of MutexLock: the call without the mutex.
MutexLockNot(u) ==
  /\ u \in Users /\ call[u].at = "wait"
  /\ Enter(u)
  /\ UNCHANGED <<dev_lock, humidity, temperature, sent, spoilt>>

MutexLock(u) ==
  /\ u \in Users /\ call[u].at = "wait" /\ dev_lock = NoUser
  /\ dev_lock' = u /\ Enter(u)
  /\ UNCHANGED <<humidity, temperature, sent, spoilt>>

\* dht11_probe has created the files and calls dht11_get_data.
ProbeReads ==
  /\ call[Probe].at = "wait" /\ Enter(Probe)
  /\ UNCHANGED <<dev_lock, humidity, temperature, sent, spoilt>>

\* dht11_init: the start signal, answered by a frame.
InitAnswered(u) ==
  /\ call[u].at = "init"
  /\ \E r \in Readings :
       /\ sent' = sent \cup {r}
       /\ call' = [v \in Callers |->
            IF v = u THEN [call[v] EXCEPT !.at = "bytes", !.reading = r]
            ELSE Disturbed(call[v])]
  /\ UNCHANGED <<dev_lock, humidity, temperature, spoilt>>

\* Mutant of InitSilent: try again instead of giving up.
InitSilentAgain(u) ==
  /\ MaySilent /\ call[u].at = "init"
  /\ dev_lock' = NoUser /\ To(u, "wait")
  /\ UNCHANGED <<humidity, temperature, sent, spoilt>>

\* dht11_init: ERROR_DHT11_FIRST_INIT or ERROR_DHT11_SECOND_INIT.
InitSilent(u) ==
  /\ MaySilent /\ call[u].at = "init"
  /\ call' = [v \in Callers |->
       IF v = u THEN [Idle EXCEPT !.at = "unlock"] ELSE Disturbed(call[v])]
  /\ UNCHANGED <<dev_lock, humidity, temperature, sent, spoilt>>

\* Mutant of ReadByte: the loop of dht11_get_data runs once too often.
ReadByteSix(u) ==
  /\ call[u].at = "bytes"
  /\ \E b \in Bytes :
       call' = [call EXCEPT ![u] =
         [@ EXCEPT !.data = Append(@, b),
                   !.at = IF Len(call[u].data) = 5 THEN "check" ELSE "bytes"]]
  /\ UNCHANGED <<dev_lock, humidity, temperature, sent, spoilt>>

\* dht11_read_byte: the byte that was sent, or another because of noise.
Right(c) == Frame(c.reading)[Len(c.data) + 1]
Wrong(c) == IF c.cut THEN Bytes
            ELSE IF c.noise < MaxNoise THEN Bytes \ {Right(c)} ELSE {}

ByteRead(c, b) ==
  [c EXCEPT !.data = Append(c.data, b),
            !.noise = IF b = Right(c) \/ c.cut THEN c.noise ELSE c.noise + 1,
            !.at = IF Len(c.data) = 4 THEN "check" ELSE "bytes"]

ReadByte(u) ==
  /\ call[u].at = "bytes"
  /\ \E b \in {Right(call[u])} \cup Wrong(call[u]) :
       call' = [call EXCEPT ![u] = ByteRead(call[u], b)]
  /\ UNCHANGED <<dev_lock, humidity, temperature, sent, spoilt>>

\* A wait loop of dht11_init or dht11_read_byte that does not end.
Hang(u) ==
  /\ MayStop /\ call[u].at = "bytes"
  /\ To(u, "stuck")
  /\ UNCHANGED <<dev_lock, humidity, temperature, sent, spoilt>>

\* The sum of four u8 as an int, compared with a u8.
ControlSum(d) == d[1] + d[2] + d[3] + d[4] = d[5]

\* Check control summ, and the first of the two assignments.
StoreHumidity(u) ==
  /\ call[u].at = "check" /\ ControlSum(call[u].data)
  /\ humidity' = call[u].data[1] /\ To(u, "store")
  /\ spoilt' = (spoilt \/ call[u].beside)
  /\ UNCHANGED <<dev_lock, temperature, sent>>

StoreTemperature(u) ==
  /\ call[u].at = "store"
  /\ temperature' = call[u].data[3] /\ Leave(u)
  /\ spoilt' = call[u].beside
  /\ UNCHANGED <<dev_lock, humidity, sent>>

Discard(u) ==
  /\ call[u].at = "check" /\ ~ControlSum(call[u].data)
  /\ Leave(u)
  /\ UNCHANGED <<dev_lock, humidity, temperature, sent, spoilt>>

\* mutex_unlock and the return of update_show; probe has nothing to unlock.
MutexUnlock(u) ==
  /\ call[u].at = "unlock"
  /\ dev_lock' = IF u = Probe THEN dev_lock ELSE NoUser
  /\ call' = [call EXCEPT ![u] = Idle]
  /\ UNCHANGED <<humidity, temperature, sent, spoilt>>
----------------------------------------------------------------------------
\* dht11_probe up to the files.
Init ==
  /\ dev_lock = NoUser
  /\ call = [u \in Callers |-> IF u = Probe THEN [Idle EXCEPT !.at = "wait"] ELSE Idle]
  /\ humidity = 0 /\ temperature = 0 /\ sent = {NoPair} /\ spoilt = FALSE

Work(u) ==
  \/ InitAnswered(u) \/ InitSilent(u) \/ ReadByte(u) \/ StoreHumidity(u)
  \/ StoreTemperature(u) \/ Discard(u) \/ MutexUnlock(u)

Next ==
  \/ ProbeReads
  \/ \E u \in Callers : UpdateShow(u) \/ MutexLock(u) \/ Work(u) \/ Hang(u)

\* A call in progress goes on, and a mutex is handed on to whoever waits.
Fairness ==
  /\ WF_vars(ProbeReads)
  /\ \A u \in Callers : WF_vars(Work(u)) /\ SF_vars(MutexLock(u))

Spec == Init /\ [][Next]_vars /\ Fairness
----------------------------------------------------------------------------
TypeOK ==
  /\ dev_lock \in Users \cup {NoUser}
  /\ DOMAIN call = Callers
  /\ \A u \in Callers : call[u] \in Calls /\ Len(call[u].data) <= 5
  /\ humidity \in 0 .. 255 /\ temperature \in 0 .. 255
  /\ sent \subseteq Pairs /\ spoilt \in BOOLEAN

\* What is stored is a pair the sensor sent together, between the two
\* assignments excepted: the control sum finds a byte misread (dht11.c:251),
\* and the mutex keeps two frames apart.  Only a call that was beside probe's,
\* which takes no mutex (dht11.c:158), can leave another pair, and the next one
\* that stores puts it right.
StoredIsSent == ~spoilt /\ (\A u \in Callers : call[u].at # "store") => Pair \in sent

\* A call that began ends, also after calls the sensor did not answer, unless
\* somebody waits for a bit that does not come: the loops of dht11.c:203, 217
\* and 224 have no time-out, and hold the mutex.
UpdateEnds ==
  \A u \in Users :
    (call[u].at = "wait") ~> (call[u].at = "idle" \/ \E v \in Callers : call[v].at = "stuck")
=============================================================================
