-------------------------- MODULE Lifecycle_proofs --------------------------
(***************************************************************************)
(* Proofs about Lifecycle, for any number of loads, probes, open files and *)
(* refusals.                                                               *)
(*                                                                         *)
(* What the eight drivers' lists of steps have in common is stated once,   *)
(* as lemmas about one step of one list; the invariant speaks of positions *)
(* in the lists (Register, RootAt) and of what the steps before the        *)
(* current one have put in place (Done).                                   *)
(***************************************************************************)
EXTENDS Lifecycle, TLAPS

Steps == [what : Things \cup {"device"},
          refused : {"returned", "ignored", "followed", "never", "missing", "unseen"}]

\* The step of init that registers the driver.
Register(d) == IF d \in {"at24c64", "dht11"} THEN 2 ELSE 1

\* The step of init that creates the class, where there is one.
ClassAt(d) == IF d = "at24c64" THEN 4 ELSE 1

\* The step of probe that registers the root device; 0 where there is none.
RootAt(d) == IF d \in {"aht10", "ssd1306", "sysfs_i2c"} THEN 4
             ELSE IF d = "at24c64" THEN 5 ELSE 0

Rooted == {"aht10", "ssd1306", "sysfs_i2c", "at24c64"}

\* Everything a driver ever puts in place.
MayOf ==
  [aht10 |-> {"dir", "driver", "dtdata", "memory", "root", "drvdata", "files", "stale"},
   ssd1306 |-> {"dir", "driver", "dtdata", "client", "root", "drvdata", "files", "stale"},
   sysfs_i2c |-> {"dir", "driver", "dtdata", "memory", "root", "files", "stale"},
   at24c64 |-> {"dir", "driver", "region", "leak", "class", "cdev", "node", "dtdata",
                "memory", "client", "root", "stale"},
   dht11 |-> {"dir", "driver", "class", "line", "files"},
   led_pwm |-> {"dir", "driver", "memory", "chip", "dangling"},
   test_i2c |-> {"dir", "driver", "dtdata", "memory"},
   test_spi |-> {"dir", "driver", "dtdata", "memory", "setup"}]
----------------------------------------------------------------------------
Secured(s) == s.refused \in {"never", "returned", "followed"} /\ ~Undescribed(s)

Done ==
  bind = "probing" =>
    /\ pc <= Len(ProbeOf[driver]) + 1
    /\ \A k \in 1 .. pc - 1 :
         Secured(ProbeOf[driver][k]) => ProbeOf[driver][k].what \in there

OnBus ==
  /\ "driver" \in there =>
       \/ mod = "live"
       \/ mod = "leaving" /\ at = 1
       \/ mod = "loading" /\ at > Register(driver)
  /\ bind # "unbound" => "driver" \in there \/ (mod = "leaving" /\ at = 1)

Roots ==
  /\ "root" \in there \/ bind # "unbound" => probes >= 1
  /\ bind = "probing" => "dir" \in there
  /\ bind = "probing" /\ pc <= RootAt(driver) /\ "root" \in there => probes >= 2
  /\ driver \in {"aht10", "ssd1306"} /\ {"root", "dir"} \subseteq there =>
       \/ bind = "bound"
       \/ bind = "probing" /\ pc > RootAt(driver)
       \/ bind = "removing" /\ pc = 1

Pointers ==
  /\ driver = "at24c64" /\ bind = "probing" /\ pc > 2 /\ tree # {} /\ "dtdata" \notin there
       => faults > 0
  /\ driver = "led_pwm" /\ "chip" \notin there /\
     (bind = "bound" \/ (bind = "probing" /\ pc > 2) \/ (bind = "removing" /\ pc = 1))
       => faults > 0

Kept ==
  /\ there \subseteq MayOf[driver]
  /\ bind = "unbound" => "memory" \notin there /\ "dtdata" \notin there /\ "chip" \notin there
  /\ mod = "absent" => "files" \notin there /\ "cdev" \notin there /\ "client" \notin there
  /\ "region" \in there => mod \in {"loading", "live"} \/ (mod = "leaving" /\ at <= 3)
  /\ "class" \in there => \/ mod = "live"
                          \/ mod = "loading" /\ at > ClassAt(driver)
                          \/ mod = "leaving" /\ at <= 2
  /\ "chip" \in there => bind # "probing" \/ pc > 2
  /\ driver = "dht11" /\ "files" \in there =>
       \/ bind = "bound"
       \/ bind = "probing" /\ pc > 2
       \/ bind = "removing" /\ pc = 1
  /\ "leak" \in there => faults > 0
  /\ opens > 0 => driver = "at24c64"

IInv ==
  TypeOK /\ Done /\ OnBus /\ FilesHaveData /\ Roots /\ Pointers /\ Kept /\ OopsExplained
----------------------------------------------------------------------------
LEMMA InitLists ==
  ASSUME NEW d \in Drivers
  PROVE  /\ Len(InitOf[d]) \in 1 .. 5
         /\ \A k \in 1 .. Len(InitOf[d]) :
              /\ InitOf[d][k].what \in {"driver", "class", "region", "cdev", "node"}
              /\ InitOf[d][k].what \in MayOf[d]
              /\ InitOf[d][k].refused \in {"returned", "ignored"}
              /\ InitOf[d][k].what = "driver" <=> k = Register(d)
              /\ InitOf[d][k].refused = "returned" =>
                   k <= Register(d) /\ InitOf[d][k].what # "node"
              /\ InitOf[d][k].what = "class" => k = ClassAt(d)
              /\ InitOf[d][k].refused = "returned" /\ "class" \in MayOf[d] =>
                   k <= ClassAt(d)
<1> USE DEF Gets, GetsIfItCan, MayOf, Register, ClassAt
<1>1. CASE d \in {"aht10", "ssd1306"}
  BY <1>1 DEF InitOf, Drivers, Aht10Init, Ssd1306Init
<1>2. CASE d \in {"sysfs_i2c", "test_i2c", "test_spi"}
  BY <1>2 DEF InitOf, Drivers, SysfsI2cInit, TestI2cInit, TestSpiInit
<1>3. CASE d \in {"led_pwm", "dht11"}
  BY <1>3 DEF InitOf, Drivers, LedPwmInit, Dht11Init
<1>4. CASE d = "at24c64"
  BY <1>4 DEF InitOf, Drivers, At24c64Init
<1> QED BY <1>1, <1>2, <1>3, <1>4 DEF Drivers

LEMMA ExitLists ==
  ASSUME NEW d \in Drivers
  PROVE  /\ Len(ExitOf[d]) \in 1 .. 3
         /\ ExitOf[d][1] = "driver"
         /\ \A k \in 1 .. Len(ExitOf[d]) :
              /\ ExitOf[d][k] \in {"driver", "class", "region"}
              /\ ExitOf[d][k] = "driver" <=> k = 1
              /\ ExitOf[d][k] = "region" <=> k = 3
         /\ "class" \in MayOf[d] => Len(ExitOf[d]) >= 2
         /\ "region" \in MayOf[d] => Len(ExitOf[d]) = 3
<1> USE DEF MayOf
<1>1. CASE d \in {"aht10", "ssd1306"}
  BY <1>1 DEF ExitOf, Drivers, Aht10Exit, Ssd1306Exit
<1>2. CASE d \in {"sysfs_i2c", "test_i2c", "test_spi"}
  BY <1>2 DEF ExitOf, Drivers, SysfsI2cExit, TestI2cExit, TestSpiExit
<1>3. CASE d = "led_pwm"
  BY <1>3 DEF ExitOf, Drivers, LedPwmExit
<1>4. CASE d = "dht11"
  BY <1>4 DEF ExitOf, Drivers, Dht11Exit
<1>5. CASE d = "at24c64"
  BY <1>5 DEF ExitOf, Drivers, At24c64Exit
<1> QED BY <1>1, <1>2, <1>3, <1>4, <1>5 DEF Drivers

LEMMA RemoveLists ==
  ASSUME NEW d \in Drivers
  PROVE  /\ d \in {"aht10", "ssd1306", "dht11"} => RemoveOf[d] = <<"dir">>
         /\ d = "led_pwm" => RemoveOf[d] = <<"chip">>
         /\ d \in {"at24c64", "sysfs_i2c", "test_i2c", "test_spi"} => RemoveOf[d] = <<>>
BY DEF RemoveOf, Drivers, Aht10Remove, Ssd1306Remove, Dht11Remove, LedPwmRemove,
       At24c64Remove, SysfsI2cRemove, TestI2cRemove, TestSpiRemove

\* One step of a probe, by what it gets and what it does about a refusal.
LEMMA ProbeLists ==
  ASSUME NEW d \in Drivers
  PROVE  /\ Len(ProbeOf[d]) \in 2 .. 7
         /\ \A k \in 1 .. Len(ProbeOf[d]) :
              /\ ProbeOf[d][k] \in Steps
              /\ ProbeOf[d][k].what \in (MayOf[d] \ {"dir", "driver", "stale", "leak"})
                                          \cup {"device"}
              /\ ProbeOf[d][k].what = "device" <=> ProbeOf[d][k] = Talks
              /\ ProbeOf[d][k].refused = "unseen" <=> ProbeOf[d][k] = Talks
              /\ ProbeOf[d][k].what = "root" <=> k = RootAt(d)
              /\ ProbeOf[d][k].what \in {"class", "region", "cdev", "node"} => FALSE
              /\ ProbeOf[d][k].what = "chip" => k = 2
              /\ ProbeOf[d][k].what = "files" /\ d = "dht11" => k = 2
              /\ d = "dht11" /\ ProbeOf[d][k].refused = "returned" => k <= 2
<1> USE DEF Gets, GetsIfItCan, GetsBlindly, Sets, Follows, Talks, Steps, Things, MayOf, RootAt
<1>1. CASE d = "aht10"
  BY <1>1 DEF ProbeOf, Drivers, Aht10Probe
<1>2. CASE d = "ssd1306"
  BY <1>2 DEF ProbeOf, Drivers, Ssd1306Probe
<1>3. CASE d = "sysfs_i2c"
  BY <1>3 DEF ProbeOf, Drivers, SysfsI2cProbe
<1>4. CASE d = "at24c64"
  BY <1>4 DEF ProbeOf, Drivers, At24c64Probe
<1>5. CASE d = "test_i2c"
  BY <1>5 DEF ProbeOf, Drivers, TestI2cProbe
<1>6. CASE d = "test_spi"
  BY <1>6 DEF ProbeOf, Drivers, TestSpiProbe
<1>7. CASE d = "led_pwm"
  BY <1>7 DEF ProbeOf, Drivers, LedPwmProbe
<1>8. CASE d = "dht11"
  BY <1>8 DEF ProbeOf, Drivers, Dht11Probe
<1> QED BY <1>1, <1>2, <1>3, <1>4, <1>5, <1>6, <1>7, <1>8 DEF Drivers

\* What the functions behind the files follow is there before the files are.
LEMMA NeedsFirst ==
  ASSUME NEW d \in Drivers, NEW k \in 1 .. Len(ProbeOf[d]), ProbeOf[d][k].what = "files",
         NEW x \in FilesNeed[d]
  PROVE  \E j \in 1 .. k - 1 : /\ ProbeOf[d][j].what = x /\ x # "dtdata"
                              /\ ProbeOf[d][j].refused \in {"never", "returned", "followed"}
<1> USE DEF Gets, GetsIfItCan, GetsBlindly, Sets, Follows, Talks, FilesNeed
<1>1. CASE d = "aht10"
  <2>1. x = "drvdata" /\ k = 6
    BY <1>1 DEF ProbeOf, Drivers, Aht10Probe
  <2>2. 5 \in 1 .. k - 1 /\ ProbeOf[d][5] = Sets("drvdata")
    BY <1>1, <2>1 DEF ProbeOf, Aht10Probe
  <2> QED BY <2>1, <2>2
<1>2. CASE d = "ssd1306"
  <2>1. x = "client" /\ k = 6
    BY <1>2 DEF ProbeOf, Drivers, Ssd1306Probe
  <2>2. 2 \in 1 .. k - 1 /\ ProbeOf[d][2] = Sets("client")
    BY <1>2, <2>1 DEF ProbeOf, Ssd1306Probe
  <2> QED BY <2>1, <2>2
<1>3. CASE d = "dht11"
  <2>1. x = "line" /\ k = 2
    BY <1>3 DEF ProbeOf, Drivers, Dht11Probe
  <2>2. 1 \in 1 .. k - 1 /\ ProbeOf[d][1] = Gets("line")
    BY <1>3, <2>1 DEF ProbeOf, Dht11Probe
  <2> QED BY <2>1, <2>2
<1> QED BY <1>1, <1>2, <1>3 DEF Drivers

\* The steps that follow a pointer they have not checked.
LEMMA Unchecked ==
  ASSUME NEW d \in Drivers, NEW k \in 1 .. Len(ProbeOf[d])
  PROVE  /\ ProbeOf[d][k].refused = "followed" =>
              d \in Rooted \cup {"test_i2c", "test_spi"} /\
              (ProbeOf[d][k].what = "memory" \/ k = RootAt(d))
         /\ ProbeOf[d][k].refused = "missing" =>
              /\ d \in ReadsTree /\ ProbeOf[d][k].what = "dtdata"
              /\ IF d = "at24c64" THEN k = 4
                 ELSE \E j \in 1 .. k - 1 : ProbeOf[d][j] = Gets("dtdata")
         /\ ProbeOf[d][k].refused = "returned" /\ d \in Rooted => k < RootAt(d)
         /\ d = "led_pwm" => Len(ProbeOf[d]) = 2 /\ ProbeOf[d][2] = GetsIfItCan("chip")
         /\ d = "at24c64" => ProbeOf[d][2] = GetsIfItCan("dtdata")
         /\ ProbeOf[d][k].what = "client" => ProbeOf[d][k].refused = "never"
<1> USE DEF Gets, GetsIfItCan, GetsBlindly, Sets, Follows, Talks, RootAt, Rooted, ReadsTree
<1>1. CASE d = "aht10"
  <2>1. ProbeOf[d][1] = Gets("dtdata")
    BY <1>1 DEF ProbeOf, Aht10Probe
  <2> QED BY <1>1, <2>1 DEF ProbeOf, Drivers, Aht10Probe
<1>2. CASE d = "ssd1306"
  <2>1. ProbeOf[d][1] = Gets("dtdata")
    BY <1>2 DEF ProbeOf, Ssd1306Probe
  <2> QED BY <1>2, <2>1 DEF ProbeOf, Drivers, Ssd1306Probe
<1>3. CASE d = "sysfs_i2c"
  <2>1. ProbeOf[d][1] = Gets("dtdata")
    BY <1>3 DEF ProbeOf, SysfsI2cProbe
  <2> QED BY <1>3, <2>1 DEF ProbeOf, Drivers, SysfsI2cProbe
<1>4. CASE d = "at24c64"
  BY <1>4 DEF ProbeOf, Drivers, At24c64Probe
<1>5. CASE d = "test_i2c"
  <2>1. ProbeOf[d][1] = Gets("dtdata")
    BY <1>5 DEF ProbeOf, TestI2cProbe
  <2> QED BY <1>5, <2>1 DEF ProbeOf, Drivers, TestI2cProbe
<1>6. CASE d = "test_spi"
  <2>1. ProbeOf[d][2] = Gets("dtdata")
    BY <1>6 DEF ProbeOf, TestSpiProbe
  <2> QED BY <1>6, <2>1 DEF ProbeOf, Drivers, TestSpiProbe
<1>7. CASE d = "led_pwm"
  BY <1>7 DEF ProbeOf, Drivers, LedPwmProbe
<1>8. CASE d = "dht11"
  BY <1>8 DEF ProbeOf, Drivers, Dht11Probe
<1> QED BY <1>1, <1>2, <1>3, <1>4, <1>5, <1>6, <1>7, <1>8 DEF Drivers
----------------------------------------------------------------------------
LEMMA FilesFollow ==
  ASSUME NEW d \in Drivers PROVE FilesNeed[d] \subseteq {"drvdata", "client", "line"}
BY DEF Drivers, FilesNeed

LEMMA Bounds == MaxLoads \in Nat /\ MaxProbes \in Nat /\ MaxUsers \in Nat /\ MaxFaults \in Nat
BY LifecycleAssumption

LEMMA MayHold == ASSUME NEW d \in Drivers PROVE {"dir", "driver"} \subseteq MayOf[d]
BY DEF Drivers, MayOf

LEMMA InitInv == Init => IInv
<1> SUFFICES ASSUME Init PROVE IInv
  OBVIOUS
<1>1. TypeOK
  BY Bounds DEF Init, TypeOK, Things, Drivers
<1>2. Kept
  BY MayHold DEF Init, Kept
<1>3. FilesHaveData /\ Roots /\ Pointers /\ Done /\ OnBus /\ OopsExplained
  BY DEF Init, FilesHaveData, Roots, Pointers, Done, OnBus, OopsExplained
<1> QED BY <1>1, <1>2, <1>3 DEF IInv

\* Steps that leave the device's binding and what is in place alone.
LEMMA ModuleSteps ==
  IInv /\ (Load \/ Loaded \/ Unload) => IInv'
<1> SUFFICES ASSUME IInv, Load \/ Loaded \/ Unload PROVE IInv'
  OBVIOUS
<1> USE DEF IInv
<1>1. TypeOK'
  <2>1. CASE Load
    BY <2>1, Bounds DEF TypeOK, Load, fixed, binding, users
  <2>2. CASE Loaded
    BY <2>2, Bounds DEF TypeOK, Loaded, fixed, binding, users
  <2>3. CASE Unload
    BY <2>3, Bounds DEF TypeOK, Unload, fixed, binding, users
  <2> QED BY <2>1, <2>2, <2>3
<1>2. /\ UNCHANGED <<driver, tree, bind, pc, probes, there, readers, opens, requests, kernel,
                    faults>>
      /\ kernel = "running"
  BY DEF Load, Loaded, Unload, fixed, binding, users
<1>3. Done'
  BY <1>2 DEF Done, Secured, Undescribed
<1>4. FilesHaveData' /\ Roots' /\ Pointers'
  BY <1>2 DEF FilesHaveData, Roots, Pointers
<1>5. OopsExplained'
  BY <1>2 DEF OopsExplained
<1>6. OnBus' /\ Kept'
  <2>1. CASE Load
    BY <2>1 DEF Load, OnBus, Kept, fixed, binding, users, TypeOK
  <2>2. CASE Loaded
    BY <2>2 DEF Loaded, OnBus, Kept, fixed, binding, users, TypeOK
  <2>3. CASE Unload
    BY <2>3 DEF Unload, OnBus, Kept, fixed, binding, users, TypeOK
  <2> QED BY <2>1, <2>2, <2>3
<1> QED BY <1>1, <1>3, <1>4, <1>5, <1>6

\* What an init that fails, or an exit, leaves of what is in place.
LEMMA GoneKeeps ==
  ASSUME NEW left \in SUBSET Things
  PROVE  /\ Gone(left) \in SUBSET Things
         /\ "files" \notin Gone(left) /\ "cdev" \notin Gone(left) /\ "client" \notin Gone(left)
         /\ \A x \in Gone(left) :
              x \in left \/ (x = "stale" /\ ("files" \in left \/ "cdev" \in left))
         /\ \A x \in left : x \in Gone(left) \/ x \in {"files", "cdev", "client"}
BY DEF Gone, Things

LEMMA LeakedKeeps ==
  ASSUME NEW left \in SUBSET Things
  PROVE  /\ Leaked(left) \in SUBSET Things /\ "region" \notin Leaked(left)
         /\ \A x \in Leaked(left) : x \in left \/ (x = "leak" /\ "region" \in left)
         /\ \A x \in left : x \in Leaked(left) \/ x = "region"
BY DEF Leaked, Things

\* Which of the drivers can have what.
LEMMA Owners ==
  ASSUME NEW d \in Drivers
  PROVE  /\ "files" \in MayOf[d] \/ "cdev" \in MayOf[d] => "stale" \in MayOf[d] \/ d = "dht11"
         /\ "region" \in MayOf[d] => "leak" \in MayOf[d]
         /\ "chip" \in MayOf[d] => d = "led_pwm" /\ "dangling" \in MayOf[d]
         /\ "cdev" \in MayOf[d] => d = "at24c64"
         /\ "root" \in MayOf[d] => d \in Rooted
BY DEF Drivers, MayOf, Rooted

\* A step leaves the count of refusals alone, or adds one within the bound.
Counted == faults' \in 0 .. MaxFaults /\ faults' >= faults /\ faults \in 0 .. MaxFaults

LEMMA FaultCounted ==
  ASSUME TypeOK, faults' = faults \/ (faults < MaxFaults /\ faults' = faults + 1)
  PROVE  Counted
BY Bounds DEF TypeOK, Counted

LEMMA InitStepInv == IInv /\ InitStep => IInv'
<1> SUFFICES ASSUME IInv, InitStep PROVE IInv'
  OBVIOUS
<1> USE DEF IInv
<1> PICK s : s = InitOf[driver][at]
  OBVIOUS
<1>0. /\ at <= Len(InitOf[driver]) /\ LoadStep(s) /\ mod = "loading" /\ kernel = "running"
  BY DEF InitStep
<1>1. /\ driver \in Drivers /\ at \in 1 .. Len(InitOf[driver]) /\ LoadStep(s)
      /\ mod = "loading" /\ kernel = "running" /\ there \in SUBSET Things /\ at \in 1 .. 5
  <2>1. driver \in Drivers /\ there \in SUBSET Things /\ at \in 1 .. 6
    BY DEF TypeOK
  <2>2. Len(InitOf[driver]) \in 1 .. 5
    BY <2>1, InitLists
  <2> QED BY <1>0, <2>1, <2>2
<1>2. /\ UNCHANGED <<driver, tree, bind, pc, probes, readers, opens, requests, kernel, loads>>
      /\ Counted
  <2>1. faults' = faults \/ (faults < MaxFaults /\ faults' = faults + 1)
    BY <1>1 DEF LoadStep, Granted, Refused, Fault, NoFault
  <2> QED BY <2>1, FaultCounted DEF InitStep, fixed, binding, users
<1>3. /\ s.what \in {"driver", "class", "region", "cdev", "node"} /\ s.what \in MayOf[driver]
      /\ s.refused \in {"returned", "ignored"}
      /\ s.what = "driver" <=> at = Register(driver)
      /\ s.refused = "returned" => at <= Register(driver)
      /\ s.what = "class" => at = ClassAt(driver)
      /\ s.refused = "returned" /\ "class" \in MayOf[driver] => at <= ClassAt(driver)
  BY <1>1, InitLists
<1>4. CASE there' = there \cup {s.what} /\ at' = at + 1 /\ UNCHANGED mod
  <2>1. TypeOK'
    <3>1. s.what \in Things
      BY <1>3 DEF Things
    <3> QED BY <1>1, <1>2, <1>4, <3>1 DEF TypeOK, Counted
  <2>2. Done'
    BY <1>1, <1>2, <1>4 DEF Done, Secured, Undescribed
  <2>3. FilesHaveData' /\ OopsExplained'
    BY <1>1, <1>2, <1>3, <1>4 DEF FilesHaveData, OopsExplained
  <2>4. Roots' /\ Pointers'
    BY <1>1, <1>2, <1>3, <1>4 DEF Roots, Pointers, Counted
  <2>5. OnBus'
    BY <1>1, <1>2, <1>3, <1>4 DEF OnBus, Register
  <2>6. Kept'
    BY <1>1, <1>2, <1>3, <1>4 DEF Kept, Counted, ClassAt
  <2> QED BY <2>1, <2>2, <2>3, <2>4, <2>5, <2>6
<1>5. CASE at' = at + 1 /\ UNCHANGED <<mod, there>>
  <2>1. TypeOK'
    BY <1>1, <1>2, <1>5 DEF TypeOK, Counted
  <2>2. Done'
    BY <1>1, <1>2, <1>5 DEF Done, Secured, Undescribed
  <2>3. FilesHaveData' /\ OopsExplained'
    BY <1>1, <1>2, <1>5 DEF FilesHaveData, OopsExplained
  <2>4. Roots' /\ Pointers'
    BY <1>1, <1>2, <1>5 DEF Roots, Pointers, Counted
  <2>5. OnBus' /\ Kept'
    BY <1>1, <1>2, <1>5 DEF OnBus, Kept, Counted, Register, ClassAt
  <2> QED BY <2>1, <2>2, <2>3, <2>4, <2>5
<1>6. CASE Refused(s) /\ s.refused = "returned" /\ mod' = "absent" /\ at' = 1
           /\ there' = Gone(Leaked(there))
  <2>1. /\ "driver" \notin there /\ bind = "unbound"
    BY <1>1, <1>3, <1>6 DEF OnBus, Register
  <2>2. faults' > 0 \/ s.what = "node"
    BY <1>6, <1>3, <1>1, Bounds DEF Refused, Taken, Wanting, Fault, TypeOK
  <2>3. s.what # "node"
    BY <1>1, <1>6, <1>3, InitLists
  <2>4. Leaked(there) \in SUBSET Things
    BY <1>1, LeakedKeeps
  <2>5. /\ there' \in SUBSET Things
        /\ "files" \notin there' /\ "cdev" \notin there' /\ "client" \notin there'
        /\ \A x \in there' : \/ x \in there
                             \/ x = "stale" /\ ("files" \in there \/ "cdev" \in there)
                             \/ x = "leak" /\ "region" \in there
        /\ \A x \in there : x \in there' \/ x \in {"files", "cdev", "client", "region"}
        /\ "region" \notin there'
    BY <1>1, <1>6, <2>4, GoneKeeps, LeakedKeeps
  <2>6. TypeOK'
    BY <1>1, <1>2, <1>6, <2>5 DEF TypeOK, Counted
  <2>7. Done' /\ FilesHaveData' /\ OopsExplained'
    BY <1>1, <1>2, <1>6, <2>1, <2>5 DEF Done, FilesHaveData, OopsExplained
  <2>8. Roots' /\ Pointers' /\ OnBus'
    BY <1>1, <1>2, <1>6, <2>1, <2>5 DEF Roots, Pointers, OnBus
  <2>9. Kept'
    BY <1>1, <1>2, <1>3, <1>6, <2>1, <2>2, <2>3, <2>5, Owners DEF Kept, Counted, ClassAt
  <2> QED BY <2>6, <2>7, <2>8, <2>9
<1> QED BY <1>1, <1>4, <1>5, <1>6 DEF LoadStep

LEMMA ExitStepInv == IInv /\ ExitStep => IInv'
<1> SUFFICES ASSUME IInv, ExitStep PROVE IInv'
  OBVIOUS
<1> USE DEF IInv
<1> PICK x : x = ExitOf[driver][at]
  OBVIOUS
<1>0. /\ at <= Len(ExitOf[driver]) /\ mod = "leaving" /\ mod' = mod /\ kernel = "running"
      /\ UNCHANGED <<driver, tree, bind, pc, probes, readers, opens, requests, kernel, loads,
                    faults>>
      /\ x \in there \/ x # "driver" \/ bind = "unbound"
      /\ there' = there \ {x}
      /\ at' = IF x = "driver" /\ bind # "unbound" THEN at ELSE at + 1
  BY DEF ExitStep, fixed, binding, users
<1>1. /\ driver \in Drivers /\ at \in 1 .. Len(ExitOf[driver]) /\ at \in 1 .. 3
      /\ mod = "leaving" /\ mod' = mod /\ kernel = "running"
      /\ UNCHANGED <<driver, tree, bind, pc, probes, readers, opens, requests, kernel, loads,
                    faults>>
      /\ x \in there \/ x # "driver" \/ bind = "unbound"
      /\ there' = there \ {x}
      /\ at' = IF x = "driver" /\ bind # "unbound" THEN at ELSE at + 1
  <2>1. driver \in Drivers /\ at \in 1 .. 6
    BY DEF TypeOK
  <2>2. Len(ExitOf[driver]) \in 1 .. 3
    BY <2>1, ExitLists
  <2>3. at \in 1 .. Len(ExitOf[driver]) /\ at \in 1 .. 3
    BY <1>0, <2>1, <2>2
  <2> QED BY <1>0, <2>1, <2>3
<1>2. /\ x \in {"driver", "class", "region"}
      /\ x = "driver" <=> at = 1
      /\ x = "region" <=> at = 3
  BY <1>1, ExitLists
<1>3. TypeOK'
  BY <1>1, <1>2 DEF TypeOK
<1>4. Done'
  <2> SUFFICES ASSUME bind = "probing", NEW k \in 1 .. pc - 1,
                      Secured(ProbeOf[driver][k])
               PROVE  ProbeOf[driver][k].what \in there'
    BY <1>1 DEF Done, Secured, Undescribed
  <2>1. k \in 1 .. Len(ProbeOf[driver])
    BY <1>1, ProbeLists DEF Done, TypeOK
  <2>2. ProbeOf[driver][k].what \notin {"driver", "class", "region"}
    BY <1>1, <2>1, ProbeLists
  <2> QED BY <1>1, <1>2, <2>2 DEF Done
<1>5. FilesHaveData' /\ OopsExplained'
  BY <1>1, <1>2, FilesFollow DEF FilesHaveData, OopsExplained
<1>6. Roots' /\ Pointers'
  BY <1>1, <1>2 DEF Roots, Pointers
<1>7. OnBus' /\ Kept'
  BY <1>1, <1>2 DEF OnBus, Kept
<1> QED BY <1>3, <1>4, <1>5, <1>6, <1>7

LEMMA UnloadedInv == IInv /\ Unloaded => IInv'
<1> SUFFICES ASSUME IInv, Unloaded PROVE IInv'
  OBVIOUS
<1> USE DEF IInv
<1>1. /\ driver \in Drivers /\ mod = "leaving" /\ mod' = "absent" /\ at' = 1
      /\ at > Len(ExitOf[driver]) /\ at > 1 /\ there' = Gone(there) /\ kernel = "running"
      /\ UNCHANGED <<driver, tree, bind, pc, probes, readers, opens, requests, kernel, loads,
                    faults>>
      /\ there \in SUBSET Things
  BY ExitLists DEF Unloaded, TypeOK, fixed, binding, users
<1>2. "driver" \notin there /\ bind = "unbound"
  BY <1>1 DEF OnBus
<1>3. /\ there' \in SUBSET Things
      /\ "files" \notin there' /\ "cdev" \notin there' /\ "client" \notin there'
      /\ \A x \in there' : \/ x \in there
                           \/ x = "stale" /\ ("files" \in there \/ "cdev" \in there)
      /\ \A x \in there : x \in there' \/ x \in {"files", "cdev", "client"}
  BY <1>1, GoneKeeps
<1>4. "class" \notin there /\ "region" \notin there
  BY <1>1, ExitLists DEF Kept, TypeOK
<1>5. TypeOK'
  BY <1>1, <1>3 DEF TypeOK
<1>6. Done' /\ FilesHaveData' /\ OopsExplained'
  BY <1>1, <1>2, <1>3 DEF Done, FilesHaveData, OopsExplained
<1>7. Roots' /\ Pointers' /\ OnBus'
  BY <1>1, <1>2, <1>3 DEF Roots, Pointers, OnBus
<1>8. Kept'
  BY <1>1, <1>2, <1>3, <1>4, Owners DEF Kept
<1> QED BY <1>5, <1>6, <1>7, <1>8
----------------------------------------------------------------------------
LEMMA BindInv == IInv /\ Bind => IInv'
<1> SUFFICES ASSUME IInv, Bind PROVE IInv'
  OBVIOUS
<1> USE DEF IInv
<1>1. /\ driver \in Drivers /\ bind = "unbound" /\ bind' = "probing" /\ pc' = 1
      /\ probes < MaxProbes /\ probes' = probes + 1 /\ kernel = "running"
      /\ "driver" \in there /\ "dir" \in there
      /\ UNCHANGED <<driver, tree, mod, at, there, readers, opens, requests, kernel, loads,
                    faults>>
  BY DEF Bind, TypeOK, fixed, module, users
<1>2. TypeOK'
  BY <1>1, Bounds DEF TypeOK
<1>3. Done' /\ FilesHaveData' /\ OopsExplained'
  BY <1>1, ProbeLists DEF Done, FilesHaveData, OopsExplained
<1>4. Roots' /\ Pointers'
  BY <1>1 DEF Roots, Pointers, TypeOK
<1>5. OnBus' /\ Kept'
  BY <1>1 DEF OnBus, Kept
<1> QED BY <1>2, <1>3, <1>4, <1>5

LEMMA ProbedUnbindInv == IInv /\ (Probed \/ Unbind) => IInv'
<1> SUFFICES ASSUME IInv, Probed \/ Unbind PROVE IInv'
  OBVIOUS
<1> USE DEF IInv
<1>1. /\ driver \in Drivers /\ pc' = 1 /\ kernel = "running"
      /\ \/ bind = "probing" /\ pc > Len(ProbeOf[driver]) /\ bind' = "bound"
         \/ bind = "bound" /\ bind' = "removing"
      /\ UNCHANGED <<driver, tree, mod, at, there, probes, readers, opens, requests, kernel,
                    loads, faults>>
  BY DEF Probed, Unbind, TypeOK, fixed, module, users
<1>2. driver = "led_pwm" => Len(ProbeOf[driver]) = 2
  BY DEF ProbeOf, LedPwmProbe
<1>3. TypeOK'
  BY <1>1 DEF TypeOK
<1>4. Done' /\ FilesHaveData' /\ OopsExplained'
  BY <1>1 DEF Done, FilesHaveData, OopsExplained
<1>5. Roots' /\ Pointers'
  BY <1>1, <1>2 DEF Roots, Pointers
<1>6. OnBus' /\ Kept'
  BY <1>1 DEF OnBus, Kept
<1> QED BY <1>3, <1>4, <1>5, <1>6

\* What every step of probe has in common: its place in the list, the facts
\* about that place, and what it leaves alone.
AtStep(s) ==
  /\ driver \in Drivers /\ bind = "probing" /\ kernel = "running" /\ mod # "absent"
  /\ pc \in 1 .. Len(ProbeOf[driver]) /\ pc \in 1 .. 7 /\ s = ProbeOf[driver][pc]
  /\ there \in SUBSET Things /\ probes >= 1 /\ Counted
  /\ UNCHANGED <<driver, tree, mod, at, probes, readers, opens, requests, loads>>
  /\ s \in Steps
  /\ s.what \in (MayOf[driver] \ {"dir", "driver", "stale", "leak"}) \cup {"device"}
  /\ s.what = "device" <=> s.refused = "unseen"
  /\ s.what = "root" <=> pc = RootAt(driver)
  /\ s.what \notin {"class", "region", "cdev", "node"}
  /\ s.what = "chip" => pc = 2
  /\ driver = "dht11" /\ s.what = "files" => pc = 2
  /\ driver = "dht11" /\ s.refused = "returned" => pc <= 2
  /\ driver \in Rooted /\ s.refused = "returned" => pc < RootAt(driver)
  /\ driver = "led_pwm" /\ pc = 2 => s = GetsIfItCan("chip")
  /\ driver = "led_pwm" => pc <= 2
  /\ driver = "at24c64" /\ pc = 2 => s = GetsIfItCan("dtdata")

LEMMA ProbeAt ==
  ASSUME IInv, Probe
  PROVE  AtStep(ProbeOf[driver][pc]) /\ ProbeStep(ProbeOf[driver][pc])
<1> PICK s : s = ProbeOf[driver][pc]
  OBVIOUS
<1>0. /\ bind = "probing" /\ kernel = "running" /\ pc <= Len(ProbeOf[driver])
      /\ ProbeStep(s)
      /\ UNCHANGED <<driver, tree, mod, at, probes, readers, opens, requests, loads>>
  BY DEF Probe, fixed, module, users
<1>1. /\ driver \in Drivers /\ bind = "probing" /\ kernel = "running"
      /\ pc \in 1 .. Len(ProbeOf[driver]) /\ pc \in 1 .. 7 /\ ProbeStep(s)
      /\ there \in SUBSET Things
      /\ UNCHANGED <<driver, tree, mod, at, probes, readers, opens, requests, loads>>
  <2>1. driver \in Drivers /\ pc \in 1 .. 8 /\ there \in SUBSET Things
    BY DEF IInv, TypeOK
  <2>2. Len(ProbeOf[driver]) \in 2 .. 7
    BY <2>1, ProbeLists
  <2>3. pc \in 1 .. Len(ProbeOf[driver]) /\ pc \in 1 .. 7
    BY <1>0, <2>1, <2>2
  <2> QED BY <1>0, <2>1, <2>3
<1>2. mod # "absent" /\ probes >= 1
  BY <1>1 DEF IInv, OnBus, Roots
<1>3. Counted
  <2>1. faults' = faults \/ (faults < MaxFaults /\ faults' = faults + 1)
    BY <1>1 DEF ProbeStep, Granted, Refused, Fault, NoFault
  <2> QED BY <2>1, FaultCounted DEF IInv
<1>4. /\ s \in Steps
      /\ s.what \in (MayOf[driver] \ {"dir", "driver", "stale", "leak"}) \cup {"device"}
      /\ s.what = "device" <=> s = Talks
      /\ s.refused = "unseen" <=> s = Talks
      /\ s.what = "root" <=> pc = RootAt(driver)
      /\ s.what \notin {"class", "region", "cdev", "node"}
      /\ s.what = "chip" => pc = 2
      /\ driver = "dht11" /\ s.what = "files" => pc = 2
      /\ driver = "dht11" /\ s.refused = "returned" => pc <= 2
  BY <1>1, ProbeLists
<1>5. /\ driver \in Rooted /\ s.refused = "returned" => pc < RootAt(driver)
      /\ driver = "led_pwm" =>
           Len(ProbeOf[driver]) = 2 /\ ProbeOf[driver][2] = GetsIfItCan("chip")
      /\ driver = "at24c64" => ProbeOf[driver][2] = GetsIfItCan("dtdata")
  BY <1>1, Unchecked
<1> QED BY <1>1, <1>2, <1>3, <1>4, <1>5 DEF AtStep

\* The step has put in place what it gets.
LEMMA ProbeGets ==
  ASSUME IInv, NEW s, AtStep(s), Granted(s), ~Undescribed(s),
         there' = there \cup {s.what}, pc' = pc + 1, UNCHANGED <<bind, kernel>>
  PROVE  IInv'
<1> USE DEF IInv, AtStep
<1>1. /\ s.refused \in {"returned", "ignored", "followed", "never"} /\ s.what # "device"
      /\ s.what \in MayOf[driver]
  BY DEF Granted
<1>2. s.what \in Things
  BY <1>1 DEF Steps
<1>3. TypeOK'
  BY <1>2 DEF TypeOK, Counted
<1>4. Done'
  <2>1. \A k \in 1 .. pc : k \in 1 .. pc - 1 \/ k = pc
    OBVIOUS
  <2> QED BY <2>1 DEF Done, Secured, Undescribed
<1>5. FilesHaveData'
  <2>1. CASE s.what = "files"
    <3> SUFFICES ASSUME NEW x \in FilesNeed[driver] PROVE x \in there
      BY DEF FilesHaveData
    <3>1. PICK j \in 1 .. pc - 1 :
            /\ ProbeOf[driver][j].what = x /\ x # "dtdata"
            /\ ProbeOf[driver][j].refused \in {"never", "returned", "followed"}
      BY <2>1, NeedsFirst
    <3> QED BY <3>1 DEF Done, Secured, Undescribed
  <2>2. CASE s.what # "files"
    BY <2>2 DEF FilesHaveData
  <2> QED BY <2>1, <2>2
<1>6. Roots' /\ OnBus' /\ OopsExplained'
  BY <1>1 DEF Roots, OnBus, OopsExplained, RootAt
<1>7. Pointers'
  BY <1>1 DEF Pointers, Counted, GetsIfItCan
<1>8. Kept'
  BY <1>1 DEF Kept, Counted
<1> QED BY <1>3, <1>4, <1>5, <1>6, <1>7, <1>8

\* The step has got nothing and probe goes on.
LEMMA ProbeGoesOn ==
  ASSUME IInv, NEW s, AtStep(s), ~Secured(s), pc' = pc + 1, UNCHANGED <<bind, there, kernel>>,
         (s = GetsIfItCan("dtdata") /\ tree # {}) \/ s = GetsIfItCan("chip") => faults' > 0
  PROVE  IInv'
<1> USE DEF IInv, AtStep
<1>1. TypeOK'
  BY DEF TypeOK, Counted
<1>2. Done'
  <2>1. \A k \in 1 .. pc : k \in 1 .. pc - 1 \/ k = pc
    OBVIOUS
  <2> QED BY <2>1 DEF Done, Secured, Undescribed
<1>3. FilesHaveData' /\ Roots' /\ OnBus' /\ OopsExplained'
  BY DEF FilesHaveData, Roots, OnBus, OopsExplained, RootAt
<1>4. Pointers'
  BY DEF Pointers, Counted
<1>5. Kept'
  BY DEF Kept, Counted
<1> QED BY <1>1, <1>2, <1>3, <1>4, <1>5

\* The step has been refused and probe returns the error.
LEMMA ProbeFails ==
  ASSUME IInv, NEW s, AtStep(s), s.refused = "returned", Unbound, UNCHANGED kernel
  PROVE  IInv'
<1> USE DEF IInv, AtStep
<1>1. /\ bind' = "unbound" /\ pc' = 1 /\ there' \in SUBSET Things
      /\ "memory" \notin there' /\ "dtdata" \notin there'
      /\ \A x \in there' : x \in there
      /\ \A x \in there : x \in there' \/ x \in {"memory", "dtdata"}
  BY DEF Unbound, Managed
<1>2. TypeOK'
  BY <1>1 DEF TypeOK, Counted
<1>3. FilesHaveData' /\ Done' /\ Pointers'
  BY <1>1, FilesFollow DEF FilesHaveData, Done, Pointers
<1>4. Roots' /\ OnBus' /\ OopsExplained'
  BY <1>1 DEF Roots, OnBus, OopsExplained, Rooted, RootAt
<1>5. Kept'
  <2>1. "chip" \notin there
    BY Owners DEF Kept
  <2> QED BY <1>1, <2>1 DEF Kept, Counted
<1> QED BY <1>2, <1>3, <1>4, <1>5

\* The step has followed a pointer that leads nowhere: the reasons for it.
LEMMA ProbeOops ==
  ASSUME IInv, NEW s, AtStep(s), kernel' = "oops", UNCHANGED <<bind, pc, there>>,
         \/ Refused(s) /\ s.refused = "followed"
         \/ s.refused = "missing" /\ s.what \notin there /\ NoFault
         \/ Corrupts(s) /\ NoFault
  PROVE  IInv'
<1> USE DEF IInv, AtStep
<1>1. TypeOK'
  BY DEF TypeOK, Counted
<1>2. Done' /\ FilesHaveData' /\ Roots' /\ OnBus'
  BY DEF Done, FilesHaveData, Roots, OnBus, Secured, Undescribed
<1>3. Pointers' /\ Kept'
  BY DEF Pointers, Kept, Counted
<1>4. OopsExplained'
  <2>1. CASE Refused(s) /\ s.refused = "followed"
    <3>1. /\ driver \in Rooted \cup {"test_i2c", "test_spi"}
          /\ s.what = "memory" \/ (s.what = "root" /\ pc = RootAt(driver))
      BY <2>1, Unchecked
    <3>2. CASE s.what = "root" /\ "root" \in there
      <4>1. probes > 1 /\ driver \notin {"aht10", "ssd1306"}
        BY <3>1, <3>2, Bounds DEF Roots, RootAt, TypeOK
      <4>2. driver \in {"at24c64", "sysfs_i2c"}
        BY <4>1, <3>2, Owners DEF Kept, Rooted
      <4> QED BY <4>1, <4>2 DEF OopsExplained
    <3>3. CASE ~(s.what = "root" /\ "root" \in there)
      <4>1. faults' > 0
        BY <2>1, <3>1, <3>3, Bounds DEF Refused, Taken, Wanting, Fault, TypeOK
      <4> QED BY <3>1, <4>1 DEF OopsExplained, Rooted
    <3> QED BY <3>2, <3>3
  <2>2. CASE s.refused = "missing" /\ s.what \notin there
    <3>1. driver \in ReadsTree /\ s.what = "dtdata"
      BY <2>2, Unchecked
    <3>2. CASE driver = "at24c64"
      <4>1. pc = 4
        BY <2>2, <3>2, Unchecked
      <4>2. tree = {} \/ faults > 0
        BY <2>2, <3>1, <3>2, <4>1 DEF Pointers
      <4> QED BY <3>1, <3>2, <4>2 DEF OopsExplained, Counted
    <3>3. CASE driver # "at24c64"
      <4>1. PICK j \in 1 .. pc - 1 : ProbeOf[driver][j] = Gets("dtdata")
        BY <2>2, <3>3, Unchecked
      <4>2. tree = {}
        BY <2>2, <3>1, <4>1 DEF Done, Secured, Undescribed, Gets, TypeOK
      <4> QED BY <3>1, <4>2 DEF OopsExplained
    <3> QED BY <3>2, <3>3
  <2>3. CASE Corrupts(s)
    BY <2>3 DEF Corrupts, OopsExplained
  <2> QED BY <2>1, <2>2, <2>3
<1> QED BY <1>1, <1>2, <1>3, <1>4

LEMMA ProbeInv == IInv /\ Probe => IInv'
<1> SUFFICES ASSUME IInv, Probe PROVE IInv'
  OBVIOUS
<1> PICK s : s = ProbeOf[driver][pc]
  OBVIOUS
<1>1. AtStep(s) /\ ProbeStep(s)
  BY ProbeAt
<1>2. CASE /\ Granted(s) /\ ~Undescribed(s) /\ ~Corrupts(s)
           /\ there' = there \cup {s.what} /\ pc' = pc + 1 /\ UNCHANGED <<bind, kernel>>
  BY <1>1, <1>2, ProbeGets
<1>3. CASE Undescribed(s) /\ pc' = pc + 1 /\ UNCHANGED <<bind, there, kernel>>
  <2>1. ~Secured(s) /\ s # GetsIfItCan("chip") /\ tree = {}
    BY <1>3 DEF Secured, Undescribed, GetsIfItCan
  <2> QED BY <1>1, <1>3, <2>1, ProbeGoesOn
<1>4. CASE /\ Refused(s) /\ s.refused = "ignored"
           /\ pc' = pc + 1 /\ UNCHANGED <<bind, there, kernel>>
  <2>1. ~Secured(s)
    BY <1>4 DEF Secured
  <2>2. s = GetsIfItCan("dtdata") \/ s = GetsIfItCan("chip") => faults' > 0
    BY <1>4, Bounds DEF Refused, Taken, Wanting, Fault, GetsIfItCan, IInv, TypeOK
  <2> QED BY <1>1, <1>4, <2>1, <2>2, ProbeGoesOn
<1>5. CASE Refused(s) /\ s.refused = "returned" /\ Unbound /\ UNCHANGED kernel
  BY <1>1, <1>5, ProbeFails
<1>6. CASE /\ s = Talks \/ (s.refused = "missing" /\ s.what \in there)
           /\ pc' = pc + 1 /\ UNCHANGED <<bind, there, kernel>>
  <2>1. s.refused \in {"unseen", "missing"}
    BY <1>6 DEF Talks
  <2>2. ~Secured(s) /\ s # GetsIfItCan("dtdata") /\ s # GetsIfItCan("chip")
    BY <2>1 DEF Secured, GetsIfItCan
  <2> QED BY <1>1, <1>6, <2>2, ProbeGoesOn
<1>7. CASE /\ \/ Refused(s) /\ s.refused = "followed"
              \/ s.refused = "missing" /\ s.what \notin there /\ NoFault
              \/ Corrupts(s) /\ NoFault
           /\ kernel' = "oops" /\ UNCHANGED <<bind, pc, there>>
  BY <1>1, <1>7, ProbeOops
<1> QED BY <1>1, <1>2, <1>3, <1>4, <1>5, <1>6, <1>7 DEF ProbeStep
----------------------------------------------------------------------------
LEMMA RemoveStepInv == IInv /\ RemoveStep => IInv'
<1> SUFFICES ASSUME IInv, RemoveStep PROVE IInv'
  OBVIOUS
<1> USE DEF IInv
<1> PICK x : x = RemoveOf[driver][pc]
  OBVIOUS
<1>1. /\ driver \in Drivers /\ bind = "removing" /\ kernel = "running"
      /\ pc \in 1 .. 8 /\ pc <= Len(RemoveOf[driver]) /\ there \in SUBSET Things
      /\ UNCHANGED <<driver, tree, mod, at, bind, probes, readers, opens, requests, loads,
                    faults>>
  BY DEF RemoveStep, TypeOK, fixed, module, users
<1>2. \/ pc = 1 /\ x = "dir" /\ driver \in {"aht10", "ssd1306", "dht11"}
      \/ pc = 1 /\ x = "chip" /\ driver = "led_pwm"
  BY <1>1, RemoveLists DEF Drivers
<1>3. CASE there' = there \ Below(x) /\ pc' = pc + 1 /\ UNCHANGED kernel
  <2>1. CASE x = "dir"
    <3>1. /\ "dir" \notin there' /\ there' \in SUBSET Things
          /\ \A y \in there' : y \in there
          /\ \A y \in there : y \in there' \/ y \in {"dir", "files"}
          /\ driver = "dht11" => "files" \notin there'
      BY <1>1, <1>3, <2>1 DEF Below
    <3>2. TypeOK'
      BY <1>1, <1>2, <1>3, <3>1 DEF TypeOK
    <3>3. FilesHaveData' /\ Done' /\ Pointers'
      BY <1>1, <1>2, <1>3, <2>1, <3>1, FilesFollow DEF FilesHaveData, Done, Pointers
    <3>4. Roots' /\ OnBus' /\ OopsExplained' /\ Kept'
      BY <1>1, <1>2, <1>3, <2>1, <3>1 DEF Roots, OnBus, OopsExplained, Kept
    <3> QED BY <3>2, <3>3, <3>4
  <2>2. CASE x = "chip"
    <3>1. there' = there \ {"chip"} /\ driver = "led_pwm" /\ pc' = 2
      BY <1>2, <1>3, <2>2 DEF Below
    <3>2. TypeOK'
      BY <1>1, <1>3, <3>1 DEF TypeOK
    <3>3. FilesHaveData' /\ Done' /\ Pointers'
      BY <1>1, <3>1, FilesFollow DEF FilesHaveData, Done, Pointers
    <3>4. Roots' /\ OnBus' /\ OopsExplained' /\ Kept'
      BY <1>1, <1>3, <3>1 DEF Roots, OnBus, OopsExplained, Kept
    <3> QED BY <3>2, <3>3, <3>4
  <2> QED BY <1>2, <2>1, <2>2
<1>4. CASE x = "chip" /\ pc' = pc + 1 /\ UNCHANGED <<there, kernel>>
  <2>1. driver = "led_pwm" /\ pc' = 2
    BY <1>2, <1>4
  <2>2. TypeOK'
    BY <1>1, <1>4, <2>1 DEF TypeOK
  <2>3. FilesHaveData' /\ Done' /\ Pointers'
    BY <1>1, <1>4, <2>1 DEF FilesHaveData, Done, Pointers
  <2>4. Roots' /\ OnBus' /\ OopsExplained' /\ Kept'
    BY <1>1, <1>4, <2>1 DEF Roots, OnBus, OopsExplained, Kept
  <2> QED BY <2>2, <2>3, <2>4
<1>5. CASE x = "chip" /\ x \notin there /\ kernel' = "oops" /\ UNCHANGED <<there, pc>>
  <2>1. driver = "led_pwm" /\ pc = 1 /\ faults > 0
    BY <1>1, <1>2, <1>5 DEF Pointers
  <2>2. TypeOK'
    BY <1>1, <1>5 DEF TypeOK
  <2>3. FilesHaveData' /\ Done' /\ Pointers'
    BY <1>1, <1>5, <2>1 DEF FilesHaveData, Done, Pointers
  <2>4. Roots' /\ OnBus' /\ OopsExplained' /\ Kept'
    BY <1>1, <1>5, <2>1 DEF Roots, OnBus, OopsExplained, Kept
  <2> QED BY <2>2, <2>3, <2>4
<1> QED BY <1>3, <1>4, <1>5 DEF RemoveStep

LEMMA RemovedInv == IInv /\ Removed => IInv'
<1> SUFFICES ASSUME IInv, Removed PROVE IInv'
  OBVIOUS
<1> USE DEF IInv
<1>1. /\ driver \in Drivers /\ bind = "removing" /\ kernel = "running"
      /\ bind' = "unbound" /\ pc' = 1
      /\ pc \in 1 .. 8 /\ pc > Len(RemoveOf[driver]) /\ there \in SUBSET Things
      /\ there' = (there \ (Managed \cup {"chip"})) \cup
                  (IF "chip" \in there THEN {"dangling"} ELSE {})
      /\ UNCHANGED <<driver, tree, mod, at, probes, readers, opens, requests, loads,
                    kernel, faults>>
  BY DEF Removed, TypeOK, fixed, module, users
<1>2. driver \in {"aht10", "ssd1306", "dht11"} => pc > 1
  BY <1>1, RemoveLists
<1>3. /\ there' \in SUBSET Things
      /\ "memory" \notin there' /\ "dtdata" \notin there' /\ "chip" \notin there'
      /\ \A y \in there' : y \in there \/ (y = "dangling" /\ "chip" \in there)
      /\ \A y \in there : y \in there' \/ y \in {"memory", "dtdata", "chip"}
  BY <1>1 DEF Managed, Things
<1>4. TypeOK'
  BY <1>1, <1>3 DEF TypeOK
<1>5. FilesHaveData' /\ Done' /\ Pointers'
  BY <1>1, <1>3, FilesFollow DEF FilesHaveData, Done, Pointers
<1>6. Roots' /\ OnBus' /\ OopsExplained'
  BY <1>1, <1>2, <1>3 DEF Roots, OnBus, OopsExplained
<1>7. Kept'
  BY <1>1, <1>2, <1>3, Owners DEF Kept
<1> QED BY <1>4, <1>5, <1>6, <1>7
----------------------------------------------------------------------------
\* Steps of the users change their own counts only, or end in an oops.
LEMMA UserSteps ==
  ASSUME IInv, Enter \/ Leave \/ Stray \/ Open \/ Close \/ Transfer \/ Request \/ Release
  PROVE  IInv'
<1> USE DEF IInv
<1>1. /\ UNCHANGED <<driver, tree, mod, at, loads, bind, pc, probes, there, faults>>
      /\ kernel = "running" /\ driver \in Drivers
  BY DEF Enter, Leave, Stray, Open, Close, Transfer, Request, Release, Oops, NoFault,
         fixed, module, binding, TypeOK
<1>2. \/ /\ kernel' = kernel
         /\ readers' \in 0 .. MaxUsers /\ opens' \in 0 .. MaxUsers /\ requests' \in {0, 1}
         /\ opens' > 0 => opens > 0 \/ "cdev" \in there
      \/ /\ kernel' = "oops" /\ UNCHANGED <<readers, opens, requests>>
         /\ \/ "stale" \in there \/ "dangling" \in there
            \/ "client" \notin there /\ opens > 0
  <2>1. CASE Enter
    BY <2>1, Bounds DEF Enter, TypeOK
  <2>2. CASE Leave
    BY <2>2, Bounds DEF Leave, Oops, users, TypeOK
  <2>3. CASE Stray
    BY <2>3 DEF Stray, Oops, users
  <2>4. CASE Open
    BY <2>4, Bounds DEF Open, TypeOK
  <2>5. CASE Close
    BY <2>5, Bounds DEF Close, TypeOK
  <2>6. CASE Transfer
    BY <2>6 DEF Transfer, Oops, users
  <2>7. CASE Request
    BY <2>7, Bounds DEF Request, Oops, users, TypeOK
  <2>8. CASE Release
    BY <2>8, Bounds DEF Release, Oops, users, TypeOK
  <2> QED BY <2>1, <2>2, <2>3, <2>4, <2>5, <2>6, <2>7, <2>8
<1>3. TypeOK'
  BY <1>1, <1>2 DEF TypeOK
<1>4. Done'
  BY <1>1 DEF Done, Secured, Undescribed
<1>5. FilesHaveData' /\ Roots' /\ Pointers' /\ OnBus'
  BY <1>1 DEF FilesHaveData, Roots, Pointers, OnBus
<1>6. OopsExplained'
  BY <1>1, <1>2 DEF OopsExplained, Kept
<1>7. Kept'
  <2>1. opens' > 0 => driver = "at24c64"
    BY <1>1, <1>2, Owners DEF Kept
  <2> QED BY <1>1, <2>1 DEF Kept
<1> QED BY <1>3, <1>4, <1>5, <1>6, <1>7

LEMMA StepInv == IInv /\ [Next]_vars => IInv'
<1> SUFFICES ASSUME IInv, [Next]_vars PROVE IInv'
  OBVIOUS
<1>1. CASE UNCHANGED vars
  BY <1>1 DEF IInv, vars, fixed, module, binding, users, TypeOK, Done, OnBus, FilesHaveData,
              Roots, Pointers, Kept, OopsExplained, Secured, Undescribed
<1>2. CASE Next
  BY <1>2, ModuleSteps, InitStepInv, ExitStepInv, UnloadedInv, BindInv, ProbeInv,
     ProbedUnbindInv, RemoveStepInv, RemovedInv, UserSteps DEF Next
<1> QED BY <1>1, <1>2

LEMMA Invariant == Spec => []IInv
BY InitInv, StepInv, PTL DEF Spec

\* The variables keep their types, however often the modules are loaded and the
\* devices bound.
THEOREM TypeCorrect == Spec => []TypeOK
BY Invariant, PTL DEF IInv

\* No file leads into a loaded module before what its functions follow is there,
\* nor after (aht10.c:253-255, ssd1306.c:489-500, dht11.c:137-149).
THEOREM FilesSafe == Spec => []FilesHaveData
BY Invariant, PTL DEF IInv

\* A pointer to nowhere is followed for one of six reasons only.
THEOREM OopsBlamed == Spec => []OopsExplained
BY Invariant, PTL DEF IInv

\* What each of the modules can leave behind, and no more.
LEMMA LeavesEnough ==
  ASSUME NEW d \in Drivers, NEW x \in MayOf[d],
         x \notin {"driver", "memory", "dtdata", "chip", "files", "cdev", "client",
                   "region", "class", "leak"}
  PROVE  x \in Leaves[d]
<1> USE DEF MayOf, Leaves
<1>1. CASE d \in {"aht10", "ssd1306", "sysfs_i2c"}
  BY <1>1
<1>2. CASE d = "at24c64"
  BY <1>2
<1>3. CASE d = "dht11"
  BY <1>3
<1>4. CASE d \in {"led_pwm", "test_i2c", "test_spi"}
  BY <1>4
<1> QED BY <1>1, <1>2, <1>3, <1>4 DEF Drivers

\* After the exit nothing is bound by a module that is gone, and what it has left
\* is known for each of them (aht10.c:272-284, led_pwm.c:113, at24c64.c:431-440).
THEOREM UnloadClean == Spec => []CleanUnload
<1>1. IInv => CleanUnload
  <2> SUFFICES ASSUME IInv, mod = "absent"
               PROVE  /\ bind = "unbound"
                      /\ there \subseteq Leaves[driver] \cup
                                        (IF faults > 0 THEN {"leak"} ELSE {})
    BY DEF CleanUnload
  <2> USE DEF IInv
  <2>1. bind = "unbound" /\ "driver" \notin there /\ driver \in Drivers
    BY DEF OnBus, TypeOK
  <2>2. /\ there \subseteq MayOf[driver]
        /\ \A x \in there : x \notin {"driver", "memory", "dtdata", "chip", "files", "cdev",
                                    "client", "region", "class"}
        /\ "leak" \in there => faults > 0
    BY <2>1 DEF Kept
  <2>3. ASSUME NEW x \in there
        PROVE  x \in Leaves[driver] \cup (IF faults > 0 THEN {"leak"} ELSE {})
    <3>1. CASE x = "leak"
      BY <2>2, <3>1
    <3>2. CASE x # "leak"
      BY <2>1, <2>2, <3>2, LeavesEnough
    <3> QED BY <3>1, <3>2
  <2> QED BY <2>1, <2>3
<1> QED BY <1>1, Invariant, PTL
=============================================================================
