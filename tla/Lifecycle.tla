----------------------------- MODULE Lifecycle -----------------------------
(***************************************************************************)
(* What the drivers leave behind: loading and unloading the modules        *)
(* i2c/aht10, i2c/ssd1306, i2c/at24c64, i2c/i2c_sysfs_driver,              *)
(* i2c/test_i2c_driver, spi/test_spi_driver, pwm/led_pwm and gpio/dht11,   *)
(* and binding them to their device, while their files are in use.         *)
(*                                                                         *)
(* Each of the eight goes through four lists of steps: its init, its       *)
(* probe, its remove and its exit.  The lists are the drivers'; the        *)
(* actions, what the kernel does with a step.  A step gets something that  *)
(* is then in place, or is refused it, and the drivers differ in what they *)
(* do about a refusal.  The driver core probes and removes next to the     *)
(* loading and unloading of the module: a device may appear late, and a    *)
(* user may unbind a driver and bind it again.                             *)
(*                                                                         *)
(* Three things outlive the module: root devices, the device node of the   *)
(* EEPROM and the memory of nobody.  "oops" stands for everything that     *)
(* follows a pointer that leads nowhere, or to memory or code given back.  *)
(***************************************************************************)
EXTENDS Integers, Sequences

CONSTANTS
  MaxLoads,   \* bound: times the module is loaded
  MaxProbes,  \* bound: times the driver is probed
  MaxUsers,   \* bound: processes in a file's function, and open files, at a time
  MaxFaults   \* bound: requests refused for no reason of the driver's

ASSUME LifecycleAssumption == {MaxLoads, MaxProbes, MaxUsers, MaxFaults} \subseteq Nat

Drivers == {"aht10", "ssd1306", "at24c64", "sysfs_i2c", "test_i2c", "test_spi",
            "led_pwm", "dht11"}

\* Steps.  A refusal makes the function return an error, is ignored, or is
\* logged at most and the pointer followed; a Sets cannot be refused.
Gets(x)        == [what |-> x, refused |-> "returned"]
GetsIfItCan(x) == [what |-> x, refused |-> "ignored"]
GetsBlindly(x) == [what |-> x, refused |-> "followed"]
Sets(x)        == [what |-> x, refused |-> "never"]
Follows(x)     == [what |-> x, refused |-> "missing"]
Talks          == [what |-> "device", refused |-> "unseen"]
----------------------------------------------------------------------------
\* The four lists of each driver.  init and exit; "driver" is the registration
\* with the bus.
Aht10Init    == <<Gets("driver")>>
Ssd1306Init  == <<Gets("driver")>>
SysfsI2cInit == <<Gets("driver")>>
TestI2cInit  == <<Gets("driver")>>
TestSpiInit  == <<Gets("driver")>>
LedPwmInit   == <<GetsIfItCan("driver")>>
Dht11Init    == <<Gets("class"), GetsIfItCan("driver")>>

\* IS_ERR(&driver_data.class) is never true.
At24c64Init  == <<Gets("region"), Gets("driver"), GetsIfItCan("cdev"),
                  GetsIfItCan("class"), GetsIfItCan("node")>>

Aht10Exit    == <<"driver">>
Ssd1306Exit  == <<"driver">>
SysfsI2cExit == <<"driver">>
TestI2cExit  == <<"driver">>
TestSpiExit  == <<"driver">>
LedPwmExit   == <<"driver">>
Dht11Exit    == <<"driver", "class">>
\* Mutant of At24c64Exit: the device number is kept.
At24c64ExitShort == <<"driver", "class">>

At24c64Exit  == <<"driver", "class", "region">>

\* probe; "dtdata" is what get_platform_data_dt returns, "drvdata" what is
\* kept with the files' device, "client" the i2c_client in a static variable.
\* The DHT11's files are created together with their device and its data.
\* Mutant of Aht10Probe: the files first, then their device's data.
Aht10ProbeFilesFirst ==
  <<Gets("dtdata"), GetsBlindly("memory"), Follows("dtdata"), GetsBlindly("root"),
    GetsIfItCan("files"), Sets("drvdata"), Talks>>

Aht10Probe ==
  <<Gets("dtdata"), GetsBlindly("memory"), Follows("dtdata"), GetsBlindly("root"),
    Sets("drvdata"), GetsIfItCan("files"), Talks>>

Ssd1306Probe ==
  <<Gets("dtdata"), Sets("client"), Follows("dtdata"), GetsBlindly("root"),
    Sets("drvdata"), GetsIfItCan("files"), Talks>>

SysfsI2cProbe ==
  <<Gets("dtdata"), GetsBlindly("memory"), Follows("dtdata"), GetsBlindly("root"),
    GetsIfItCan("files")>>

At24c64Probe ==
  <<GetsBlindly("memory"), GetsIfItCan("dtdata"), Sets("client"), Follows("dtdata"),
    GetsBlindly("root")>>

TestI2cProbe ==
  <<Gets("dtdata"), GetsBlindly("memory"), Follows("dtdata"), Talks>>

TestSpiProbe ==
  <<Gets("setup"), Gets("dtdata"), GetsBlindly("memory"), Follows("dtdata")>>

LedPwmProbe == <<Gets("memory"), GetsIfItCan("chip")>>
Dht11Probe  == <<Gets("line"), Gets("files"), Talks>>

\* Mutant of Ssd1306Remove: kobject_del is left out.
Ssd1306RemoveLess == <<>>

\* remove; "dir" is the directory of the bound device itself, in which the
\* three look for the files they have created elsewhere.
Aht10Remove    == <<"dir">>
Ssd1306Remove  == <<"dir">>
Dht11Remove    == <<"dir">>
LedPwmRemove   == <<"chip">>
At24c64Remove  == <<>>
SysfsI2cRemove == <<>>
TestI2cRemove  == <<>>
TestSpiRemove  == <<>>

InitOf ==
  [aht10 |-> Aht10Init, ssd1306 |-> Ssd1306Init, at24c64 |-> At24c64Init,
   sysfs_i2c |-> SysfsI2cInit, test_i2c |-> TestI2cInit, test_spi |-> TestSpiInit,
   led_pwm |-> LedPwmInit, dht11 |-> Dht11Init]
ExitOf ==
  [aht10 |-> Aht10Exit, ssd1306 |-> Ssd1306Exit, at24c64 |-> At24c64Exit,
   sysfs_i2c |-> SysfsI2cExit, test_i2c |-> TestI2cExit, test_spi |-> TestSpiExit,
   led_pwm |-> LedPwmExit, dht11 |-> Dht11Exit]
ProbeOf ==
  [aht10 |-> Aht10Probe, ssd1306 |-> Ssd1306Probe, at24c64 |-> At24c64Probe,
   sysfs_i2c |-> SysfsI2cProbe, test_i2c |-> TestI2cProbe, test_spi |-> TestSpiProbe,
   led_pwm |-> LedPwmProbe, dht11 |-> Dht11Probe]
RemoveOf ==
  [aht10 |-> Aht10Remove, ssd1306 |-> Ssd1306Remove, at24c64 |-> At24c64Remove,
   sysfs_i2c |-> SysfsI2cRemove, test_i2c |-> TestI2cRemove, test_spi |-> TestSpiRemove,
   led_pwm |-> LedPwmRemove, dht11 |-> Dht11Remove]

\* What the functions behind a driver's files follow: show_temp and show_humid;
\* message_store and command_store; update_show.
FilesNeed ==
  [aht10 |-> {"drvdata"}, ssd1306 |-> {"client"}, dht11 |-> {"line"},
   sysfs_i2c |-> {}, at24c64 |-> {}, test_i2c |-> {}, test_spi |-> {}, led_pwm |-> {}]
----------------------------------------------------------------------------
VARIABLES
  driver,    \* the driver this is about, one of Drivers
  tree,      \* what the device tree has on its device: {"dtdata"} or nothing
  mod,       \* the module: "absent", "loading", "live" or "leaving"
  at,        \* the step of init or of exit to come
  bind,      \* the device: "unbound", "probing", "bound" or "removing"
  pc,        \* the step of probe or of remove to come
  there,     \* what is in place
  readers,   \* processes in a function behind one of the files
  opens,     \* open files on the EEPROM's node
  requests,  \* users of the PWM chip's channel, which can have one
  kernel,    \* "running" or "oops"
  loads, probes, faults

module  == <<mod, at, loads>>
binding == <<bind, pc, probes>>
users   == <<readers, opens, requests>>
fixed   == <<driver, tree>>
vars    == <<fixed, module, binding, there, users, kernel, faults>>

Things == {"driver", "class", "region", "cdev", "node", "dir", "dtdata", "memory",
           "client", "root", "drvdata", "files", "setup", "chip", "line",
           "stale", "dangling", "leak"}

\* What the driver core gives back by itself when a device is not bound.
Managed == {"memory", "dtdata"}

\* A name, a line and a node are there once.
Taken(x) == x \in {"root", "line", "node"} /\ x \in there

\* A device is not created in a class that is not there.
Wanting(x) == x = "node" /\ "class" \notin there

Fault   == faults < MaxFaults /\ faults' = faults + 1
NoFault == UNCHANGED faults

Refused(s) ==
  /\ s.refused \in {"returned", "ignored", "followed"}
  /\ IF Taken(s.what) \/ Wanting(s.what) THEN NoFault ELSE Fault

Granted(s) ==
  /\ s.refused \in {"returned", "ignored", "followed", "never"}
  /\ ~Taken(s.what) /\ ~Wanting(s.what)
  /\ NoFault

Oops ==
  /\ kernel' = "oops"
  /\ UNCHANGED <<fixed, module, binding, there, users>>
----------------------------------------------------------------------------
Load ==
  /\ kernel = "running" /\ mod = "absent" /\ loads < MaxLoads
  /\ mod' = "loading" /\ at' = 1 /\ loads' = loads + 1
  /\ UNCHANGED <<fixed, binding, there, users, kernel, faults>>

\* The module's memory is given back.  Files and a cdev that are left lead
\* into it; the variables of the next load are new ones.
Gone(left) ==
  (left \ {"files", "cdev", "client"}) \cup
  (IF left \cap {"files", "cdev"} # {} THEN {"stale"} ELSE {})

\* An init that fails leaves its device number allocated.
Leaked(left) == (left \ {"region"}) \cup (IF "region" \in left THEN {"leak"} ELSE {})

LoadStep(s) ==
  \/ /\ Granted(s)
     /\ there' = there \cup {s.what} /\ at' = at + 1 /\ UNCHANGED mod
  \/ /\ Refused(s) /\ s.refused = "ignored"
     /\ at' = at + 1 /\ UNCHANGED <<mod, there>>
  \/ /\ Refused(s) /\ s.refused = "returned"
     /\ mod' = "absent" /\ at' = 1 /\ there' = Gone(Leaked(there))

InitStep ==
  /\ kernel = "running" /\ mod = "loading" /\ at <= Len(InitOf[driver])
  /\ LoadStep(InitOf[driver][at])
  /\ UNCHANGED <<fixed, loads, binding, users, kernel>>

Loaded ==
  /\ kernel = "running" /\ mod = "loading" /\ at > Len(InitOf[driver])
  /\ mod' = "live" /\ at' = 1
  /\ UNCHANGED <<fixed, loads, binding, there, users, kernel, faults>>

\* An open node and a requested channel hold the module.
Unload ==
  /\ kernel = "running" /\ mod = "live" /\ opens = 0 /\ requests = 0
  /\ mod' = "leaving"
  /\ UNCHANGED <<fixed, at, loads, binding, there, users, kernel, faults>>

\* Taking the driver from the bus ends only when its device is not bound.
ExitStep ==
  /\ kernel = "running" /\ mod = "leaving" /\ at <= Len(ExitOf[driver])
  /\ LET x == ExitOf[driver][at] IN
       /\ x \in there \/ x # "driver" \/ bind = "unbound"
       /\ there' = there \ {x}
       /\ at' = IF x = "driver" /\ bind # "unbound" THEN at ELSE at + 1
  /\ UNCHANGED <<fixed, mod, loads, binding, users, kernel, faults>>

Unloaded ==
  /\ kernel = "running" /\ mod = "leaving" /\ at > Len(ExitOf[driver])
  /\ mod' = "absent" /\ at' = 1 /\ there' = Gone(there)
  /\ UNCHANGED <<fixed, loads, binding, users, kernel, faults>>
----------------------------------------------------------------------------
\* The driver core probes a device only after linking to its directory.
Bind ==
  /\ kernel = "running" /\ bind = "unbound" /\ probes < MaxProbes
  /\ {"driver", "dir"} \subseteq there
  /\ bind' = "probing" /\ pc' = 1 /\ probes' = probes + 1
  /\ UNCHANGED <<fixed, module, there, users, kernel, faults>>

\* A device that is not in the tree: get_platform_data_dt returns NULL,
\* which IS_ERR does not take for an error.
Undescribed(s) == s.what = "dtdata" /\ s.refused # "missing" /\ tree = {}

\* A chip next to one whose memory has been given back, on the kernel's list.
Corrupts(s) == s.what = "chip" /\ "dangling" \in there

\* Mutant of Unbound: the next probe goes on where this one has failed.
UnboundHere == bind' = "unbound" /\ there' = there \ Managed /\ UNCHANGED pc

Unbound == bind' = "unbound" /\ pc' = 1 /\ there' = there \ Managed

ProbeStep(s) ==
  \/ /\ Granted(s) /\ ~Undescribed(s) /\ ~Corrupts(s)
     /\ there' = there \cup {s.what} /\ pc' = pc + 1 /\ UNCHANGED <<bind, kernel>>
  \/ /\ Undescribed(s) /\ NoFault
     /\ pc' = pc + 1 /\ UNCHANGED <<bind, there, kernel>>
  \/ /\ Refused(s) /\ s.refused = "ignored" /\ ~Undescribed(s)
     /\ pc' = pc + 1 /\ UNCHANGED <<bind, there, kernel>>
  \/ /\ Refused(s) /\ s.refused = "returned" /\ ~Undescribed(s)
     /\ Unbound /\ UNCHANGED kernel
  \/ /\ s = Talks \/ (s.refused = "missing" /\ s.what \in there)
     /\ NoFault /\ pc' = pc + 1 /\ UNCHANGED <<bind, there, kernel>>
  \/ /\ \/ Refused(s) /\ s.refused = "followed"
        \/ s.refused = "missing" /\ s.what \notin there /\ NoFault
        \/ Corrupts(s) /\ NoFault
     /\ kernel' = "oops" /\ UNCHANGED <<bind, pc, there>>

Probe ==
  /\ kernel = "running" /\ bind = "probing" /\ pc <= Len(ProbeOf[driver])
  /\ ProbeStep(ProbeOf[driver][pc])
  /\ UNCHANGED <<fixed, module, probes, users>>

Probed ==
  /\ kernel = "running" /\ bind = "probing" /\ pc > Len(ProbeOf[driver])
  /\ bind' = "bound" /\ pc' = 1
  /\ UNCHANGED <<fixed, module, probes, there, users, kernel, faults>>

\* By a user, while the driver is on the bus, or by the exit that takes it off.
Unbind ==
  /\ kernel = "running" /\ bind = "bound"
  /\ bind' = "removing" /\ pc' = 1
  /\ UNCHANGED <<fixed, module, probes, there, users, kernel, faults>>

\* The class device of dht11 is a child of the platform device, its files go
\* with the directory of that one; the root devices are nobody's children.
Below(x) == IF x = "dir" /\ driver = "dht11" THEN {"dir", "files"} ELSE {x}

\* pwmchip_remove does nothing to a chip with a user (EBUSY), and follows the
\* empty list of a chip that has never been added.
RemoveStep ==
  /\ kernel = "running" /\ bind = "removing" /\ pc <= Len(RemoveOf[driver])
  /\ LET x == RemoveOf[driver][pc] IN
       \/ /\ x \in there /\ ~(x = "chip" /\ requests = 1)
          /\ "files" \in Below(x) => readers = 0
          /\ there' = there \ Below(x) /\ pc' = pc + 1 /\ UNCHANGED kernel
       \/ /\ x = "chip" /\ x \in there /\ requests = 1
          /\ pc' = pc + 1 /\ UNCHANGED <<there, kernel>>
       \/ /\ x = "chip" /\ x \notin there
          /\ kernel' = "oops" /\ UNCHANGED <<there, pc>>
  /\ UNCHANGED <<fixed, module, bind, probes, users, faults>>

\* The chip is part of the memory the driver core gives back.
Removed ==
  /\ kernel = "running" /\ bind = "removing" /\ pc > Len(RemoveOf[driver])
  /\ bind' = "unbound" /\ pc' = 1
  /\ there' = (there \ (Managed \cup {"chip"})) \cup
              (IF "chip" \in there THEN {"dangling"} ELSE {})
  /\ UNCHANGED <<fixed, module, probes, users, kernel, faults>>
----------------------------------------------------------------------------
\* A process calls a function behind one of the files, which the AHT10 and the
\* DHT11 keep in it for as long as the sensor takes, and returns from it.  What
\* the function follows is in place: FilesHaveData.
Enter ==
  /\ kernel = "running" /\ readers < MaxUsers /\ "files" \in there
  /\ readers' = readers + 1
  /\ UNCHANGED <<fixed, module, binding, there, opens, requests, kernel, faults>>

Leave ==
  /\ kernel = "running" /\ readers > 0
  /\ \/ /\ "stale" \notin there
        /\ readers' = readers - 1
        /\ UNCHANGED <<fixed, module, binding, there, opens, requests, kernel, faults>>
     \/ "stale" \in there /\ Oops /\ NoFault

\* The functions behind a file, or the cdev behind the node, went with the
\* module.
Stray ==
  /\ kernel = "running" /\ "stale" \in there
  /\ driver = "at24c64" => "node" \in there /\ "cdev" \notin there
  /\ Oops /\ NoFault

\* at24c64_open and at24c64_release; fops.owner makes an open hold the module,
\* and fail while the module leaves.
Open ==
  /\ kernel = "running" /\ mod \in {"loading", "live"} /\ opens < MaxUsers
  /\ {"node", "cdev"} \subseteq there
  /\ opens' = opens + 1
  /\ UNCHANGED <<fixed, module, binding, there, readers, requests, kernel, faults>>

Close ==
  /\ kernel = "running" /\ opens > 0
  /\ opens' = opens - 1
  /\ UNCHANGED <<fixed, module, binding, there, readers, requests, kernel, faults>>

\* at24c64_read or at24c64_write before a probe has set driver_data.client.
Transfer ==
  /\ kernel = "running" /\ opens > 0 /\ "client" \notin there
  /\ Oops /\ NoFault

\* The channel of led_pwm is exported or unexported; it is the only one.
Request ==
  /\ kernel = "running" /\ requests = 0 /\ mod \in {"loading", "live"}
  /\ \/ /\ "chip" \in there /\ "dangling" \notin there
        /\ requests' = 1
        /\ UNCHANGED <<fixed, module, binding, there, readers, opens, kernel, faults>>
     \/ "dangling" \in there /\ Oops /\ NoFault

Release ==
  /\ kernel = "running" /\ requests = 1
  /\ \/ /\ "dangling" \notin there
        /\ requests' = 0
        /\ UNCHANGED <<fixed, module, binding, there, readers, opens, kernel, faults>>
     \/ "dangling" \in there /\ Oops /\ NoFault
----------------------------------------------------------------------------
ReadsTree == {"aht10", "ssd1306", "at24c64", "sysfs_i2c", "test_i2c", "test_spi"}

Init ==
  /\ driver \in Drivers /\ tree \in SUBSET {"dtdata"}
  /\ mod = "absent" /\ at = 1 /\ bind = "unbound" /\ pc = 1
  /\ there = {"dir"}
  /\ readers = 0 /\ opens = 0 /\ requests = 0 /\ kernel = "running"
  /\ loads = 0 /\ probes = 0 /\ faults = 0

Next ==
  \/ Load \/ InitStep \/ Loaded \/ Unload \/ ExitStep \/ Unloaded
  \/ Bind \/ Probe \/ Probed \/ Unbind \/ RemoveStep \/ Removed
  \/ Enter \/ Leave \/ Stray \/ Open \/ Close \/ Transfer \/ Request \/ Release

Spec == Init /\ [][Next]_vars
----------------------------------------------------------------------------
TypeOK ==
  /\ driver \in Drivers /\ tree \in SUBSET {"dtdata"}
  /\ mod \in {"absent", "loading", "live", "leaving"} /\ at \in 1 .. 6
  /\ mod \in {"absent", "live"} => at = 1
  /\ bind \in {"unbound", "probing", "bound", "removing"} /\ pc \in 1 .. 8
  /\ bind \in {"unbound", "bound"} => pc = 1
  /\ there \subseteq Things
  /\ readers \in 0 .. MaxUsers /\ opens \in 0 .. MaxUsers /\ requests \in {0, 1}
  /\ kernel \in {"running", "oops"}
  /\ loads \in 0 .. MaxLoads /\ probes \in 0 .. MaxProbes
  /\ faults \in 0 .. MaxFaults

\* Files that lead into the module that is loaded find what their functions
\* follow, from the moment they exist and whatever is unbound, removed or
\* refused (aht10.c:253-255, ssd1306.c:489-500, dht11.c:137-149).
FilesHaveData == "files" \in there => FilesNeed[driver] \subseteq there

\* The kernel follows no pointer to nowhere but for six reasons, each of which
\* concerns some drivers only: a request was refused; a device is not in the
\* tree; one of two drivers was probed a second time; a module left something
\* behind; the EEPROM's node was used before its chip was found; the PWM chip
\* was unbound while its channel was in use.  The two displays and sensors with
\* root devices of their own survive being bound again (aht10.c:277).
OopsExplained ==
  kernel = "oops" =>
    \/ faults > 0 /\ driver # "dht11"
    \/ tree = {} /\ driver \in ReadsTree
    \/ probes > 1 /\ driver \in {"at24c64", "sysfs_i2c"}
    \/ "stale" \in there
    \/ driver = "at24c64" /\ "client" \notin there /\ opens > 0
    \/ "dangling" \in there

Leaves ==
  [aht10     |-> {"root", "drvdata", "stale", "dir"},
   ssd1306   |-> {"root", "drvdata", "stale", "dir"},
   sysfs_i2c |-> {"root", "stale", "dir"},
   at24c64   |-> {"root", "node", "stale", "dir"},
   dht11     |-> {"line", "dir"},
   led_pwm   |-> {"dangling", "dir"},
   test_i2c  |-> {"dir"},
   test_spi  |-> {"setup", "dir"}]

\* When the module is absent nothing is bound by it or being probed, no driver
\* is on its bus, and only the drivers with root devices and the EEPROM's have
\* left something that leads into it; but for an init that failed, the device
\* number is free again (at24c64.c:431-440, led_pwm.c:113, dht11.c:171).
CleanUnload ==
  mod = "absent" =>
    /\ bind = "unbound"
    /\ there \subseteq Leaves[driver] \cup (IF faults > 0 THEN {"leak"} ELSE {})
=============================================================================
