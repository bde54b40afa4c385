----------------------------- MODULE LedControl -----------------------------
(***************************************************************************)
(* The LED driver, gpio/led_control/led_control.c: a device with three     *)
(* files for each enabled child of the driver's device-tree node.          *)
(*                                                                         *)
(* probe counts all children but visits the enabled ones; it allocates     *)
(* their data and claims their lines through the driver core (devm_),      *)
(* which gives both back when probe fails or the driver is unbound, and    *)
(* registers devices, which stay until remove unregisters them.  The files *)
(* of one child are in use while probe is at the next; unregistering a     *)
(* device waits for the calls on its files.                                *)
(*                                                                         *)
(* A device is named after its child, and its name can be taken only once. *)
(* The data a file leads to are those of the binding that created it.      *)
(* Devices that a failed probe has left outlive the module and its class,  *)
(* in a directory that keeps the next load from making one of that name.   *)
(***************************************************************************)
EXTENDS Integers

CONSTANTS
  Children,   \* bound: children of the node
  MaxLoads,   \* bound: times the module is loaded
  MaxBinds,   \* bound: times the driver is bound
  MaxFaults   \* bound: steps of init and probe that fail

ASSUME LedControlAssumption ==
  {Children, MaxLoads, MaxBinds, MaxFaults} \subseteq Nat

VARIABLES
  children,   \* number of children of the node
  enabled,    \* those whose status is not "disabled"
  mod,        \* "absent", "class" once it is created, "live", "idle" without a
              \* driver, or "leaving"
  before,     \* how often the driver had been bound when the module was loaded
  drv,        \* "unbound", "line" or "create" in probe, "bound", "removing", "oops"
  todo,       \* children probe has not visited
  i,          \* the loop variable of probe and of remove
  count_of_devices,
  dev,        \* dev[]: a child, or 0 for NULL; empty when its allocation failed
  data,       \* private data, by child and binding
  files,      \* devices with their files, by child and binding
  line,       \* direction and level of each child's line
  written,    \* devices whose direction or value has been written
  loads, binds, faults

node   == <<children, enabled>>
module == <<mod, before, loads>>
vars   == <<node, module, drv, todo, i, count_of_devices, dev, data, files, line,
            written, binds, faults>>

loop   == <<todo, i, count_of_devices, dev>>
Kids   == 1 .. children
Handles == Kids \X (0 .. MaxBinds)
Low    == [dir |-> "out", level |-> 0]
Lines  == [dir : {"in", "out"}, level : {0, 1}]
----------------------------------------------------------------------------
Fault   == faults < MaxFaults /\ faults' = faults + 1
NoFault == UNCHANGED faults

\* gpio_led_control_init; the registration's result is not looked at.
CreateClass ==
  /\ mod = "absent" /\ loads < MaxLoads
  /\ loads' = loads + 1 /\ before' = binds
  /\ \/ NoFault /\ mod' = "class"
     \/ Fault /\ UNCHANGED mod
  /\ UNCHANGED <<node, drv, loop, data, files, line, written, binds>>

RegisterDriver ==
  /\ mod = "class"
  /\ \/ NoFault /\ mod' = "live"
     \/ Fault /\ mod' = "idle"
  /\ UNCHANGED <<node, before, loads, drv, loop, data, files, line, written, binds>>

\* gpio_led_control_exit: a bound driver is removed first.
Unload ==
  /\ mod \in {"live", "idle"}
  /\ mod' = "leaving"
  /\ UNCHANGED <<node, before, loads, drv, loop, data, files, line, written, binds,
                 faults>>

\* The class is destroyed; the next load has variables of its own.
DestroyClass ==
  /\ mod = "leaving" /\ drv = "unbound"
  /\ mod' = "absent"
  /\ todo' = {} /\ i' = 1 /\ count_of_devices' = 0 /\ dev' = <<>>
  /\ UNCHANGED <<node, before, loads, drv, data, files, line, written, binds, faults>>
----------------------------------------------------------------------------
\* A return from probe with an error: the driver core frees the data.
ProbeFails ==
  /\ drv' = "unbound" /\ data' = {}
  /\ UNCHANGED <<loop, files, line, written>>

\* -EINVAL for a node without children.
ProbeEmpty ==
  /\ mod = "live" /\ drv = "unbound" /\ binds < MaxBinds /\ children = 0
  /\ binds' = binds + 1 /\ count_of_devices' = 0
  /\ UNCHANGED <<node, module, drv, todo, i, dev, data, files, line, written, faults>>

\* gpio_led_control_probe up to its loop; dev is not looked at when its
\* allocation fails.
Probe ==
  /\ mod = "live" /\ drv = "unbound" /\ binds < MaxBinds /\ children # 0
  /\ drv' = "line" /\ binds' = binds + 1
  /\ count_of_devices' = children /\ i' = 1 /\ todo' = enabled
  /\ \/ NoFault /\ dev' = [n \in Kids |-> 0]
     \/ Fault /\ dev' = <<>>
  /\ UNCHANGED <<node, module, data, files, line, written>>

\* Mutant of DriveLow: the line left as it is (GPIOD_ASIS).
DriveAsIs(c) == UNCHANGED line

\* gpiod_direction_output(desc, 0)
DriveLow(c) == line' = [line EXCEPT ![c] = Low]

\* The child at which for_each_available_child_of_node is.
Current(c) == c \in todo /\ \A d \in todo : c <= d

\* Private data, descriptor and direction of a child.
SetUpLine(c) ==
  /\ drv = "line" /\ Current(c)
  /\ \/ /\ NoFault
        /\ data' = data \cup {<<c, binds>>}
        /\ DriveLow(c)
        /\ drv' = "create"
        /\ UNCHANGED <<loop, files, written>>
     \/ Fault /\ ProbeFails
  /\ UNCHANGED <<node, module, binds>>

\* By a device of the same name, or by the directory of an earlier class.
NameTaken(c) == \E f \in files : f[1] = c \/ f[2] <= before

\* Mutant of StoreDevice: i is not advanced.
StoreDeviceFirst(c) == dev' = [dev EXCEPT ![i] = c] /\ UNCHANGED i

StoreDevice(c) == dev' = [dev EXCEPT ![i] = c] /\ i' = i + 1

\* device_create_with_groups; the result goes into dev[], NULL or not.
CreateDevice(c) ==
  /\ drv = "create" /\ Current(c)
  /\ \/ /\ ~NameTaken(c) /\ NoFault
        /\ files' = files \cup {<<c, binds>>} /\ written' = written \ {<<c, binds>>}
        /\ \/ /\ i \in DOMAIN dev
              /\ StoreDevice(c) /\ todo' = todo \ {c} /\ drv' = "line"
              /\ UNCHANGED count_of_devices
           \/ /\ i \notin DOMAIN dev
              /\ drv' = "oops" /\ UNCHANGED loop
        /\ UNCHANGED <<data, line>>
     \/ NameTaken(c) /\ NoFault /\ ProbeFails
     \/ Fault /\ ProbeFails
  /\ UNCHANGED <<node, module, binds>>

ProbeDone ==
  /\ drv = "line" /\ todo = {}
  /\ drv' = "bound"
  /\ UNCHANGED <<node, module, loop, data, files, line, written, binds, faults>>

\* gpio_led_control_remove
Remove ==
  /\ drv = "bound"
  /\ drv' = "removing" /\ i' = 1
  /\ UNCHANGED <<node, module, todo, count_of_devices, dev, data, files, line,
                 written, binds, faults>>

\* Mutant of Left: one device too few.
LeftButOne == i < count_of_devices

Left == i <= count_of_devices

Unregister ==
  /\ drv = "removing" /\ Left
  /\ \/ /\ i \in DOMAIN dev /\ dev[i] # 0
        /\ files' = files \ {<<dev[i], binds>>} /\ i' = i + 1
        /\ UNCHANGED drv
     \/ /\ ~(i \in DOMAIN dev /\ dev[i] # 0)
        /\ drv' = "oops" /\ UNCHANGED <<files, i>>
  /\ UNCHANGED <<node, module, todo, count_of_devices, dev, data, line, written,
                 binds, faults>>

\* remove returns and the driver core frees the data.
Removed ==
  /\ drv = "removing" /\ ~Left
  /\ drv' = "unbound" /\ data' = {}
  /\ UNCHANGED <<node, module, loop, files, line, written, binds, faults>>
----------------------------------------------------------------------------
\* A write to the file f, whose data are there; what one whose data are freed
\* does is undefined, and left out.
Store(f, new) ==
  /\ f \in files \cap data
  /\ line' = [line EXCEPT ![f[1]] = new]
  /\ written' = written \cup {f}
  /\ UNCHANGED <<node, module, drv, loop, data, files, binds, faults>>

\* "out" drives the line low; its level as an input is not the LED's.
DirectionStore(f) ==
  Store(f, Low) \/ Store(f, [dir |-> "in", level |-> 0])

\* Mutant of Level: the number as it was parsed.
LevelAsParsed(v) == v

\* gpiod_set_value takes a long's every value but 0 for 1.
Level(v) == IF v = 0 THEN 0 ELSE 1

\* It changes nothing to be seen on an input.
ValueStore(f, v) ==
  Store(f, IF line[f[1]].dir = "out" THEN [line[f[1]] EXCEPT !.level = Level(v)]
                                     ELSE line[f[1]])
----------------------------------------------------------------------------
Init ==
  /\ children \in 0 .. Children /\ enabled \in SUBSET Kids
  /\ mod = "absent" /\ before = 0 /\ loads = 0
  /\ drv = "unbound" /\ todo = {} /\ i = 1 /\ count_of_devices = 0
  /\ dev = <<>> /\ data = {} /\ files = {} /\ written = {}
  /\ line = [c \in Kids |-> [dir |-> "in", level |-> 0]]
  /\ binds = 0 /\ faults = 0

Next ==
  \/ CreateClass \/ RegisterDriver \/ Unload \/ DestroyClass
  \/ ProbeEmpty \/ Probe \/ ProbeDone
  \/ \E c \in enabled : SetUpLine(c) \/ CreateDevice(c)
  \/ Remove \/ Unregister \/ Removed
  \/ \E f \in files : DirectionStore(f) \/ \E v \in {0, 1, 2} : ValueStore(f, v)

Spec == Init /\ [][Next]_vars
----------------------------------------------------------------------------
TypeOK ==
  /\ children \in 0 .. Children /\ enabled \subseteq Kids /\ todo \subseteq enabled
  /\ mod \in {"absent", "class", "live", "idle", "leaving"}
  /\ loads \in 0 .. MaxLoads /\ before \in 0 .. MaxBinds
  /\ drv \in {"unbound", "line", "create", "bound", "removing", "oops"}
  /\ i \in 1 .. children + 1 /\ count_of_devices \in {0, children}
  /\ dev = <<>> \/ dev \in [Kids -> 0 .. children]
  /\ data \subseteq Handles /\ files \subseteq Handles /\ written \subseteq Handles
  /\ line \in [Kids -> Lines]
  /\ binds \in 0 .. MaxBinds /\ faults \in 0 .. MaxFaults

\* As long as no step of a load or a probe has failed, a file leads to data that
\* are there, in probe, remove and exit too: remove finds every device in dev[]
\* before the data are freed and the module's code is gone (led_control.c:228).
FilesHaveData == faults = 0 => files \subseteq data

\* An LED whose files nobody has written is driven low from the moment they
\* exist (led_control.c:200-209), whatever an earlier binding left it at.
DarkUntilWritten == \A f \in files \ written : line[f[1]] = Low

\* remove runs into a NULL of dev[] only if a child is disabled, which
\* of_get_child_count counts and the loop of probe passes over, or a step of
\* probe has failed (led_control.c:156, 170, 228).
OopsNeedsDisabled == drv = "oops" => faults > 0 \/ enabled # Kids

\* The driver can be bound again, also by the next load: a probe fails only if one
\* of its steps has failed or the node has no children, since remove leaves no
\* device's name and no directory behind (led_control.c:157, 207, 228).
BindsAgain ==
  [][(drv \in {"line", "create"} \/ binds' # binds) /\ drv' = "unbound" =>
       faults' # 0 \/ children = 0]_vars
=============================================================================
