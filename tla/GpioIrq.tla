------------------------------ MODULE GpioIrq ------------------------------
(***************************************************************************)
(* The push-button driver, gpio/gpio_irq/gpio_irq.c, and the processes     *)
(* that open it.                                                           *)
(*                                                                         *)
(* Loading the module takes seven resources one after the other, any of    *)
(* which may be refused; unloading gives them back.  From the fourth on    *)
(* the device can be opened, although the load may still fail.  An open    *)
(* file keeps the module from being unloaded, not from failing to load.    *)
(*                                                                         *)
(* One process registers with an ioctl; the interrupt sends signal 44 to   *)
(* it.  The driver keeps the registered task in one variable, which the    *)
(* close of any open file clears.  The BeagleBone has one CPU, so the      *)
(* handler runs between steps of processes, never during one.              *)
(*                                                                         *)
(* The application installs its handler before it opens the driver and     *)
(* registers (main.c:23, 33); it keeps the file open until it exits.  A    *)
(* visitor opens the file and closes it again.  No process shares an open  *)
(* file with another.                                                      *)
(***************************************************************************)
EXTENDS Integers, FiniteSets

CONSTANTS
  Apps,          \* processes that run the application
  Visitors,      \* other processes
  NoTask,        \* NULL
  MaxQueued,     \* signals the kernel queues for a process (RLIMIT_SIGPENDING)
  MaxPresses,    \* bound: presses of the button
  MaxLoads,      \* bound: times the module is loaded
  MaxFaults      \* bound: steps of a load that are refused for no other reason

Procs == Apps \cup Visitors

ASSUME GpioIrqAssumption ==
  /\ NoTask \notin Procs /\ Apps \cap Visitors = {}
  /\ MaxQueued \in Nat /\ MaxPresses \in Nat
  /\ MaxLoads \in Nat /\ MaxFaults \in Nat

VARIABLES
  mod,           \* "absent", "loading", "live", "unloading", or "oops"
  next,          \* the step of gpio_irq_init or gpio_irq_exit to come
  held,          \* what the module has taken and not given back
  stale,         \* what a load that failed has left behind
  failed,        \* steps that have been refused
  loads, faults, \* loads so far, and refusals that were nobody's fault
  task,          \* the registered process
  proc,          \* per process: "running" or "exited"
  handler,       \* processes that have installed button_signal_handler
  opened,        \* processes that have the device open
  queued,        \* per process: signals sent and not delivered
  button_push,   \* per process: presses counted
  presses        \* interrupts so far

module == <<mod, next, held, stale, failed, loads, faults>>
procs  == <<task, proc, handler, opened, queued, button_push>>
vars   == <<module, procs, presses>>

Resources == {"region", "cdev", "class", "device", "gpio", "irq"}
Steps     == Resources \cup {"direction"}
----------------------------------------------------------------------------
\* gpio_irq_init, step by step.  A module's variables are fresh.
Insmod ==
  /\ mod = "absent" /\ loads < MaxLoads
  /\ mod' = "loading" /\ next' = "region" /\ loads' = loads + 1
  /\ held' = {} /\ stale' = stale \cup held
  /\ UNCHANGED <<failed, faults, procs, presses>>

\* Mutant of AfterInit: no device_create.
AfterInitDeviceless ==
  [ region |-> "cdev", cdev |-> "class", class |-> "gpio", device |-> "gpio",
    gpio |-> "direction", direction |-> "irq", irq |-> "none" ]

AfterInit == [ region |-> "cdev", cdev |-> "class", class |-> "device", device |-> "gpio",
               gpio |-> "direction", direction |-> "irq", irq |-> "none" ]

\* Its name in /sys/class is still taken.
Clash == next = "class" /\ "class" \in stale

InitStep ==
  /\ mod = "loading" /\ ~Clash
  /\ held' = held \cup ({next} \cap Resources)
  /\ next' = AfterInit[next]
  /\ mod' = IF next = "irq" THEN "live" ELSE mod
  /\ UNCHANGED <<stale, failed, loads, faults, procs, presses>>

\* Mutant of Undone: the ladder entered one label too low.
UndoneLess == CASE next = "cdev" -> held [] next \in {"class", "device"} -> {}
                [] OTHER -> held \ {"gpio"}

\* What is left after a step was refused: the first four steps go to their
\* label; of the others only the line is given back.
Undone == IF next \in {"region", "cdev", "class", "device"} THEN {} ELSE held \ {"gpio"}

\* ret is negative for the first two steps, still 0 for the next two, and the
\* last three return -EINVAL.
Loaded == next \in {"class", "device"}

\* The kernel frees a module whose load has failed, open files or not.
InitFails ==
  /\ mod = "loading"
  /\ \/ Clash /\ UNCHANGED faults
     \/ faults < MaxFaults /\ faults' = faults + 1
  /\ failed' = failed \cup {next}
  /\ held' = Undone /\ next' = "none"
  /\ mod' = IF Loaded THEN "live" ELSE IF opened # {} THEN "oops" ELSE "absent"
  /\ UNCHANGED <<stale, loads, procs, presses>>

\* Mutant of Rmmod: files do not pin the module (fops.owner missing).
RmmodForced ==
  /\ mod = "live"
  /\ mod' = "unloading" /\ next' = "device"
  /\ UNCHANGED <<held, stale, failed, loads, faults, procs, presses>>

Rmmod ==
  /\ mod = "live" /\ opened = {}
  /\ mod' = "unloading" /\ next' = "device"
  /\ UNCHANGED <<held, stale, failed, loads, faults, procs, presses>>

\* Mutant of AfterExit: the line before the interrupt.
AfterExitGpio == [ device |-> "class", class |-> "cdev", cdev |-> "region", region |-> "gpio",
                   gpio |-> "irq", irq |-> "none" ]

AfterExit == [ device |-> "class", class |-> "cdev", cdev |-> "region", region |-> "irq",
               irq |-> "gpio", gpio |-> "none" ]

\* gpio_irq_exit, step by step; what was not taken cannot be given back.
ExitStep ==
  /\ mod = "unloading"
  /\ \/ /\ next \in held
        /\ held' = held \ {next} /\ next' = AfterExit[next]
        /\ mod' = IF AfterExit[next] = "none" THEN "absent" ELSE mod
     \/ /\ next \notin held
        /\ mod' = "oops" /\ UNCHANGED <<held, next>>
  /\ UNCHANGED <<stale, failed, loads, faults, procs, presses>>
----------------------------------------------------------------------------
\* button_signal: signal(SIG_PUSH_BUTTON, button_signal_handler).
ButtonSignal(p) ==
  /\ p \in Apps /\ proc[p] = "running" /\ p \notin handler
  /\ handler' = handler \cup {p}
  /\ UNCHANGED <<module, task, proc, opened, queued, button_push, presses>>

\* The device is there, and the module is not about to go.
CanOpen == mod \in {"loading", "live"} /\ "device" \in held

\* Mutant of Open: before the handler is installed.
OpenEarly(p) ==
  /\ CanOpen /\ proc[p] = "running" /\ p \notin opened
  /\ opened' = opened \cup {p}
  /\ UNCHANGED <<module, task, proc, handler, queued, button_push, presses>>

Open(p) ==
  /\ CanOpen /\ proc[p] = "running" /\ p \notin opened
  /\ p \in Apps => p \in handler
  /\ opened' = opened \cup {p}
  /\ UNCHANGED <<module, task, proc, handler, queued, button_push, presses>>

\* The device of a module that is gone leads to freed memory.
OpenStale(p) ==
  /\ proc[p] = "running"
  /\ "device" \in stale \/ (mod = "absent" /\ "device" \in held)
  /\ mod' = "oops"
  /\ UNCHANGED <<next, held, stale, failed, loads, faults, procs, presses>>

\* my_ioctl with REGISTER_UAPP.
MyIoctl(p) ==
  /\ p \in Apps /\ proc[p] = "running" /\ p \in opened
  /\ task' = p
  /\ UNCHANGED <<module, proc, handler, opened, queued, button_push, presses>>

\* Mutant of MyClose: forgets to clear the task.
MyCloseKeeps == UNCHANGED task

\* my_close: whoever closes.
MyClose == task' = NoTask

Close(p) ==
  /\ p \in Visitors /\ proc[p] = "running" /\ p \in opened
  /\ MyClose
  /\ opened' = opened \ {p}
  /\ UNCHANGED <<module, proc, handler, queued, button_push, presses>>

\* A process ends, killed or by itself: the kernel closes its files and drops
\* its signals.
Ends(p) ==
  /\ proc' = [proc EXCEPT ![p] = "exited"]
  /\ opened' = opened \ {p}
  /\ IF p \in opened THEN MyClose ELSE UNCHANGED task
  /\ queued' = [queued EXCEPT ![p] = 0]

Exit(p) ==
  /\ proc[p] = "running"
  /\ Ends(p)
  /\ UNCHANGED <<module, handler, button_push, presses>>

\* Mutant of GpioIrqHandler: both edges of a press (IRQF_TRIGGER_RISING gone).
GpioIrqBothEdges ==
  /\ "irq" \in held /\ presses < MaxPresses /\ presses' = presses + 1
  /\ queued' = IF task = NoTask \/ queued[task] >= MaxQueued THEN queued
               ELSE [queued EXCEPT ![task] = @ + 2]
  /\ UNCHANGED <<module, task, proc, handler, opened, button_push>>

\* gpio_irq_handler.  A real-time signal is queued as often as it is sent, up
\* to the limit; over it send_sig_info fails and the press is only logged.
GpioIrqHandler ==
  /\ "irq" \in held /\ presses < MaxPresses /\ presses' = presses + 1
  /\ queued' = IF task = NoTask \/ queued[task] >= MaxQueued THEN queued
               ELSE [queued EXCEPT ![task] = @ + 1]
  /\ UNCHANGED <<module, task, proc, handler, opened, button_push>>

\* The kernel delivers a signal: to the handler, or by default ends the process.
Deliver(p) ==
  /\ proc[p] = "running" /\ queued[p] > 0
  /\ IF p \in handler
     THEN /\ queued' = [queued EXCEPT ![p] = @ - 1]
          /\ button_push' = [button_push EXCEPT ![p] = @ + 1]
          /\ UNCHANGED <<task, proc, opened>>
     ELSE Ends(p) /\ UNCHANGED button_push
  /\ UNCHANGED <<module, handler, presses>>
----------------------------------------------------------------------------
Init ==
  /\ mod = "absent" /\ next = "none"
  /\ held = {} /\ stale = {} /\ failed = {} /\ loads = 0 /\ faults = 0
  /\ task = NoTask
  /\ proc = [p \in Procs |-> "running"]
  /\ handler = {} /\ opened = {}
  /\ queued = [p \in Procs |-> 0] /\ button_push = [p \in Procs |-> 0]
  /\ presses = 0

\* Nothing is said of what follows a kernel oops.
Next ==
  /\ mod # "oops"
  /\ \/ Insmod \/ InitStep \/ InitFails \/ Rmmod \/ ExitStep
     \/ GpioIrqHandler
     \/ \E p \in Procs :
          \/ ButtonSignal(p) \/ Open(p) \/ OpenStale(p) \/ MyIoctl(p) \/ Close(p)
          \/ Exit(p) \/ Deliver(p)

Spec == Init /\ [][Next]_vars
----------------------------------------------------------------------------
TypeOK ==
  /\ mod \in {"absent", "loading", "live", "unloading", "oops"}
  /\ next \in Steps \cup {"none"} /\ (mod \in {"loading", "unloading"} => next # "none")
  /\ held \subseteq Resources /\ stale \subseteq Resources /\ failed \subseteq Steps
  /\ loads \in 0 .. MaxLoads /\ faults \in 0 .. MaxFaults
  /\ task \in Procs \cup {NoTask}
  /\ proc \in [Procs -> {"running", "exited"}]
  /\ handler \subseteq Apps /\ opened \subseteq Procs
  /\ queued \in [Procs -> 0 .. MaxQueued]
  /\ button_push \in [Procs -> Nat] /\ presses \in 0 .. MaxPresses

\* The interrupt never signals a process that is gone (gpio_irq.c:34-41): the
\* registered one runs and still has the device open, so that its end will
\* clear the variable, whoever else opens, closes and registers.
TaskAlive == task # NoTask => proc[task] = "running" /\ task \in opened

\* The signal, whose default action ends a process, only waits for one that
\* handles it (application/main.c:22 before 32).
NeverKilled == \A p \in Procs : queued[p] > 0 => p \in handler

\* One element for every signal that n, queued or button_push, says of a process.
Signals(n) == UNION { {p} \X (1 .. n[p]) : p \in Procs }

\* No press is counted twice or by two processes, whoever registers, exits or
\* has signals waiting in between; some are dropped.
CountedOnce == Cardinality(Signals(queued)) + Cardinality(Signals(button_push)) <= presses

\* The handler never runs for a module that is gone or on a line that somebody
\* else may have, in whatever order init and exit are cut short (gpio_irq.c:106,
\* 121, 150-151).
HandlerBacked == "irq" \in held => "gpio" \in held /\ mod # "absent"

\* While the driver is being unloaded nobody is registered, so that a press after
\* the device is gone and before free_irq signals nobody (gpio_irq.c:145-150):
\* every registered process has the file open, and an open file pins the module.
QuietWhenGone == mod \in {"absent", "unloading"} => task = NoTask /\ opened = {}

\* A load that stops before the line is requested leaves nothing behind, nor does
\* an unload (gpio_irq.c:74-104, 133-140).
NothingLeftBehind ==
  mod = "absent" /\ failed \cap {"gpio", "direction", "irq"} = {} => held = {} /\ stale = {}

\* The kernel only comes to harm after a refusal whose way out is wrong: the class
\* and the device report success, the line and its interrupt keep the device
\* (gpio_irq.c:92-95, 99-103, 106-127).
HarmNeedsRefusal ==
  mod = "oops" => failed \cap {"class", "device", "gpio", "direction", "irq"} # {}
=============================================================================
