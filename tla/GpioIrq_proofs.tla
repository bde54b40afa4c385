--------------------------- MODULE GpioIrq_proofs ---------------------------
(***************************************************************************)
(* The registered process is alive and its signal is handled, and loading  *)
(* and unloading keep what they promise, for any number of applications    *)
(* and visitors, any limit on queued signals, and any number of presses,   *)
(* loads and refusals.                                                     *)
(*                                                                         *)
(* Of the processes, TaskAlive alone is inductive; NeverKilled needs to    *)
(* know that only an application registers, and that it opens the device   *)
(* after it has installed its handler, which nothing removes.              *)
(*                                                                         *)
(* Of the module, the invariant says what it holds at each step of loading *)
(* and of unloading, and that a file is open only while it has the device. *)
(*                                                                         *)
(* That no press is counted twice is inductive given the types: the sum    *)
(* is the size of two sets, which change by one element at a time.         *)
(***************************************************************************)
EXTENDS GpioIrq, TLAPS, FiniteSetTheorems

\* An application that has the device open handles the signal, and only
\* applications register.
OpenedHandles == Apps \cap opened \subseteq handler
OnlyApps      == task # NoTask => task \in Apps

ProcInv == TypeOK /\ TaskAlive /\ NeverKilled /\ OpenedHandles /\ OnlyApps

Late  == failed \cap {"gpio", "direction", "irq"} # {}
Early == failed \cap {"class", "device"} # {}

\* What is held before each step of gpio_irq_init.
WhileLoading ==
  mod = "loading" =>
    /\ "region" \in held <=> next # "region"
    /\ "cdev" \in held <=> next \notin {"region", "cdev"}
    /\ "class" \in held <=> next \notin {"region", "cdev", "class"}
    /\ "device" \in held <=> next \in {"gpio", "direction", "irq"}
    /\ "gpio" \in held <=> next \in {"direction", "irq"}
    /\ "irq" \notin held

WhileLive == mod = "live" => held = Resources \/ (held = {} /\ Early)

\* What is held before each step of gpio_irq_exit, unless there was nothing.
WhileUnloading ==
  mod = "unloading" =>
    \/ next = "device" /\ held = {} /\ Early
    \/ /\ next # "direction"
       /\ "device" \in held <=> next = "device"
       /\ "class" \in held <=> next \in {"device", "class"}
       /\ "cdev" \in held <=> next \in {"device", "class", "cdev"}
       /\ "region" \in held <=> next \in {"device", "class", "cdev", "region"}
       /\ "irq" \in held <=> next # "gpio"
       /\ "gpio" \in held

WhileAbsent == mod = "absent" => "irq" \notin held /\ (held # {} => Late)

\* A file is open only while the module has the device.
OpenBacked == opened # {} => mod \in {"loading", "live", "oops"} /\ (mod # "oops" => "device" \in held)
StaleNeedsLate == stale # {} => Late
HarmExplained  == mod = "oops" => Late \/ Early

ModInv == /\ WhileLoading /\ WhileLive /\ WhileUnloading /\ WhileAbsent
          /\ OpenBacked /\ StaleNeedsLate /\ HarmExplained
          /\ HandlerBacked

IInv == ProcInv /\ ModInv

LEMMA InitIInv == Init => IInv
  BY GpioIrqAssumption
  DEF Init, IInv, ProcInv, TypeOK, TaskAlive, NeverKilled, OpenedHandles, OnlyApps, Procs,
      Steps, Resources, ModInv, WhileLoading, WhileLive, WhileUnloading, WhileAbsent,
      OpenBacked, StaleNeedsLate, HarmExplained, HandlerBacked
----------------------------------------------------------------------------
\* The steps of loading and unloading.

LEMMA InsmodModInv == IInv /\ Insmod => IInv'
<1> SUFFICES ASSUME IInv, Insmod PROVE IInv'
  OBVIOUS
<1>1. ProcInv'
  BY GpioIrqAssumption
  DEF IInv, ProcInv, TypeOK, TaskAlive, NeverKilled, OpenedHandles, OnlyApps, procs,
      Insmod, Steps, Resources
<1>2. (WhileLoading /\ WhileLive /\ WhileUnloading /\ WhileAbsent /\ HandlerBacked)'
  BY DEF Insmod, WhileLoading, WhileLive, WhileUnloading, WhileAbsent, HandlerBacked
<1>3. (OpenBacked /\ StaleNeedsLate /\ HarmExplained)'
  BY DEF IInv, ModInv, Insmod, procs, WhileAbsent, OpenBacked, StaleNeedsLate, HarmExplained, Late, Early
<1> QED BY <1>1, <1>2, <1>3 DEF IInv, ModInv

LEMMA InitStepModInv == IInv /\ InitStep => IInv'
<1> SUFFICES ASSUME IInv, InitStep PROVE IInv'
  OBVIOUS
<1>1. next \in Steps
  BY DEF IInv, ProcInv, TypeOK, InitStep
<1>2. /\ AfterInit["region"] = "cdev" /\ AfterInit["cdev"] = "class"
      /\ AfterInit["class"] = "device" /\ AfterInit["device"] = "gpio"
      /\ AfterInit["gpio"] = "direction" /\ AfterInit["direction"] = "irq"
      /\ AfterInit["irq"] = "none"
  BY DEF AfterInit
<1>3. ProcInv'
  BY <1>1, <1>2 DEF IInv, ProcInv, TypeOK, TaskAlive, NeverKilled, OpenedHandles, OnlyApps, procs,
      InitStep, Steps, Resources
<1>4. (OpenBacked /\ StaleNeedsLate /\ HarmExplained)'
  BY DEF IInv, ModInv, InitStep, OpenBacked, StaleNeedsLate, HarmExplained, Late, Early, procs
<1>5. (WhileLoading /\ WhileUnloading /\ WhileAbsent /\ HandlerBacked)'
  BY <1>1, <1>2 DEF IInv, ModInv, InitStep, WhileLoading, WhileUnloading, WhileAbsent,
      HandlerBacked, Steps, Resources
<1>6. WhileLive'
  BY <1>1, <1>2 DEF IInv, ProcInv, TypeOK, ModInv, InitStep, WhileLoading, WhileLive, Steps, Resources
<1> QED BY <1>3, <1>4, <1>5, <1>6 DEF IInv, ModInv

LEMMA InitFailsModInv == IInv /\ InitFails => IInv'
<1> SUFFICES ASSUME IInv, InitFails PROVE IInv'
  OBVIOUS
<1>1. next \in Steps
  BY DEF IInv, ProcInv, TypeOK, InitFails
<1>2. Undone \subseteq held /\ "irq" \notin Undone
  BY DEF IInv, ModInv, WhileLoading, InitFails, Undone
<1>3. ProcInv'
  BY <1>1, <1>2, GpioIrqAssumption
  DEF IInv, ProcInv, TypeOK, TaskAlive, NeverKilled, OpenedHandles, OnlyApps, procs,
      InitFails, Steps, Resources, Loaded
<1>4. Undone # {} => next \in {"gpio", "direction", "irq"}
  BY <1>1 DEF Undone, Steps, Resources
<1>5. (WhileLoading /\ WhileUnloading /\ WhileAbsent /\ HandlerBacked)'
  BY <1>1, <1>2, <1>4 DEF InitFails, WhileLoading, WhileUnloading, WhileAbsent,
      HandlerBacked, Late, Loaded
<1>6. WhileLive'
  BY <1>1, <1>4 DEF InitFails, WhileLive, Loaded, Early
<1>7. (OpenBacked /\ StaleNeedsLate /\ HarmExplained)'
  BY <1>1, <1>4 DEF IInv, ModInv, InitFails, WhileLoading, OpenBacked, StaleNeedsLate, HarmExplained,
      Late, Early, Loaded, procs
<1> QED BY <1>3, <1>5, <1>6, <1>7 DEF IInv, ModInv

LEMMA RmmodModInv == IInv /\ Rmmod => IInv'
  BY DEF IInv, ProcInv, TypeOK, TaskAlive, NeverKilled, OpenedHandles, OnlyApps, procs,
      Rmmod, Steps, Resources, ModInv, WhileLoading, WhileLive, WhileUnloading, WhileAbsent,
      OpenBacked, StaleNeedsLate, HarmExplained, HandlerBacked, Late, Early

LEMMA ExitStepModInv == IInv /\ ExitStep => IInv'
<1> SUFFICES ASSUME IInv, ExitStep PROVE IInv'
  OBVIOUS
<1>1. next \in Steps
  BY DEF IInv, ProcInv, TypeOK, ExitStep
<1>2. /\ AfterExit["device"] = "class" /\ AfterExit["class"] = "cdev"
      /\ AfterExit["cdev"] = "region" /\ AfterExit["region"] = "irq"
      /\ AfterExit["irq"] = "gpio" /\ AfterExit["gpio"] = "none"
  BY DEF AfterExit
<1>3. CASE next \in held
  <2>1. next # "direction" /\ WhileUnloading /\ mod = "unloading" /\ held \subseteq Resources
    BY <1>3 DEF IInv, ProcInv, TypeOK, ModInv, ExitStep, Resources
  <2>2. ProcInv'
    BY <1>1, <1>2, <1>3, <2>1
    DEF IInv, ProcInv, TypeOK, TaskAlive, NeverKilled, OpenedHandles, OnlyApps, procs,
        ExitStep, Steps, Resources
  <2>3. (WhileLoading /\ WhileLive /\ WhileUnloading /\ HandlerBacked)'
    BY <1>1, <1>2, <1>3, <2>1 DEF ExitStep, WhileLoading, WhileLive, WhileUnloading,
        HandlerBacked, Steps, Resources
  <2>4. WhileAbsent'
    BY <1>1, <1>2, <1>3, <2>1 DEF ExitStep, WhileUnloading, WhileAbsent, Steps, Resources
  <2>5. (OpenBacked /\ StaleNeedsLate /\ HarmExplained)'
    BY <1>3, <2>1 DEF IInv, ModInv, ExitStep, OpenBacked, StaleNeedsLate, HarmExplained, Late, Early, procs
  <2> QED BY <2>2, <2>3, <2>4, <2>5 DEF IInv, ModInv
<1>4. CASE next \notin held
  BY <1>1, <1>4
  DEF IInv, ProcInv, TypeOK, TaskAlive, NeverKilled, OpenedHandles, OnlyApps, procs,
      ExitStep, Steps, Resources, ModInv, WhileLoading, WhileLive, WhileUnloading, WhileAbsent,
      OpenBacked, StaleNeedsLate, HarmExplained, HandlerBacked, Late, Early
<1> QED BY <1>3, <1>4
----------------------------------------------------------------------------
\* What processes do leaves the module alone, and opens only what it has.
LEMMA ProcsModInv ==
  ASSUME IInv, UNCHANGED module,
         opened' \subseteq opened \/ (CanOpen /\ opened' \subseteq Procs)
  PROVE  ModInv'
  BY DEF IInv, module, CanOpen, ModInv, WhileLoading, WhileLive, WhileUnloading, WhileAbsent,
      OpenBacked, StaleNeedsLate, HarmExplained, HandlerBacked, Late, Early

\* A process ends: nothing waits for it, it is not registered, it has nothing
\* open.
LEMMA EndsIInv ==
  ASSUME IInv, NEW p \in Procs, Ends(p), UNCHANGED <<module, handler, button_push, presses>>
  PROVE  IInv'
<1>1. ProcInv'
  BY GpioIrqAssumption
  DEF IInv, ProcInv, TypeOK, TaskAlive, NeverKilled, OpenedHandles, OnlyApps, Procs, Ends, MyClose, module
<1>2. ModInv'
  BY ProcsModInv DEF Ends
<1> QED BY <1>1, <1>2 DEF IInv

LEMMA StepIInv == IInv /\ [Next]_vars => IInv'
<1> SUFFICES ASSUME IInv, [Next]_vars PROVE IInv'
  OBVIOUS
<1> USE DEF ProcInv, TypeOK, TaskAlive, NeverKilled, OpenedHandles, OnlyApps
<1>1. CASE GpioIrqHandler
  <2>1. TypeOK'
    BY <1>1, GpioIrqAssumption DEF IInv, GpioIrqHandler, Procs, module
  <2>2. NeverKilled'
    BY <1>1, GpioIrqAssumption DEF IInv, GpioIrqHandler, Procs
  <2>3. ModInv'
    BY <1>1, ProcsModInv DEF GpioIrqHandler
  <2> QED BY <1>1, <2>1, <2>2, <2>3 DEF IInv, GpioIrqHandler
<1>2. ASSUME NEW p \in Procs, ButtonSignal(p) PROVE IInv'
  <2>1. ProcInv'
    BY <1>2 DEF IInv, ButtonSignal, module
  <2>2. ModInv'
    BY <1>2, ProcsModInv DEF ButtonSignal
  <2> QED BY <2>1, <2>2 DEF IInv
<1>3. ASSUME NEW p \in Procs, Open(p) PROVE IInv'
  <2>1. ProcInv'
    BY <1>3 DEF IInv, Open, module
  <2>2. ModInv'
    BY <1>3, ProcsModInv DEF Open, IInv
  <2> QED BY <2>1, <2>2 DEF IInv
<1>4. ASSUME NEW p \in Procs, MyIoctl(p) PROVE IInv'
  <2>1. ProcInv'
    BY <1>4, GpioIrqAssumption DEF IInv, MyIoctl, Procs, module
  <2>2. ModInv'
    BY <1>4, ProcsModInv DEF MyIoctl
  <2> QED BY <2>1, <2>2 DEF IInv
<1>5. ASSUME NEW p \in Procs, Close(p) PROVE IInv'
  <2>1. ProcInv'
    BY <1>5 DEF IInv, Close, MyClose, module
  <2>2. ModInv'
    BY <1>5, ProcsModInv DEF Close
  <2> QED BY <2>1, <2>2 DEF IInv
<1>6. ASSUME NEW p \in Procs, Exit(p) PROVE IInv'
  BY <1>6, EndsIInv DEF Exit
<1>7. ASSUME NEW p \in Procs, Deliver(p) PROVE IInv'
  <2>1. CASE p \in handler
    <3>1. ProcInv'
      BY <1>7, <2>1, GpioIrqAssumption DEF IInv, Deliver, Procs, module
    <3>2. ModInv'
      BY <1>7, <2>1, ProcsModInv DEF Deliver
    <3> QED BY <3>1, <3>2 DEF IInv
  <2>2. CASE p \notin handler
    BY <1>7, <2>2, EndsIInv DEF Deliver
  <2> QED BY <2>1, <2>2
<1>8. ASSUME NEW p \in Procs, OpenStale(p), mod # "oops" PROVE IInv'
  <2>1. ProcInv'
    BY <1>8 DEF IInv, OpenStale, procs
  <2>2. ModInv'
    BY <1>8 DEF IInv, OpenStale, procs, ModInv, WhileLoading, WhileLive, WhileUnloading, WhileAbsent,
        OpenBacked, StaleNeedsLate, HarmExplained, HandlerBacked, Late, Early
  <2> QED BY <2>1, <2>2 DEF IInv
<1>9. CASE UNCHANGED vars
  <2>1. ProcInv'
    BY <1>9 DEF IInv, vars, procs, module, Procs
  <2>2. ModInv'
    BY <1>9, ProcsModInv DEF vars, procs
  <2> QED BY <2>1, <2>2 DEF IInv
<1>10. CASE Insmod \/ InitStep \/ InitFails \/ Rmmod \/ ExitStep
  BY <1>10, InsmodModInv, InitStepModInv, InitFailsModInv, RmmodModInv, ExitStepModInv
<1> QED BY <1>1, <1>2, <1>3, <1>4, <1>5, <1>6, <1>7, <1>8, <1>9, <1>10 DEF Next

\* The driver never keeps a process that is gone (gpio_irq.c:34-41, 57-62), and
\* the signal only waits for processes that handle it.
THEOREM RegisteredSafe == Spec => [](TypeOK /\ TaskAlive /\ NeverKilled)
<1>1. IInv => TypeOK /\ TaskAlive /\ NeverKilled
  BY DEF IInv, ProcInv
<1> QED BY InitIInv, StepIInv, <1>1, PTL DEF Spec

\* The variables keep their types; the signals of a process stay within its limit.
THEOREM TypeCorrect == Spec => []TypeOK
<1>1. TypeOK /\ TaskAlive /\ NeverKilled => TypeOK
  OBVIOUS
<1> QED BY RegisteredSafe, <1>1, PTL

\* No signal waits for a process that it would end (application/main.c:22, 32).
THEOREM SignalHandled == Spec => []NeverKilled
<1>1. TypeOK /\ TaskAlive /\ NeverKilled => NeverKilled
  OBVIOUS
<1> QED BY RegisteredSafe, <1>1, PTL

\* The handler has its line, and nobody is registered while the driver is unloaded
\* (gpio_irq.c:145-151).
THEOREM UnloadSafe == Spec => [](HandlerBacked /\ QuietWhenGone)
<1>1. IInv => HandlerBacked /\ QuietWhenGone
  BY DEF IInv, ProcInv, ModInv, TaskAlive, OpenBacked, QuietWhenGone
<1> QED BY InitIInv, StepIInv, <1>1, PTL DEF Spec

\* What is left behind, and what brings the kernel to harm, comes from the three
\* returns that skip the ladder or from the two labels that return success
\* (gpio_irq.c:92-127).
THEOREM LaddersBlamed == Spec => [](NothingLeftBehind /\ HarmNeedsRefusal)
<1>1. IInv => NothingLeftBehind /\ HarmNeedsRefusal
  BY DEF IInv, ModInv, WhileAbsent, StaleNeedsLate, HarmExplained, Late, Early,
         NothingLeftBehind, HarmNeedsRefusal
<1> QED BY InitIInv, StepIInv, <1>1, PTL DEF Spec

\* The interrupt is only requested while the line is held by a loaded module, and
\* given back before it (gpio_irq.c:121, 150-151).
THEOREM HandlerHasItsLine == Spec => []HandlerBacked
<1>1. HandlerBacked /\ QuietWhenGone => HandlerBacked
  OBVIOUS
<1> QED BY UnloadSafe, <1>1, PTL

\* A module that is gone, and was never refused the line, its direction or the
\* interrupt, has left nothing behind (gpio_irq.c:74-104, 133-154).
THEOREM CleanUnlessLate == Spec => []NothingLeftBehind
<1>1. NothingLeftBehind /\ HarmNeedsRefusal => NothingLeftBehind
  OBVIOUS
<1> QED BY LaddersBlamed, <1>1, PTL
----------------------------------------------------------------------------
\* Counting: a signal sent is one element more, a signal delivered moves one
\* element, the end of a process drops some.  The sets stay finite, however
\* many processes there are.

LEMMA SignalsMember ==
  ASSUME NEW n
  PROVE  \A s : s \in Signals(n) <=> \E q \in Procs, i \in Int : i \in 1 .. n[q] /\ s = <<q, i>>
  BY DEF Signals

\* One signal more for p is one element more.
LEMMA OneMore ==
  ASSUME NEW n \in [Procs -> Nat], NEW m \in [Procs -> Nat], NEW p \in Procs,
         m[p] = n[p] + 1, \A q \in Procs : q # p => m[q] = n[q],
         IsFiniteSet(Signals(n))
  PROVE  /\ IsFiniteSet(Signals(m))
         /\ Cardinality(Signals(m)) = Cardinality(Signals(n)) + 1
<1> DEFINE x == <<p, m[p]>>
<1>1. \A s : s \in Signals(m) <=> \E q \in Procs, i \in Int : i \in 1 .. m[q] /\ s = <<q, i>>
  BY SignalsMember
<1>2. \A s : s \in Signals(n) <=> \E q \in Procs, i \in Int : i \in 1 .. n[q] /\ s = <<q, i>>
  BY SignalsMember
<1>3. x \notin Signals(n)
  BY <1>2
<1>4. \A q \in Procs, i \in Int : i \in 1 .. m[q] <=> i \in 1 .. n[q] \/ (q = p /\ i = m[p])
  OBVIOUS
<1>5. Signals(m) = Signals(n) \cup {x}
  BY <1>1, <1>2, <1>4
<1>6. IsFiniteSet(Signals(n) \cup {x}) /\ Cardinality(Signals(n) \cup {x}) = Cardinality(Signals(n)) + 1
  BY <1>3, FS_AddElement
<1> QED BY <1>5, <1>6

\* Fewer signals for p are fewer elements.
LEMMA FewerSignals ==
  ASSUME NEW n \in [Procs -> Nat], NEW m \in [Procs -> Nat],
         \A q \in Procs : m[q] <= n[q], IsFiniteSet(Signals(n))
  PROVE  /\ IsFiniteSet(Signals(m))
         /\ Cardinality(Signals(m)) <= Cardinality(Signals(n))
<1>1. \A s : s \in Signals(m) <=> \E q \in Procs, i \in Int : i \in 1 .. m[q] /\ s = <<q, i>>
  BY SignalsMember
<1>2. \A s : s \in Signals(n) <=> \E q \in Procs, i \in Int : i \in 1 .. n[q] /\ s = <<q, i>>
  BY SignalsMember
<1>3. \A q \in Procs, i \in Int : i \in 1 .. m[q] => i \in 1 .. n[q]
  OBVIOUS
<1>4. Signals(m) \subseteq Signals(n)
  BY <1>1, <1>2, <1>3
<1> QED BY <1>4, FS_Subset

\* CountedOnce, with what makes Cardinality count.
CountInv ==
  /\ IsFiniteSet(Signals(queued)) /\ IsFiniteSet(Signals(button_push))
  /\ CountedOnce

LEMMA InitCountInv == Init => CountInv
<1> SUFFICES ASSUME Init PROVE CountInv
  OBVIOUS
<1>1. Signals(queued) = {} /\ Signals(button_push) = {}
  BY DEF Init, Signals
<1>2. Cardinality({}) = 0 /\ IsFiniteSet({})
  BY FS_EmptySet
<1> QED BY <1>1, <1>2 DEF Init, CountInv, CountedOnce

\* The end of a process forgets what waits for it.
LEMMA EndsCountInv ==
  ASSUME TypeOK, CountInv, NEW p \in Procs, Ends(p), UNCHANGED <<button_push, presses>>
  PROVE  CountInv'
<1>1. /\ queued \in [Procs -> Nat] /\ queued' \in [Procs -> Nat]
      /\ \A q \in Procs : queued'[q] <= queued[q]
  BY GpioIrqAssumption DEF TypeOK, Ends
<1>2. /\ IsFiniteSet(Signals(queued'))
      /\ Cardinality(Signals(queued')) <= Cardinality(Signals(queued))
  BY <1>1, FewerSignals DEF CountInv
<1>3. /\ Cardinality(Signals(queued')) \in Nat /\ Cardinality(Signals(queued)) \in Nat
      /\ Cardinality(Signals(button_push)) \in Nat
  BY <1>2, FS_CardinalityType DEF CountInv
<1>4. presses \in Nat /\ presses' = presses /\ button_push' = button_push
  BY GpioIrqAssumption DEF TypeOK
<1>5. CountedOnce'
  BY <1>2, <1>3, <1>4 DEF CountInv, CountedOnce, Signals
<1>6. IsFiniteSet(Signals(button_push)')
  BY <1>4 DEF CountInv, Signals
<1>7. IsFiniteSet(Signals(queued)')
  BY <1>2 DEF Signals
<1> QED BY <1>5, <1>6, <1>7 DEF CountInv

LEMMA StepCountInv == TypeOK /\ CountInv /\ [Next]_vars => CountInv'
<1> SUFFICES ASSUME TypeOK, CountInv, [Next]_vars PROVE CountInv'
  OBVIOUS
<1> DEFINE Q == Cardinality(Signals(queued))
           B == Cardinality(Signals(button_push))
<1>1. /\ queued \in [Procs -> Nat] /\ button_push \in [Procs -> Nat] /\ presses \in Nat
      /\ IsFiniteSet(Signals(queued)) /\ IsFiniteSet(Signals(button_push)) /\ Q + B <= presses
  BY GpioIrqAssumption DEF TypeOK, CountInv, CountedOnce
<1>2. Q \in Nat /\ B \in Nat
  BY <1>1, FS_CardinalityType
<1>3. /\ IsFiniteSet(Signals(queued')) /\ IsFiniteSet(Signals(button_push'))
      /\ Cardinality(Signals(queued')) + Cardinality(Signals(button_push')) <= presses'
      => CountInv'
  BY DEF CountInv, CountedOnce, Signals
<1>4. ASSUME UNCHANGED <<queued, button_push, presses>> PROVE CountInv'
  BY <1>4 DEF CountInv, CountedOnce, Signals
<1>5. CASE GpioIrqHandler
  <2>1. presses' = presses + 1 /\ button_push' = button_push
    BY <1>5 DEF GpioIrqHandler
  <2>2. CASE queued' = queued
    BY <1>1, <1>2, <1>3, <2>1, <2>2
  <2>3. CASE queued' # queued
    <3>1. task \in Procs /\ queued' = [queued EXCEPT ![task] = @ + 1]
      BY <1>5, <2>3 DEF GpioIrqHandler, TypeOK
    <3>2. IsFiniteSet(Signals(queued')) /\ Cardinality(Signals(queued')) = Q + 1
      <4>1. /\ queued' \in [Procs -> Nat] /\ queued'[task] = queued[task] + 1
            /\ \A q \in Procs : q # task => queued'[q] = queued[q]
        BY <1>1, <3>1
      <4>2. task \in Procs
        BY <3>1
      <4> QED BY <1>1, <4>1, <4>2, OneMore
    <3>3. Cardinality(Signals(button_push')) = B /\ IsFiniteSet(Signals(button_push'))
      BY <1>1, <2>1
    <3>4. Cardinality(Signals(queued')) + Cardinality(Signals(button_push')) <= presses'
      BY <1>1, <1>2, <2>1, <3>2, <3>3
    <3> QED BY <1>3, <3>2, <3>3, <3>4
  <2> QED BY <2>2, <2>3
<1>6. ASSUME NEW p \in Procs, Deliver(p) PROVE CountInv'
  <2>1. CASE p \in handler
    <3>1. /\ queued[p] > 0 /\ queued' = [queued EXCEPT ![p] = @ - 1]
          /\ button_push' = [button_push EXCEPT ![p] = @ + 1] /\ presses' = presses
      BY <1>6, <2>1 DEF Deliver
    <3>2. IsFiniteSet(Signals(queued')) /\ Q = Cardinality(Signals(queued')) + 1
      <4>1. /\ queued' \in [Procs -> Nat] /\ queued[p] = queued'[p] + 1
            /\ \A q \in Procs : queued'[q] <= queued[q] /\ (q # p => queued[q] = queued'[q])
        BY <1>1, <3>1
      <4>2. IsFiniteSet(Signals(queued'))
        BY <1>1, <4>1, FewerSignals
      <4> QED BY <1>1, <4>1, <4>2, OneMore
    <3>3. IsFiniteSet(Signals(button_push')) /\ Cardinality(Signals(button_push')) = B + 1
      <4>1. /\ button_push' \in [Procs -> Nat] /\ button_push'[p] = button_push[p] + 1
            /\ \A q \in Procs : q # p => button_push'[q] = button_push[q]
        BY <1>1, <3>1
      <4> QED BY <1>1, <4>1, OneMore
    <3>4. Cardinality(Signals(queued')) + Cardinality(Signals(button_push')) <= presses'
      <4>1. Cardinality(Signals(queued')) \in Nat
        BY <3>2, FS_CardinalityType
      <4> QED BY <1>1, <1>2, <3>1, <3>2, <3>3, <4>1
    <3> QED BY <1>3, <3>2, <3>3, <3>4
  <2>2. CASE p \notin handler
    BY <1>6, <2>2, EndsCountInv DEF Deliver
  <2> QED BY <2>1, <2>2
<1>7. ASSUME NEW p \in Procs, Exit(p) PROVE CountInv'
  BY <1>7, EndsCountInv DEF Exit
<1>8. CASE Insmod \/ InitStep \/ InitFails \/ Rmmod \/ ExitStep
  BY <1>4, <1>8 DEF Insmod, InitStep, InitFails, Rmmod, ExitStep, procs
<1>9. ASSUME NEW p \in Procs, ButtonSignal(p) \/ Open(p) \/ OpenStale(p) \/ MyIoctl(p) \/ Close(p)
      PROVE  CountInv'
  BY <1>4, <1>9 DEF ButtonSignal, Open, OpenStale, MyIoctl, Close, procs
<1>10. CASE UNCHANGED vars
  BY <1>4, <1>10 DEF vars, procs
<1> QED BY <1>5, <1>6, <1>7, <1>8, <1>9, <1>10 DEF Next

\* No press is counted twice or by two processes: gpio_irq_handler sends one
\* signal, to one process, and the application counts a signal when it is
\* delivered (gpio_irq.c:34-44, application/common.c:44-48).
THEOREM CountedAtMostOnce == Spec => []CountedOnce
<1>1. TypeOK /\ TaskAlive /\ NeverKilled => TypeOK
  OBVIOUS
<1>2. CountInv => CountedOnce
  BY DEF CountInv
<1> QED BY RegisteredSafe, InitCountInv, StepCountInv, <1>1, <1>2, PTL DEF Spec
=============================================================================
