------------------------- MODULE LedControl_proofs -------------------------
(***************************************************************************)
(* What the LED driver keeps, for any number of children, bindings and     *)
(* failures: its files lead to data that are there and it can be bound     *)
(* again until a step of probe fails, and LEDs are dark until written.     *)
(*                                                                         *)
(* Every device is named in the part of dev[] that the loop of probe has   *)
(* filled, or that of remove has still to visit; and no child has two.     *)
(* Where no child is disabled, probe fills all of dev[].                   *)
(***************************************************************************)
EXTENDS LedControl, TLAPS

\* Data belong to the present binding, files to it or to one that failed.
Bound ==
  /\ mod \in {"absent", "class", "idle"} => drv = "unbound"
  /\ before <= binds /\ (drv # "unbound" => before < binds)
  /\ drv # "unbound" => count_of_devices = children
  /\ drv = "unbound" => data = {}
  /\ \A f \in data : f[2] = binds
  /\ \A f \in files : f[2] <= binds
  /\ \A f, g \in files : f[1] = g[1] => f = g
  /\ drv \in {"line", "create"} => \A c \in todo : <<c, binds>> \notin files

Driven ==
  /\ drv = "create" => \A c \in todo : Current(c) => line[c] = Low
  /\ DarkUntilWritten

\* The files' children are found in dev[from .. to].
Listed(from, to) == \A f \in files : \E k \in from .. to : dev[k] = f[1]

Kept ==
  /\ files \subseteq data
  /\ drv = "unbound" => files = {}
  /\ drv \in {"line", "create"} => dev \in [Kids -> 0 .. children] /\ Listed(1, i - 1)
  /\ drv = "create" => \A c \in todo : Current(c) => <<c, binds>> \in data
  /\ drv = "bound" => Listed(1, children)
  /\ drv = "removing" => Listed(i, children)

\* dev[] has no hole among its first n.
Solid(n) == dev \in [Kids -> 0 .. children] /\ \A k \in 1 .. n : dev[k] # 0

Filled ==
  /\ drv # "oops"
  /\ drv \in {"line", "create"} => todo = i .. children /\ Solid(i - 1)
  /\ drv \in {"bound", "removing"} => Solid(children)

IInv ==
  /\ TypeOK /\ Bound /\ Driven
  /\ faults = 0 => Kept
  /\ faults = 0 /\ enabled = Kids => Filled

LEMMA Handle ==
  \A f \in Handles : f = <<f[1], f[2]>> /\ f[1] \in Kids /\ f[2] \in 0 .. MaxBinds
  BY DEF Handles

LEMMA Sizes ==
  Children \in Nat /\ MaxLoads \in Nat /\ MaxBinds \in Nat /\ MaxFaults \in Nat
  BY LedControlAssumption

\* The node keeps its children, and they their status.
LEMMA NodeStays == [Next]_vars => UNCHANGED <<children, enabled>>
BY Zenon DEF Next, vars, node, ProbeEmpty, Probe, ProbeDone, SetUpLine, CreateDevice,
   Remove, Unregister, Removed, DirectionStore, ValueStore, Store,
   CreateClass, RegisterDriver, Unload, DestroyClass

LEMMA Settled ==
  ASSUME TypeOK, [Next]_vars
  PROVE  children \in Nat /\ UNCHANGED <<children, enabled, Kids, Handles>>
<1>1. children \in Nat
  BY Sizes, SMT DEF TypeOK
<1>2. UNCHANGED <<children, enabled>>
  BY NodeStays
<1>3. UNCHANGED Kids
  BY <1>2 DEF Kids
<1>4. UNCHANGED Handles
  BY <1>3 DEF Handles
<1> QED BY <1>1, <1>2, <1>3, <1>4

\* There is one current child at most.
LEMMA OneCurrent ==
  ASSUME TypeOK, NEW c, NEW d, Current(c), Current(d)
  PROVE  c = d /\ c \in Kids
<1>1. c \in Int /\ d \in Int /\ c <= d /\ d <= c /\ c \in Kids
  BY Sizes, SMT DEF TypeOK, Current, Kids
<1> QED BY <1>1, SMT

\* dev[] has room only where it has been allocated.
LEMMA Slot ==
  ASSUME TypeOK, NEW c \in Kids, i \in DOMAIN dev
  PROVE  /\ i \in Kids /\ dev \in [Kids -> 0 .. children]
         /\ [dev EXCEPT ![i] = c] \in [Kids -> 0 .. children]
<1>1. dev # <<>>
  BY SMT
<1>2. dev \in [Kids -> 0 .. children]
  BY <1>1 DEF TypeOK
<1> QED BY <1>2, Sizes, SMT DEF Kids

\* Every write to a file is one of a line's states.
LEMMA Writes ==
  ASSUME TypeOK, NEW f \in files, DirectionStore(f) \/ \E v \in {0, 1, 2} : ValueStore(f, v)
  PROVE  \E new \in Lines : Store(f, new)
<1>1. Low \in Lines /\ [dir |-> "in", level |-> 0] \in Lines
  BY DEF Low, Lines
<1>2. line[f[1]] \in Lines
  BY Handle, SMT DEF TypeOK
<1>3. ASSUME NEW v \in {0, 1, 2} PROVE [line[f[1]] EXCEPT !.level = Level(v)] \in Lines
  BY <1>2, SMT DEF Lines, Level
<1> QED BY <1>1, <1>2, <1>3, Zenon DEF DirectionStore, ValueStore

LEMMA InitInv == Init => IInv
<1> SUFFICES ASSUME Init PROVE IInv
  OBVIOUS
<1>1. TypeOK
  BY Sizes, SMT DEF Init, TypeOK, Kids, Handles, Lines
<1>2. Bound /\ Driven /\ Kept /\ Filled
  BY SMT DEF Init, Bound, Driven, DarkUntilWritten, Kept, Filled
<1> QED BY <1>1, <1>2 DEF IInv
----------------------------------------------------------------------------
\* The steps of init and exit change the module's variables only, and those of
\* the loop when no driver is bound.
Loading == CreateClass \/ RegisterDriver \/ Unload \/ DestroyClass

LEMMA LoadingLeaves ==
  ASSUME TypeOK, Loading
  PROVE  /\ UNCHANGED <<children, enabled, drv, data, files, line, written, binds>>
         /\ faults' = faults \/ Fault
         /\ UNCHANGED loop \/ (/\ drv = "unbound" /\ todo' = {} /\ i' = 1
                               /\ count_of_devices' = 0 /\ dev' = <<>>)
<1> USE DEF NoFault, loop, node
<1>1. CASE CreateClass
  BY <1>1, Zenon DEF CreateClass
<1>2. CASE RegisterDriver
  BY <1>2, Zenon DEF RegisterDriver
<1>3. CASE Unload
  BY <1>3, Zenon DEF Unload
<1>4. CASE DestroyClass
  BY <1>4, Zenon DEF DestroyClass
<1> QED BY <1>1, <1>2, <1>3, <1>4 DEF Loading

\* What they do to the module's variables.
LEMMA LoadingMoves ==
  ASSUME TypeOK, Bound, Loading
  PROVE  /\ mod' \in {"absent", "class", "live", "idle", "leaving"}
         /\ loads' \in 0 .. MaxLoads
         /\ before' = before \/ (before' = binds /\ drv = "unbound")
         /\ mod' \in {"absent", "class", "idle"} => drv = "unbound"
<1> USE Sizes
<1>1. CASE CreateClass
  BY <1>1, SMT DEF CreateClass, TypeOK, Bound
<1>2. CASE RegisterDriver
  BY <1>2, SMT DEF RegisterDriver, TypeOK, Bound
<1>3. CASE Unload
  BY <1>3, SMT DEF Unload, TypeOK, Bound
<1>4. CASE DestroyClass
  BY <1>4, SMT DEF DestroyClass, TypeOK, Bound
<1> QED BY <1>1, <1>2, <1>3, <1>4 DEF Loading
----------------------------------------------------------------------------
LEMMA StepType == TypeOK /\ Bound /\ [Next]_vars => TypeOK'
<1> SUFFICES ASSUME TypeOK, Bound, [Next]_vars PROVE TypeOK'
  OBVIOUS
<1>s. children \in Nat /\ UNCHANGED <<children, enabled, Kids, Handles>>
  BY Settled
<1> USE Sizes, <1>s DEF module, node
<1>0. Low \in Lines
  BY DEF Low, Lines
<1>1. CASE Probe
  <2>1. /\ drv' = "line" /\ count_of_devices' = children /\ i' = 1 /\ todo' = enabled
        /\ UNCHANGED <<enabled, mod, before, loads, data, files, line, written>>
    BY <1>1, Zenon DEF Probe
  <2>2. binds' \in 0 .. MaxBinds
    BY <1>1, SMT DEF Probe, TypeOK
  <2>3. faults' \in 0 .. MaxFaults
    BY <1>1, SMT DEF Probe, NoFault, Fault, TypeOK
  <2>4. dev' = <<>> \/ dev' \in [Kids -> 0 .. children]
    <3>1. dev' = <<>> \/ dev' = [n \in Kids |-> 0]
      BY <1>1, Zenon DEF Probe
    <3>2. 0 \in 0 .. children
      BY SMT
    <3> QED BY <3>1, <3>2, Zenon
  <2>5. 1 \in 1 .. children + 1
    BY SMT
  <2> QED BY <2>1, <2>2, <2>3, <2>4, <2>5, Zenon DEF TypeOK
<1>2. CASE ProbeDone
  BY <1>2, SMT DEF ProbeDone, TypeOK, loop
<1>3. ASSUME NEW c \in enabled, SetUpLine(c) PROVE TypeOK'
  <2>1. <<c, binds>> \in Handles /\ c \in Kids
    BY <1>3, SMT DEF SetUpLine, TypeOK, Handles, Kids
  <2> QED BY <1>0, <1>3, <2>1, SMT DEF SetUpLine, NoFault, Fault, ProbeFails, DriveLow, TypeOK, loop
<1>4. ASSUME NEW c \in enabled, CreateDevice(c) PROVE TypeOK'
  <2>1. <<c, binds>> \in Handles /\ c \in Kids
    BY <1>4, SMT DEF CreateDevice, TypeOK, Handles, Kids
  <2>2. CASE i \in DOMAIN dev /\ StoreDevice(c)
    <3>1. i + 1 \in 1 .. children + 1 /\ dev' \in [Kids -> 0 .. children] /\ i' = i + 1
      BY <2>1, <2>2, Slot, SMT DEF StoreDevice, Kids
    <3> QED BY <1>4, <2>1, <3>1, SMT DEF CreateDevice, NoFault, Fault, ProbeFails, TypeOK, loop
  <2>3. CASE ~(i \in DOMAIN dev /\ StoreDevice(c))
    BY <1>4, <2>1, <2>3, SMT DEF CreateDevice, NoFault, Fault, ProbeFails, TypeOK, loop
  <2> QED BY <2>2, <2>3
<1>5. CASE Remove
  BY <1>5, SMT DEF Remove, TypeOK
<1>6. CASE Unregister
  BY <1>6, SMT DEF Unregister, Left, TypeOK, Kids
<1>7. CASE Removed
  BY <1>7, SMT DEF Removed, TypeOK, loop
<1>8. ASSUME NEW f \in files, NEW new \in Lines, Store(f, new) PROVE TypeOK'
  <2>1. f \in Handles /\ f[1] \in Kids
    BY <1>8, Handle, SMT DEF TypeOK
  <2> QED BY <1>8, <2>1, SMT DEF Store, TypeOK, loop
<1>9. CASE UNCHANGED vars
  BY <1>9, SMT DEF vars, TypeOK
<1>10. CASE Loading
  <2>1. binds' = binds /\ before' \in 0 .. MaxBinds /\ faults' \in 0 .. MaxFaults
    BY <1>10, LoadingLeaves, LoadingMoves, SMT DEF TypeOK, Fault
  <2>2. 1 \in 1 .. children + 1
    BY SMT
  <2>3. /\ todo' \subseteq enabled' /\ i' \in 1 .. children + 1
        /\ count_of_devices' \in {0, children}
        /\ dev' = <<>> \/ dev' \in [Kids -> 0 .. children]
    BY <1>10, <2>2, LoadingLeaves, Zenon DEF TypeOK, loop
  <2> QED BY <1>10, <2>1, <2>3, LoadingLeaves, LoadingMoves, Zenon DEF TypeOK
<1>11. CASE ProbeEmpty
  BY <1>11, SMT DEF ProbeEmpty, TypeOK
<1> QED
  BY <1>1, <1>2, <1>3, <1>4, <1>5, <1>6, <1>7, <1>8, <1>9, <1>10, <1>11, Writes, Zenon
  DEF Next, Loading
----------------------------------------------------------------------------
LEMMA StepBound == TypeOK /\ Bound /\ [Next]_vars => Bound'
<1> SUFFICES ASSUME TypeOK, Bound, [Next]_vars PROVE Bound'
  OBVIOUS
<1>s. children \in Nat /\ UNCHANGED <<children, enabled, Kids, Handles>>
  BY Settled
<1> USE Sizes, <1>s DEF Bound, module, node
<1>0. binds \in Nat /\ before \in Nat /\ \A f \in files : f = <<f[1], f[2]>> /\ f[2] \in Nat
  BY Handle, SMT DEF TypeOK
<1>1. CASE Probe
  BY <1>0, <1>1, SMT DEF Probe, NoFault, Fault
<1>2. CASE ProbeDone
  BY <1>2, SMT DEF ProbeDone, loop
<1>3. ASSUME NEW c \in enabled, SetUpLine(c) PROVE Bound'
  BY <1>3, SMT DEF SetUpLine, NoFault, Fault, ProbeFails, loop
<1>4. ASSUME NEW c \in enabled, CreateDevice(c) PROVE Bound'
  <2>1. CASE ProbeFails
    BY <1>4, <2>1, SMT DEF CreateDevice, ProbeFails, loop
  <2>2. CASE ~ProbeFails
    <3>1. /\ \A f \in files : f[1] # c
          /\ files' = files \cup {<<c, binds>>} /\ data' = data /\ binds' = binds
          /\ count_of_devices' = count_of_devices /\ drv = "create"
          /\ mod' = mod /\ before' = before
          /\ \/ drv' = "line" /\ todo' = todo \ {c}
             \/ drv' = "oops"
      BY <1>4, <2>2, SMT DEF CreateDevice, NameTaken, loop
    <3>2. \A f, g \in files' : f[1] = g[1] => f = g
      BY <3>1, SMT
    <3>3. \A f \in files' : f[2] <= binds'
      BY <1>0, <3>1, SMT
    <3>4. drv' \in {"line", "create"} => \A d \in todo' : <<d, binds'>> \notin files'
      BY <3>1, SMT
    <3> QED BY <3>1, <3>2, <3>3, <3>4, SMT
  <2> QED BY <2>1, <2>2
<1>5. CASE Remove
  BY <1>5, SMT DEF Remove
<1>6. CASE Unregister
  BY <1>6, SMT DEF Unregister
<1>7. CASE Removed
  BY <1>7, SMT DEF Removed, loop
<1>8. ASSUME NEW f \in files, NEW new \in Lines, Store(f, new) PROVE Bound'
  BY <1>8, SMT DEF Store, loop
<1>9. CASE UNCHANGED vars
  BY <1>9, SMT DEF vars
<1>10. CASE Loading
  <2>1. UNCHANGED <<drv, data, files, binds>>
    BY <1>10, LoadingLeaves, Zenon
  <2>2. drv # "unbound" => UNCHANGED <<todo, count_of_devices>>
    BY <1>10, LoadingLeaves, Zenon DEF loop
  <2> QED BY <1>0, <1>10, <2>1, <2>2, LoadingMoves, SMT DEF TypeOK
<1>11. CASE ProbeEmpty
  BY <1>0, <1>11, SMT DEF ProbeEmpty
<1> QED
  BY <1>1, <1>2, <1>3, <1>4, <1>5, <1>6, <1>7, <1>8, <1>9, <1>10, <1>11, Writes, Zenon
  DEF Next, Loading

LEMMA StepDriven == TypeOK /\ Bound /\ Driven /\ [Next]_vars => Driven'
<1> SUFFICES ASSUME TypeOK, Bound, Driven, [Next]_vars PROVE Driven'
  OBVIOUS
<1>s. children \in Nat /\ UNCHANGED <<children, enabled, Kids, Handles>>
  BY Settled
<1> USE <1>s DEF Driven, DarkUntilWritten, module, node
<1>0. /\ \A f \in files : f[1] \in Kids
      /\ line \in [Kids -> Lines] /\ todo \subseteq Kids
  BY Handle, SMT DEF TypeOK, Kids
<1>1. CASE Probe
  BY <1>1, SMT DEF Probe
<1>2. CASE ProbeDone
  BY <1>2, SMT DEF ProbeDone, loop
<1>3. ASSUME NEW c \in enabled, SetUpLine(c) PROVE Driven'
  <2>1. CASE ProbeFails
    BY <1>3, <2>1, SMT DEF SetUpLine, ProbeFails, loop
  <2>2. CASE ~ProbeFails
    <3>1. /\ Current(c) /\ line' = [line EXCEPT ![c] = Low]
          /\ UNCHANGED <<todo, files, written>>
      BY <1>3, <2>2, SMT DEF SetUpLine, DriveLow, loop
    <3>2. \A d \in todo' : Current(d)' => d = c
      BY <3>1, OneCurrent, Zenon DEF Current
    <3>3. c \in Kids /\ \A d \in Kids : line'[d] = IF d = c THEN Low ELSE line[d]
      BY <1>0, <3>1, SMT DEF Current
    <3>4. \A f \in files' \ written' : line'[f[1]] = Low
      BY <1>0, <3>1, <3>3, Zenon
    <3> QED BY <3>2, <3>3, <3>4, Zenon
  <2> QED BY <2>1, <2>2
<1>4. ASSUME NEW c \in enabled, CreateDevice(c) PROVE Driven'
  <2>1. CASE ProbeFails
    BY <1>4, <2>1, SMT DEF CreateDevice, ProbeFails, loop
  <2>2. CASE ~ProbeFails
    <3>1. /\ line[c] = Low /\ line' = line /\ drv' # "create"
          /\ files' = files \cup {<<c, binds>>} /\ written' = written \ {<<c, binds>>}
      BY <1>4, <2>2, SMT DEF CreateDevice, Current
    <3>2. \A f \in files' \ written' : f \in files \ written \/ f = <<c, binds>>
      BY <3>1, SMT
    <3>3. <<c, binds>>[1] = c
      OBVIOUS
    <3> QED BY <3>1, <3>2, <3>3, Zenon
  <2> QED BY <2>1, <2>2
<1>5. CASE Remove
  BY <1>5, SMT DEF Remove
<1>6. CASE Unregister
  BY <1>6, SMT DEF Unregister
<1>7. CASE Removed
  BY <1>7, SMT DEF Removed, loop
<1>8. ASSUME NEW f \in files, NEW new \in Lines, Store(f, new) PROVE Driven'
  <2>1. /\ f \in files /\ f \in data
        /\ line' = [line EXCEPT ![f[1]] = new] /\ written' = written \cup {f}
        /\ UNCHANGED <<drv, todo, files>>
    BY <1>8, SMT DEF Store, loop
  <2>2. f = <<f[1], binds>>
    BY <2>1, Handle, SMT DEF TypeOK, Bound
  <2>3. \A d \in Kids : d # f[1] => line'[d] = line[d]
    BY <1>0, <2>1, SMT
  <2>4. drv = "create" => f[1] \notin todo
    BY <2>1, <2>2, SMT DEF Bound
  <2>5. \A g \in files' \ written' : g[1] # f[1]
    BY <2>1, SMT DEF Bound
  <2>6. \A g \in files' \ written' : line'[g[1]] = Low
    BY <1>0, <2>1, <2>3, <2>5, SMT
  <2>7. drv' = "create" => \A d \in todo' : Current(d)' => line'[d] = Low
    BY <1>0, <2>1, <2>3, <2>4, SMT DEF Current
  <2> QED BY <2>6, <2>7, Zenon
<1>9. CASE UNCHANGED vars
  BY <1>9, SMT DEF vars, Current
<1>10. CASE Loading
  BY <1>10, LoadingLeaves, SMT DEF loop, Current
<1>11. CASE ProbeEmpty
  BY <1>11, SMT DEF ProbeEmpty, Current
<1> QED
  BY <1>1, <1>2, <1>3, <1>4, <1>5, <1>6, <1>7, <1>8, <1>9, <1>10, <1>11, Writes, Zenon
  DEF Next, Loading
----------------------------------------------------------------------------
\* A step after which no step of probe has failed is one without a failure.
LEMMA NoFailure ==
  ASSUME TypeOK, [Next]_vars, faults' = 0
  PROVE  faults = 0 /\ ~Fault
<1>1. faults \in Nat
  BY Sizes, SMT DEF TypeOK
<1>2. faults' = faults \/ Fault
  BY Zenon DEF Next, vars, ProbeEmpty, Probe, ProbeDone, SetUpLine, CreateDevice,
     NoFault, Remove, Unregister, Removed, DirectionStore, ValueStore, Store,
     CreateClass, RegisterDriver, Unload, DestroyClass
<1>3. ~Fault
  BY <1>1, SMT DEF Fault
<1> QED BY <1>2, <1>3

\* A child probe is at has no device yet, so that its name is free.
LEMMA NameFree ==
  ASSUME TypeOK, Bound, Kept, drv \in {"line", "create"}, NEW c \in todo
  PROVE  ~NameTaken(c)
<1> SUFFICES ASSUME NEW f \in files, f[1] = c \/ f[2] <= before PROVE FALSE
  BY DEF NameTaken
<1>1. f = <<f[1], binds>> /\ before < binds
  BY Handle, SMT DEF TypeOK, Bound, Kept
<1>2. f[1] = c
  BY <1>1, Sizes, SMT DEF TypeOK
<1> QED BY <1>1, <1>2 DEF Bound

LEMMA StepKept ==
  ASSUME TypeOK, Bound, Kept, [Next]_vars, faults = 0, ~Fault
  PROVE  Kept'
<1>s. children \in Nat /\ UNCHANGED <<children, enabled, Kids, Handles>>
  BY Settled
<1> USE Sizes, <1>s DEF module, node
<1>1. CASE Probe
  BY <1>1, SMT DEF Probe, NoFault, Kept, Listed, Kids
<1>2. CASE ProbeDone
  <2>1. i - 1 \in 0 .. children /\ Listed(1, i - 1)
        /\ UNCHANGED <<dev, files, data>> /\ drv' = "bound"
    BY <1>2, SMT DEF ProbeDone, loop, TypeOK, Kept
  <2>2. Listed(1, children)'
    BY <2>1, SMT DEF Listed
  <2> QED BY <2>1, <2>2, SMT DEF Kept
<1>3. ASSUME NEW c \in enabled, SetUpLine(c) PROVE Kept'
  <2>1. /\ Current(c) /\ drv = "line" /\ drv' = "create"
        /\ data' = data \cup {<<c, binds>>}
        /\ UNCHANGED <<todo, i, dev, files, binds>>
    BY <1>3, SMT DEF SetUpLine, loop
  <2>2. \A d \in todo' : Current(d)' => d = c
    BY <2>1, OneCurrent, Zenon DEF Current
  <2>3. Listed(1, i - 1)'
    BY <2>1, SMT DEF Kept, Listed
  <2> QED BY <2>1, <2>2, <2>3, SMT DEF Kept
<1>4. ASSUME NEW c \in enabled, CreateDevice(c) PROVE Kept'
  <2>1. /\ drv = "create" /\ ~NameTaken(c) /\ files' = files \cup {<<c, binds>>}
        /\ <<c, binds>> \in data /\ data' = data /\ c \in Kids
        /\ \/ i \in DOMAIN dev /\ StoreDevice(c) /\ drv' = "line"
           \/ drv' = "oops"
    <3>1. drv = "create" /\ Current(c) /\ c \in todo /\ c \in Kids
      BY <1>4, Zenon DEF CreateDevice, Current, TypeOK
    <3>2. ~NameTaken(c) /\ <<c, binds>> \in data
      BY <3>1, NameFree, Zenon DEF Kept
    <3> QED BY <1>4, <3>1, <3>2, Zenon DEF CreateDevice
  <2>2. files' \subseteq data'
    BY <2>1, SMT DEF Kept
  <2>3. CASE i \in DOMAIN dev /\ StoreDevice(c) /\ drv' = "line"
    <3>1. /\ i \in Kids /\ dev \in [Kids -> 0 .. children]
          /\ dev' = [dev EXCEPT ![i] = c] /\ dev' \in [Kids -> 0 .. children] /\ i' = i + 1
      BY <2>1, <2>3, Slot, Zenon DEF StoreDevice
    <3>2. ASSUME NEW f \in files' PROVE \E k \in 1 .. i' - 1 : dev'[k] = f[1]
      <4>1. CASE f \in files
        <5>1. PICK k \in 1 .. i - 1 : dev[k] = f[1]
          BY <2>1, <4>1, SMT DEF Kept, Listed
        <5>2. k \in 1 .. i' - 1 /\ dev'[k] = f[1]
          BY <3>1, <5>1, SMT DEF Kids
        <5> QED BY <5>2
      <4>2. CASE f = <<c, binds>>
        <5>1. i \in 1 .. i' - 1 /\ dev'[i] = c /\ f[1] = c
          BY <3>1, <4>2, SMT DEF Kids
        <5> QED BY <5>1
      <4> QED BY <2>1, <3>2, <4>1, <4>2
    <3>3. Listed(1, i - 1)'
      BY <3>2, Zenon DEF Listed
    <3> QED BY <2>2, <2>3, <3>1, <3>3, Zenon DEF Kept
  <2>4. CASE drv' = "oops"
    BY <2>2, <2>4, Zenon DEF Kept
  <2> QED BY <2>1, <2>3, <2>4
<1>5. CASE Remove
  <2>1. /\ Listed(1, children) /\ i' = 1 /\ drv' = "removing"
        /\ UNCHANGED <<dev, files, data>>
    BY <1>5, SMT DEF Remove, Kept
  <2>2. Listed(i, children)'
    BY <2>1, SMT DEF Listed
  <2> QED BY <2>1, <2>2, SMT DEF Kept
<1>6. CASE Unregister
  <2>1. drv = "removing" /\ data' = data /\ dev' = dev /\ files' \subseteq files
    BY <1>6, SMT DEF Unregister
  <2>2. CASE drv' = "oops"
    BY <2>1, <2>2, SMT DEF Kept
  <2>3. CASE drv' # "oops"
    <3>1. /\ files' = files \ {<<dev[i], binds>>} /\ i' = i + 1 /\ drv' = "removing"
      BY <1>6, <2>3, SMT DEF Unregister
    <3>2. ASSUME NEW f \in files' PROVE \E k \in i' .. children : dev'[k] = f[1]
      <4>1. f \in files /\ f # <<dev[i], binds>> /\ f = <<f[1], binds>>
        BY <3>1, Handle, SMT DEF TypeOK, Bound, Kept
      <4>2. PICK k \in i .. children : dev[k] = f[1]
        BY <2>1, <4>1, SMT DEF Kept, Listed
      <4>3. k # i
        BY <4>1, <4>2
      <4> QED BY <2>1, <3>1, <4>2, <4>3, SMT DEF TypeOK
    <3>3. Listed(i, children)'
      BY <3>2, Zenon DEF Listed
    <3> QED BY <2>1, <3>1, <3>3, SMT DEF Kept
  <2> QED BY <2>2, <2>3
<1>7. CASE Removed
  <2>1. files = {}
    BY <1>7, SMT DEF Removed, Left, Bound, Kept, Listed, TypeOK
  <2> QED BY <1>7, <2>1, SMT DEF Removed, loop, Kept
<1>8. ASSUME NEW f \in files, NEW new \in Lines, Store(f, new) PROVE Kept'
  BY <1>8, SMT DEF Store, loop, Kept, Listed, Current
<1>9. CASE UNCHANGED vars
  BY <1>9, SMT DEF vars, Kept, Listed, Current
<1>10. CASE Loading
  BY <1>10, LoadingLeaves, SMT DEF loop, Kept, Listed, Current
<1>11. CASE ProbeEmpty
  BY <1>11, SMT DEF ProbeEmpty, Kept
<1> QED
  BY <1>1, <1>2, <1>3, <1>4, <1>5, <1>6, <1>7, <1>8, <1>9, <1>10, <1>11, Writes, Zenon
  DEF Next, Loading

LEMMA StepFilled ==
  ASSUME TypeOK, Bound, Kept, Filled, [Next]_vars, enabled = Kids, ~Fault
  PROVE  Filled'
<1>s. children \in Nat /\ UNCHANGED <<children, enabled, Kids, Handles>>
  BY Settled
<1> USE Sizes, <1>s DEF module, node
<1>1. CASE Probe
  BY <1>1, SMT DEF Probe, NoFault, Filled, Solid, Kids
<1>2. CASE ProbeDone
  <2>1. i = children + 1 /\ Solid(children) /\ drv' = "bound" /\ UNCHANGED dev
    BY <1>2, SMT DEF ProbeDone, loop, Filled, TypeOK
  <2> QED BY <2>1, SMT DEF Filled, Solid
<1>3. ASSUME NEW c \in enabled, SetUpLine(c) PROVE Filled'
  BY <1>3, SMT DEF SetUpLine, loop, Filled, Solid
<1>4. ASSUME NEW c \in enabled, CreateDevice(c) PROVE Filled'
  <2>1. /\ drv = "create" /\ c = i /\ i \in Kids /\ todo = i .. children /\ Solid(i - 1)
    BY <1>4, SMT DEF CreateDevice, Current, Filled, TypeOK, Kids
  <2>2. i \in DOMAIN dev
    BY <2>1, Zenon DEF Solid
  <2>3. StoreDevice(c) /\ todo' = todo \ {c} /\ drv' = "line"
    <3>1. c \in todo
      BY <2>1, SMT DEF Kids
    <3>2. ~NameTaken(c)
      BY <2>1, <3>1, NameFree
    <3> QED BY <1>4, <2>1, <2>2, <3>2, Zenon DEF CreateDevice
  <2>4. todo' = i' .. children
    BY <2>1, <2>3, SMT DEF StoreDevice, Kids
  <2>5. Solid(i - 1)'
    BY <2>1, <2>3, SMT DEF StoreDevice, Solid, Kids
  <2> QED BY <2>3, <2>4, <2>5, Zenon DEF Filled
<1>5. CASE Remove
  BY <1>5, SMT DEF Remove, Filled, Solid
<1>6. CASE Unregister
  <2>1. i \in DOMAIN dev /\ dev[i] # 0 /\ drv = "removing" /\ Solid(children)
    BY <1>6, SMT DEF Unregister, Left, Filled, Solid, Bound, TypeOK, Kids
  <2>2. UNCHANGED <<drv, dev>>
    BY <1>6, <2>1, SMT DEF Unregister
  <2> QED BY <2>1, <2>2, SMT DEF Filled, Solid
<1>7. CASE Removed
  BY <1>7, SMT DEF Removed, Filled
<1>8. ASSUME NEW f \in files, NEW new \in Lines, Store(f, new) PROVE Filled'
  BY <1>8, SMT DEF Store, loop, Filled, Solid
<1>9. CASE UNCHANGED vars
  BY <1>9, SMT DEF vars, Filled, Solid
<1>10. CASE Loading
  BY <1>10, LoadingLeaves, SMT DEF loop, Filled, Solid
<1>11. CASE ProbeEmpty
  BY <1>11, SMT DEF ProbeEmpty, Filled
<1> QED
  BY <1>1, <1>2, <1>3, <1>4, <1>5, <1>6, <1>7, <1>8, <1>9, <1>10, <1>11, Writes, Zenon
  DEF Next, Loading

LEMMA StepInv == IInv /\ [Next]_vars => IInv'
<1> SUFFICES ASSUME IInv, [Next]_vars PROVE IInv'
  OBVIOUS
<1>1. TypeOK' /\ Bound' /\ Driven'
  BY StepType, StepBound, StepDriven DEF IInv
<1>2. ASSUME faults' = 0 PROVE Kept'
  <2>1. faults = 0 /\ ~Fault
    BY <1>2, NoFailure DEF IInv
  <2> QED BY <2>1, StepKept DEF IInv
<1>3. ASSUME faults' = 0, enabled' = Kids PROVE Filled'
  <2>1. faults = 0 /\ ~Fault /\ enabled = Kids
    BY <1>3, NoFailure, NodeStays DEF IInv
  <2> QED BY <2>1, StepFilled DEF IInv
<1>4. Kids' = Kids
  BY Settled DEF IInv
<1> QED BY <1>1, <1>2, <1>3, <1>4 DEF IInv

\* The variables keep their types, however often the module is loaded.
THEOREM TypeCorrect == Spec => []TypeOK
<1>1. IInv => TypeOK
  BY DEF IInv
<1> QED BY InitInv, StepInv, <1>1, PTL DEF Spec

\* While no step of probe has failed, no call on a file meets freed data: the
\* files go before the data do (led_control.c:207-215, 227-231).
THEOREM FilesSafe == Spec => []FilesHaveData
<1>1. IInv => FilesHaveData
  BY DEF IInv, Kept, FilesHaveData
<1> QED BY InitInv, StepInv, <1>1, PTL DEF Spec

\* Also after failures, an LED whose files nobody has written is dark
\* (led_control.c:200, 207).
THEOREM Dark == Spec => []DarkUntilWritten
<1>1. IInv => DarkUntilWritten
  BY DEF IInv, Driven
<1> QED BY InitInv, StepInv, <1>1, PTL DEF Spec

\* A probe of a node that has children fails only if a step has failed, now or
\* before: remove leaves no name behind (led_control.c:157, 207, 228).
THEOREM CanBindAgain == Spec => BindsAgain
<1> DEFINE Again == (drv \in {"line", "create"} \/ binds' # binds) /\ drv' = "unbound" =>
                      faults' # 0 \/ children = 0
<1>1. IInv /\ [Next]_vars => [Again]_vars
  <2> SUFFICES ASSUME IInv, Next, drv \in {"line", "create"} \/ binds' # binds,
                      drv' = "unbound", faults' = 0, children # 0
               PROVE  FALSE
    OBVIOUS
  <2>1. TypeOK /\ Bound /\ Kept /\ ~Fault
    BY NoFailure DEF IInv
  <2>2. \E c \in enabled : SetUpLine(c) \/ CreateDevice(c)
    <3>1. ~ProbeEmpty /\ ~Probe /\ ~ProbeDone /\ ~Remove /\ ~Unregister /\ ~Removed
      BY <2>1, SMT DEF ProbeEmpty, Probe, ProbeDone, Remove, Unregister, Removed
    <3>2. ~Loading
      BY LoadingLeaves, <2>1, SMT
    <3>3. ASSUME NEW f \in files, NEW new \in Lines, Store(f, new) PROVE FALSE
      BY <3>3, SMT DEF Store
    <3> QED BY <2>1, <3>1, <3>2, <3>3, Writes, Zenon DEF Next, Loading
  <2>3. PICK c \in enabled : SetUpLine(c) \/ CreateDevice(c)
    BY <2>2
  <2>4. CreateDevice(c) /\ NameTaken(c) /\ c \in todo
    BY <2>1, <2>3, SMT DEF SetUpLine, CreateDevice, Current
  <2>5. drv \in {"line", "create"}
    BY <2>4, Zenon DEF CreateDevice
  <2> QED BY <2>1, <2>4, <2>5, NameFree
<1> QED BY InitInv, StepInv, <1>1, PTL DEF Spec, BindsAgain

\* With every child enabled, remove meets a NULL of dev[] only after a step has
\* failed: the loops of probe and remove visit the same entries
\* (led_control.c:156, 170, 228).
THEOREM OopsBlamed == Spec => []OopsNeedsDisabled
<1>1. IInv => OopsNeedsDisabled
  <2>1. TypeOK => faults \in Nat
    BY Sizes, SMT DEF TypeOK
  <2> QED BY <2>1, SMT DEF IInv, Filled, OopsNeedsDisabled
<1> QED BY InitInv, StepInv, <1>1, PTL DEF Spec
=============================================================================
