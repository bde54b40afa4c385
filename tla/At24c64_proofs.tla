-------------------------- MODULE At24c64_proofs ---------------------------
(***************************************************************************)
(* Proofs about At24c64 for every size of file, page and chip, any number  *)
(* of users and open files, and any number of failed transfers.            *)
(*                                                                         *)
(* TypeCorrect and OutsideSafe rest on InFile: a call never reaches past   *)
(* the end of the file, because its count was clamped against the very     *)
(* copy of the position it goes on to use.  WritesStored is about the one  *)
(* transfer of a write: only it moves data.  ImplementsByteFile adds where *)
(* the chip's pointer is between the two transfers of a read.              *)
(***************************************************************************)
EXTENDS At24c64, SequenceTheorems, TLAPS

\* What a position and a count copied into a call satisfy from then on.
InFile == \A u \in Users : call[u].pos + call[u].n <= LAST_BYTE

TypeInv == TypeOK /\ InFile
----------------------------------------------------------------------------
LEMMA ModBound ==
  ASSUME NEW m \in Nat, NEW p \in Nat \ {0}
  PROVE  (m % p) \in 0 .. m /\ (m % p) < p
BY SMT

\* A page write never reaches past its last byte; it may fall back to the
\* start of the page.
LEMMA PageCellBound ==
  ASSUME NEW a \in Nat, NEW i \in Nat
  PROVE  PageCell(a, i) \in 0 .. a + i
<1> DEFINE x == a % PAGE_SIZE
           y == (x + i) % PAGE_SIZE
<1>1. PAGE_SIZE \in Nat \ {0}
  BY ChipAssumption
<1>2. x \in 0 .. a
  BY <1>1, ModBound, Zenon
<1>3. x + i \in Nat
  BY <1>2
<1>4. y \in 0 .. x + i
  BY <1>1, <1>3, ModBound, Zenon
<1>5. PageCell(a, i) = (a - x) + y
  BY DEF PageCell
<1> HIDE DEF x, y
<1> QED BY <1>2, <1>4, <1>5

LEMMA TransferredBound ==
  ASSUME NEW n \in Nat
  PROVE  Transferred(n) \in 0 .. n
<1>1. COUNT_MOD \in Nat \ {0}
  BY ChipAssumption
<1>2. (n % COUNT_MOD) \in 0 .. n
  BY <1>1, ModBound, Zenon
<1> DEFINE r == n % COUNT_MOD
<1>3. Transferred(n) = IF n = 1 THEN 1 ELSE r
  BY DEF Transferred
<1>4. r \in 0 .. n
  BY <1>2
<1> HIDE DEF r
<1> QED BY <1>3, <1>4

LEMMA ClampBound ==
  ASSUME NEW count \in Nat, NEW pos \in 0 .. LAST_BYTE
  PROVE  Clamp(count, pos) \in 0 .. LAST_BYTE /\ Clamp(count, pos) + pos <= LAST_BYTE
BY ChipAssumption DEF Clamp

\* A function on 1 .. n is a sequence.
LEMMA BufferTyped ==
  ASSUME NEW n \in Nat, NEW f \in [1 .. n -> Values]
  PROVE  f \in Seq(Values)
BY SeqDef

\* The record of a call is typed field by field.
LEMMA MoveTyped ==
  ASSUME NEW t \in CallsOf, NEW x \in {"idle", "send", "address", "receive", "return", "fault", "oops"}
  PROVE  /\ [t EXCEPT !.at = x] \in CallsOf
         /\ [t EXCEPT !.at = x].pos = t.pos /\ [t EXCEPT !.at = x].n = t.n
BY DEF CallsOf

LEMMA RestingTyped ==
  Resting \in CallsOf /\ Resting.pos = 0 /\ Resting.n = 0 /\ Resting.at = "idle"
<1>1. (CHOOSE f \in Files : TRUE) \in Files
  BY ChipAssumption, Zenon
<1>2. <<>> \in Seq(Values)
  OBVIOUS
<1>3. 0 \in 0 .. LAST_BYTE /\ 0 \in Values
  BY ChipAssumption
<1> DEFINE g == CHOOSE f \in Files : TRUE
<1>4. g \in Files
  BY <1>1
<1>5. Resting = [ at |-> "idle", op |-> "error", file |-> g, pos |-> 0, n |-> 0,
                  byte |-> 0, data |-> <<>> ]
  BY DEF Resting
<1> HIDE DEF g
<1> QED BY <1>2, <1>3, <1>4, <1>5 DEF CallsOf

\* A step that changes one call, to a record still typed and in the file.
LEMMA CallStep ==
  ASSUME TypeInv, NEW u \in Users, NEW r \in CallsOf, r.pos + r.n <= LAST_BYTE,
         call' = [call EXCEPT ![u] = r]
  PROVE  call' \in [Users -> CallsOf] /\ InFile'
BY DEF TypeInv, TypeOK, InFile

LEMMA StoreTyped ==
  ASSUME mem \in [Cells -> Values], NEW a, NEW n, NEW v \in Values
  PROVE  StorePage(a, n, v) \in [Cells -> Values]
BY DEF StorePage
----------------------------------------------------------------------------
LEMMA InitType == Init => TypeInv
<1> SUFFICES ASSUME Init PROVE TypeInv
  OBVIOUS
<1>1. 0 \in 0 .. LAST_BYTE /\ 0 \in Cells /\ 0 \in 0 .. MaxErrors
  BY ChipAssumption DEF Cells
<1>2. fpos \in [Files -> 0 .. LAST_BYTE]
  BY <1>1 DEF Init
<1>3. call \in [Users -> CallsOf]
  BY RestingTyped DEF Init
<1>4. TypeOK
  BY <1>1, <1>2, <1>3 DEF Init, TypeOK
<1>5. InFile
  <2> SUFFICES ASSUME NEW u \in Users PROVE call[u].pos + call[u].n <= LAST_BYTE
    BY DEF InFile
  <2>1. call[u] = Resting
    BY DEF Init
  <2> QED BY <2>1, RestingTyped, ChipAssumption
<1> QED BY <1>4, <1>5 DEF TypeInv

LEMMA BeginType ==
  ASSUME TypeInv, NEW u \in Users, NEW f \in Files, NEW op \in {"write", "read"},
         NEW count \in Counts, NEW v \in Values, Begin(u, f, op, count, v)
  PROVE  TypeInv'
<1> DEFINE n == Clamp(count, fpos[f])
           at == IF n = 0 THEN "return" ELSE IF op = "write" THEN "send" ELSE "address"
           r == [ at |-> at, op |-> op, file |-> f, pos |-> fpos[f], n |-> n,
                  byte |-> v, data |-> <<>> ]
<1>1. fpos[f] \in 0 .. LAST_BYTE
  BY DEF TypeInv, TypeOK
<1>2. n \in 0 .. LAST_BYTE /\ n + fpos[f] <= LAST_BYTE
  <2>1. count \in Nat
    BY ChipAssumption
  <2> QED BY <1>1, <2>1, ClampBound, Zenon
<1>3. call' = [call EXCEPT ![u] = r]
  BY DEF Begin
<1>4. at \in {"idle", "send", "address", "receive", "return", "fault"}
  BY Zenon
<1>5. <<>> \in Seq(Values)
  OBVIOUS
<1> HIDE DEF n, at
<1>6. r \in CallsOf
  BY <1>1, <1>2, <1>4, <1>5 DEF CallsOf
<1>7. r.pos + r.n <= LAST_BYTE
  BY <1>1, <1>2
<1> HIDE DEF r
<1>8. call' \in [Users -> CallsOf] /\ InFile'
  BY <1>3, <1>6, <1>7, CallStep
<1> QED BY <1>8 DEF TypeInv, TypeOK, Begin, chip

\* The chip keeps its type when it is left alone or a transfer fails.
LEMMA UnansweredType ==
  ASSUME TypeInv, Unanswered
  PROVE  /\ mem' \in [Cells -> Values] /\ pointer' \in Cells
         /\ busy' \in BOOLEAN /\ errors' \in 0 .. MaxErrors
<1>1. errors \in 0 .. MaxErrors /\ MaxErrors \in Nat
  BY ChipAssumption DEF TypeInv, TypeOK
<1>2. CASE UNCHANGED chip
  BY <1>1, <1>2 DEF TypeInv, TypeOK, chip
<1>3. CASE errors < MaxErrors /\ errors' = errors + 1 /\ UNCHANGED <<mem, pointer, busy>>
  <2>1. errors' \in 0 .. MaxErrors
    BY <1>1, <1>3
  <2> QED BY <1>3, <2>1 DEF TypeInv, TypeOK
<1> QED BY <1>2, <1>3 DEF Unanswered

LEMMA SendDataType ==
  ASSUME TypeInv, NEW u \in Users, SendData(u)
  PROVE  TypeInv'
<1> DEFINE t == call[u]
           n == Transferred(t.n)
<1>1. t \in CallsOf
  BY DEF TypeInv, TypeOK
<1>2. t.pos \in 0 .. LAST_BYTE /\ t.n \in 0 .. LAST_BYTE /\ t.byte \in Values
  BY <1>1 DEF CallsOf
<1>3. t.pos + t.n <= LAST_BYTE
  BY DEF TypeInv, InFile
<1>4. call' = [call EXCEPT ![u] = [t EXCEPT !.at = "return"]]
  BY DEF SendData
<1>5. call' \in [Users -> CallsOf] /\ InFile'
  BY <1>1, <1>3, <1>4, MoveTyped, CallStep
<1>6. n \in 0 .. t.n
  <2>1. t.n \in Nat
    BY <1>2
  <2> QED BY <2>1, TransferredBound
<1>7. /\ mem' \in [Cells -> Values] /\ pointer' \in Cells
      /\ busy' \in BOOLEAN /\ errors' \in 0 .. MaxErrors
  <2>1. CASE /\ mem' = StorePage(t.pos, n, t.byte)
             /\ pointer' = PageCell(t.pos, n)
             /\ busy' = (n > 0)
             /\ UNCHANGED errors
    <3>1. mem' \in [Cells -> Values]
      BY <1>2, <2>1, StoreTyped DEF TypeInv, TypeOK
    <3>2. PageCell(t.pos, n) \in 0 .. t.pos + n
      <4>1. t.pos \in Nat /\ n \in Nat
        BY <1>2, <1>6
      <4> QED BY <4>1, PageCellBound, Zenon
    <3> HIDE DEF n
    <3>3. pointer' \in Cells
      BY <1>2, <1>3, <1>6, <2>1, <3>2, ChipAssumption DEF Cells
    <3>4. busy' \in BOOLEAN
      BY <2>1
    <3> QED BY <2>1, <3>1, <3>3, <3>4 DEF TypeInv, TypeOK
  <2>2. CASE Unanswered
    BY <2>2, UnansweredType
  <2> QED BY <2>1, <2>2 DEF SendData
<1> QED BY <1>5, <1>7 DEF TypeInv, TypeOK, SendData

LEMMA SendAddressType ==
  ASSUME TypeInv, NEW u \in Users, SendAddress(u)
  PROVE  TypeInv'
<1>1. call[u] \in CallsOf
  BY DEF TypeInv, TypeOK
<1>2. call[u].pos \in Cells
  BY <1>1, ChipAssumption DEF CallsOf, Cells
<1>3. call[u].pos + call[u].n <= LAST_BYTE
  BY DEF TypeInv, InFile
<1>4. call' = [call EXCEPT ![u] = [call[u] EXCEPT !.at = "receive"]]
  BY DEF SendAddress
<1>5. call' \in [Users -> CallsOf] /\ InFile'
  BY <1>1, <1>3, <1>4, MoveTyped, CallStep
<1>6. /\ mem' \in [Cells -> Values] /\ pointer' \in Cells
      /\ busy' \in BOOLEAN /\ errors' \in 0 .. MaxErrors
  <2>1. CASE pointer' = call[u].pos /\ UNCHANGED <<mem, busy, errors>>
    BY <1>2, <2>1 DEF TypeInv, TypeOK
  <2>2. CASE Unanswered
    BY <2>2, UnansweredType
  <2> QED BY <2>1, <2>2 DEF SendAddress
<1> QED BY <1>5, <1>6 DEF TypeInv, TypeOK, SendAddress

LEMMA ReceiveType ==
  ASSUME TypeInv, NEW u \in Users, Receive(u)
  PROVE  TypeInv'
<1> DEFINE t == call[u]
           n == Transferred(t.n)
           D(got) == [i \in 1 .. t.n |->
                        IF i <= got THEN mem[(pointer + i - 1) % MEM_SIZE] ELSE 0]
<1>1. t \in CallsOf
  BY DEF TypeInv, TypeOK
<1>2. t.pos \in 0 .. LAST_BYTE /\ t.n \in 0 .. LAST_BYTE
  BY <1>1 DEF CallsOf
<1>3. t.pos + t.n <= LAST_BYTE
  BY DEF TypeInv, InFile
<1>4. n \in 0 .. t.n
  <2>1. t.n \in Nat
    BY <1>2
  <2> QED BY <2>1, TransferredBound
<1>5. MEM_SIZE \in Nat \ {0} /\ pointer \in Nat /\ t.n \in Nat /\ n \in Nat
  BY <1>2, <1>4, ChipAssumption DEF TypeInv, TypeOK, Cells
<1>6. ASSUME NEW k \in Nat
      PROVE  (k % MEM_SIZE) \in Cells
  <2> DEFINE r == k % MEM_SIZE
  <2>1. r \in 0 .. k /\ r < MEM_SIZE
    BY <1>5, ModBound, Zenon
  <2> HIDE DEF r
  <2>2. r \in Cells
    BY <1>5, <2>1 DEF Cells
  <2> QED BY <2>2 DEF r
<1>7. ASSUME NEW got \in Nat
      PROVE  D(got) \in Seq(Values)
  <2>1. ASSUME NEW i \in 1 .. t.n
        PROVE  mem[(pointer + i - 1) % MEM_SIZE] \in Values
    <3>1. pointer + i - 1 \in Nat
      BY <1>5
    <3>2. ((pointer + i - 1) % MEM_SIZE) \in Cells
      BY <1>6, <3>1, Zenon
    <3> QED BY <3>2, Zenon DEF TypeInv, TypeOK
  <2>2. 0 \in Values
    BY ChipAssumption
  <2>3. D(got) \in [1 .. t.n -> Values]
    BY <2>1, <2>2, Zenon
  <2> HIDE DEF D
  <2> QED BY <1>5, <2>3, BufferTyped
<1>8. call' \in [Users -> CallsOf] /\ InFile'
  <2>1. ASSUME NEW next \in {"return", "fault"}, NEW got \in Nat,
               call' = [call EXCEPT ![u] = [@ EXCEPT !.at = next, !.data = D(got)]]
        PROVE  call' \in [Users -> CallsOf] /\ InFile'
    <3> DEFINE d == D(got)
               r == [t EXCEPT !.at = next, !.data = d]
    <3>1. d \in Seq(Values)
      BY <1>7, Zenon
    <3>2. call' = [call EXCEPT ![u] = [@ EXCEPT !.at = next, !.data = d]]
      BY <2>1
    <3> HIDE DEF d
    <3>3. call' = [call EXCEPT ![u] = r]
      BY <3>2 DEF TypeInv, TypeOK
    <3>4. r \in CallsOf /\ r.pos = t.pos /\ r.n = t.n
      BY <1>1, <3>1 DEF CallsOf
    <3> HIDE DEF r
    <3> QED BY <1>3, <3>3, <3>4, CallStep
  <2>2. \/ \E next \in {"return", "fault"} :
             call' = [call EXCEPT ![u] = [@ EXCEPT !.at = next, !.data = D(n)]]
        \/ \E next \in {"return", "fault"} :
             call' = [call EXCEPT ![u] = [@ EXCEPT !.at = next, !.data = D(0)]]
    BY Zenon DEF Receive
  <2>3. 0 \in Nat
    OBVIOUS
  <2> HIDE DEF D, n
  <2> QED BY <1>5, <2>1, <2>2, <2>3
<1>9. /\ mem' \in [Cells -> Values] /\ pointer' \in Cells
      /\ busy' \in BOOLEAN /\ errors' \in 0 .. MaxErrors
  <2>1. CASE /\ pointer' = (pointer + n) % MEM_SIZE
             /\ UNCHANGED <<mem, busy, errors>>
    <3>1. pointer + n \in Nat
      BY <1>5
    <3>2. pointer' \in Cells
      BY <1>6, <2>1, <3>1, Zenon
    <3> QED BY <2>1, <3>2 DEF TypeInv, TypeOK
  <2>2. CASE Unanswered
    BY <2>2, UnansweredType
  <2> QED BY <2>1, <2>2 DEF Receive
<1> QED BY <1>8, <1>9 DEF TypeInv, TypeOK, Receive

LEMMA ReturnType ==
  ASSUME TypeInv, NEW u \in Users, Return(u) \/ Fault(u)
  PROVE  TypeInv'
<1>1. call[u] \in CallsOf /\ call[u].pos + call[u].n <= LAST_BYTE
  BY DEF TypeInv, TypeOK, InFile
<1>2. /\ call[u].file \in Files
      /\ call[u].pos \in 0 .. LAST_BYTE /\ call[u].n \in 0 .. LAST_BYTE
  BY <1>1 DEF CallsOf
<1>3. call' = [call EXCEPT ![u] = Resting]
  BY DEF Return, Fault
<1>4. call' \in [Users -> CallsOf] /\ InFile'
  <2>1. Resting \in CallsOf /\ Resting.pos + Resting.n <= LAST_BYTE
    BY RestingTyped, ChipAssumption
  <2> QED BY <1>3, <2>1, CallStep
<1>5. fpos' \in [Files -> 0 .. LAST_BYTE]
  <2>1. call[u].pos + call[u].n \in 0 .. LAST_BYTE
    BY <1>1, <1>2, ChipAssumption
  <2> QED BY <1>2, <2>1 DEF Return, Fault, TypeInv, TypeOK
<1> QED BY <1>4, <1>5 DEF TypeInv, TypeOK, Return, Fault, chip
----------------------------------------------------------------------------
LEMMA StepType == TypeInv /\ [Next]_vars => TypeInv'
<1> SUFFICES ASSUME TypeInv, [Next]_vars PROVE TypeInv'
  OBVIOUS
<1>1. CASE WriteCycleEnds
  BY <1>1 DEF TypeInv, TypeOK, InFile, WriteCycleEnds
<1>2. ASSUME NEW f \in Files, Open(f) PROVE TypeInv'
  <2>1. 0 \in 0 .. LAST_BYTE
    BY ChipAssumption
  <2> QED BY <1>2, <2>1 DEF TypeInv, TypeOK, InFile, Open, chip
<1>3. ASSUME NEW u \in Users, SendData(u) PROVE TypeInv'
  BY <1>3, SendDataType
<1>3a. ASSUME NEW u \in Users, SendFollowsNull(u) PROVE TypeInv'
  <2>1. call[u] \in CallsOf /\ call[u].pos + call[u].n <= LAST_BYTE
    BY DEF TypeInv, TypeOK, InFile
  <2>2. call' = [call EXCEPT ![u] = [call[u] EXCEPT !.at = "oops"]]
    BY <1>3a DEF SendFollowsNull
  <2>3. call' \in [Users -> CallsOf] /\ InFile'
    BY <2>1, <2>2, MoveTyped, CallStep
  <2> QED BY <1>3a, <2>3 DEF TypeInv, TypeOK, SendFollowsNull, chip
<1>4. ASSUME NEW u \in Users, SendAddress(u) PROVE TypeInv'
  BY <1>4, SendAddressType
<1>5. ASSUME NEW u \in Users, Receive(u) PROVE TypeInv'
  BY <1>5, ReceiveType
<1>6. ASSUME NEW u \in Users, Return(u) \/ Fault(u) PROVE TypeInv'
  BY <1>6, ReturnType
<1>7. ASSUME NEW u \in Users, NEW f \in Files, Refuse(u, f) PROVE TypeInv'
  BY <1>7 DEF TypeInv, TypeOK, InFile, Refuse, chip
<1>8. ASSUME NEW u \in Users, NEW f \in Files, NEW count \in Counts, Read(u, f, count)
      PROVE  TypeInv'
  <2>1. 0 \in Values
    BY ChipAssumption
  <2> QED BY <1>8, <2>1, BeginType DEF Read
<1>9. ASSUME NEW u \in Users, NEW f \in Files, NEW count \in Counts, NEW v \in Values,
             Write(u, f, count, v)
      PROVE  TypeInv'
  BY <1>9, BeginType DEF Write
<1>10. ASSUME NEW u \in Users, NEW f \in Files, NEW offset \in Offsets,
              NEW whence \in {"SEEK_SET", "SEEK_CUR", "SEEK_END"},
              Seek(u, f, offset, whence)
       PROVE  TypeInv'
  <2>1. UNCHANGED <<fpos, call, chip>>
    BY <1>10 DEF Seek
  <2> QED BY <2>1 DEF TypeInv, TypeOK, InFile, chip
<1>11. CASE UNCHANGED vars
  BY <1>11 DEF TypeInv, TypeOK, InFile, vars
<1> QED BY <1>1, <1>2, <1>3, <1>3a, <1>4, <1>5, <1>6, <1>7, <1>8, <1>9, <1>10, <1>11 DEF Next

\* at24c64.c:264, 267, 289: every variable keeps its type, and no position of
\* an open file ever passes LAST_BYTE, whatever calls overlap and fail.
THEOREM TypeCorrect == Spec => []TypeOK
<1>1. TypeInv => TypeOK
  BY DEF TypeInv
<1> QED BY <1>1, InitType, StepType, PTL DEF Spec

\* at24c64.c:267: no call, and no page write that rolls over, ever changes a
\* byte of the chip past the end of the file.
THEOREM OutsideSafe == Spec => OutsideUntouched
<1> DEFINE Kept == \A a \in LAST_BYTE .. MEM_SIZE - 1 : mem'[a] = mem[a]
<1>1. TypeInv /\ [Next]_vars => [Kept]_vars
  <2> SUFFICES ASSUME TypeInv, [Next]_vars, NEW a \in LAST_BYTE .. MEM_SIZE - 1
               PROVE  mem'[a] = mem[a]
    OBVIOUS
  <2>1. ASSUME NEW u \in Users, SendData(u) PROVE mem'[a] = mem[a]
    <3> DEFINE t == call[u]
               n == Transferred(t.n)
    <3>1. /\ t.pos \in 0 .. LAST_BYTE /\ t.n \in 0 .. LAST_BYTE
          /\ t.pos + t.n <= LAST_BYTE
      BY DEF TypeInv, TypeOK, InFile, CallsOf
    <3>2. n \in 0 .. t.n
      <4>1. t.n \in Nat
        BY <3>1
      <4> QED BY <4>1, TransferredBound
    <3>3. CASE mem' = StorePage(t.pos, n, t.byte)
      <4>1. ASSUME NEW i \in 0 .. n - 1 PROVE a # PageCell(t.pos, i)
        <5>1. t.pos \in Nat /\ i \in Nat
          BY <3>1, <3>2
        <5>2. PageCell(t.pos, i) \in 0 .. t.pos + i
          BY <5>1, PageCellBound, Zenon
        <5> HIDE DEF n
        <5>3. t.pos + i < a
          BY <3>1, <3>2, ChipAssumption
        <5> QED BY <3>1, <5>1, <5>2, <5>3
      <4>2. a \in Cells
        BY ChipAssumption DEF Cells
      <4> QED BY <3>3, <4>1, <4>2, Zenon DEF StorePage
    <3>4. CASE Unanswered
      BY <3>4 DEF Unanswered, chip
    <3> QED BY <2>1, <3>3, <3>4 DEF SendData
  <2>2. CASE UNCHANGED mem
    BY <2>2
  <2>3. ASSUME NEW u \in Users,
               \/ SendFollowsNull(u) \/ SendAddress(u) \/ Receive(u)
               \/ Return(u) \/ Fault(u)
        PROVE  UNCHANGED mem
    BY <2>3 DEF SendFollowsNull, SendAddress, Receive, Return, Fault, Unanswered, chip
  <2>4. ASSUME NEW u \in Users, NEW f \in Files,
               \/ Refuse(u, f)
               \/ \E count \in Counts : Read(u, f, count) \/ \E v \in Values : Write(u, f, count, v)
               \/ \E offset \in Offsets, whence \in {"SEEK_SET", "SEEK_CUR", "SEEK_END"} :
                    Seek(u, f, offset, whence)
        PROVE  UNCHANGED mem
    BY <2>4 DEF Refuse, Read, Write, Begin, Seek, chip
  <2>5. ASSUME WriteCycleEnds \/ (\E f \in Files : Open(f)) \/ UNCHANGED vars
        PROVE  UNCHANGED mem
    BY <2>5 DEF WriteCycleEnds, Open, chip, vars
  <2> QED BY <2>1, <2>2, <2>3, <2>4, <2>5 DEF Next
<1>2. TypeInv /\ [Next]_vars => [\A a \in LAST_BYTE .. MEM_SIZE - 1 : mem'[a] = mem[a]]_vars
  BY <1>1
<1> QED BY <1>2, InitType, StepType, PTL DEF Spec, OutsideUntouched
----------------------------------------------------------------------------
(***************************************************************************)
(* With one careful user and no failing transfer, the at24c64 driver is a  *)
(* plain file (ByteFile), for every size of file, page and chip.           *)
(*                                                                         *)
(* SoleInv says what an unfinished call may rely on: the position it works *)
(* with is still the file's, the chip is not in a write cycle, its page    *)
(* and count are within limits, and between the two transfers of a read    *)
(* the address pointer has stayed where the first one put it.              *)
(***************************************************************************)

Sole(w) == Users = {w} /\ Careful /\ MaxErrors = 0 /\ Offsets = {}

Underway(w) == call[w].at \in {"send", "address", "receive"}

SoleInv(w) ==
  /\ TypeInv
  /\ errors = 0
  /\ out = [u \in Users |-> out[u]]
  /\ call[w].at \notin {"idle", "oops"} =>
       /\ call[w].pos = fpos[call[w].file] /\ call[w].pos < LAST_BYTE
       /\ \E c \in Counts : call[w].n = Clamp(c, call[w].pos)
  /\ Underway(w) =>
       /\ ~busy /\ 0 < call[w].n /\ call[w].data = <<>>
       /\ WithinLimits(call[w].op, call[w].pos, call[w].n)
  /\ call[w].at = "send" => call[w].op = "write"
  /\ call[w].at \in {"address", "receive", "fault"} => call[w].op = "read"
  /\ call[w].at = "receive" => pointer = call[w].pos
----------------------------------------------------------------------------
LEMMA SoleInit == ASSUME NEW w, Sole(w), Init PROVE SoleInv(w)
<1>1. call[w] = Resting /\ Resting.at = "idle"
  BY RestingTyped DEF Init, Sole
<1>2. out = [u \in Users |-> out[u]]
  BY DEF Init
<1>3. TypeInv
  BY InitType
<1> QED BY <1>1, <1>2, <1>3 DEF Init, SoleInv, Underway

\* The call a step leaves behind is the one given for it.
LEMMA CallAt ==
  ASSUME NEW w, Sole(w), TypeInv, NEW r, call' = [call EXCEPT ![w] = r]
  PROVE  call'[w] = r
BY DEF Sole, TypeInv, TypeOK

LEMMA SoleBegin ==
  ASSUME NEW w, Sole(w), SoleInv(w), TypeInv',
         NEW f \in Files, NEW op \in {"write", "read"},
         NEW count \in Counts, NEW v \in Values, Begin(w, f, op, count, v)
  PROVE  SoleInv(w)'
<1> DEFINE n == Clamp(count, fpos[f])
           at == IF n = 0 THEN "return" ELSE IF op = "write" THEN "send" ELSE "address"
           r == [ at |-> at, op |-> op, file |-> f, pos |-> fpos[f], n |-> n,
                  byte |-> v, data |-> <<>> ]
<1>1. TypeInv /\ Careful
  BY DEF SoleInv, Sole
<1>2. call' = [call EXCEPT ![w] = r]
  BY DEF Begin
<1>3. call'[w] = r
  BY <1>1, <1>2, CallAt
<1>4. n \in 0 .. LAST_BYTE
  <2>1. count \in Nat /\ fpos[f] \in 0 .. LAST_BYTE
    BY <1>1, ChipAssumption DEF TypeInv, TypeOK
  <2> QED BY <2>1, ClampBound, Zenon
<1>5. /\ fpos[f] < LAST_BYTE /\ ~busy /\ WithinLimits(op, fpos[f], n)
      /\ UNCHANGED <<fpos, out, chip>>
  BY <1>1 DEF Begin
<1>6. \E c \in Counts : n = Clamp(c, fpos[f])
  OBVIOUS
<1>7. \/ n = 0 /\ at = "return"
      \/ 0 < n /\ at = "send" /\ op = "write"
      \/ 0 < n /\ at = "address" /\ op = "read"
  BY <1>4
<1> HIDE DEF n, at
<1>8. /\ call'[w].at = at /\ call'[w].op = op /\ call'[w].file = f /\ call'[w].pos = fpos[f]
      /\ call'[w].n = n /\ call'[w].data = <<>>
  BY <1>3
<1>9. fpos' = fpos /\ busy' = busy /\ errors' = errors /\ pointer' = pointer /\ out' = out
  BY <1>5 DEF chip
<1> QED BY <1>5, <1>6, <1>7, <1>8, <1>9 DEF SoleInv, Underway, WithinLimits

LEMMA SoleSendData ==
  ASSUME NEW w, Sole(w), SoleInv(w), TypeInv', SendData(w)
  PROVE  SoleInv(w)'
<1>1. call' = [call EXCEPT ![w] = [call[w] EXCEPT !.at = "return"]]
  BY DEF SendData
<1>2. TypeInv /\ call[w] \in CallsOf
  BY DEF SoleInv, Sole, TypeInv, TypeOK
<1>3. call'[w] = [call[w] EXCEPT !.at = "return"]
  BY <1>1, <1>2, CallAt
<1>4. /\ call'[w].at = "return" /\ call'[w].op = call[w].op /\ call'[w].n = call[w].n
      /\ call'[w].pos = call[w].pos /\ call'[w].file = call[w].file
  BY <1>2, <1>3 DEF CallsOf
<1>5. errors' = errors /\ fpos' = fpos /\ out' = out
  BY DEF SendData, Unanswered, chip, Sole, SoleInv
<1> QED BY <1>4, <1>5 DEF SoleInv, Underway, SendData

LEMMA SoleSendAddress ==
  ASSUME NEW w, Sole(w), SoleInv(w), TypeInv', SendAddress(w)
  PROVE  SoleInv(w)'
<1>1. call' = [call EXCEPT ![w] = [call[w] EXCEPT !.at = "receive"]]
  BY DEF SendAddress
<1>2. TypeInv /\ call[w] \in CallsOf
  BY DEF SoleInv, Sole, TypeInv, TypeOK
<1>3. call'[w] = [call[w] EXCEPT !.at = "receive"]
  BY <1>1, <1>2, CallAt
<1>4. /\ call'[w].at = "receive" /\ call'[w].op = call[w].op /\ call'[w].n = call[w].n
      /\ call'[w].pos = call[w].pos /\ call'[w].file = call[w].file
      /\ call'[w].data = call[w].data
  BY <1>2, <1>3 DEF CallsOf
<1>5. /\ errors' = errors /\ fpos' = fpos /\ out' = out /\ busy' = busy
      /\ pointer' = call[w].pos
  BY DEF SendAddress, Unanswered, Sole, SoleInv, Underway
<1> QED BY <1>4, <1>5 DEF SoleInv, Underway, SendAddress, WithinLimits

LEMMA SoleReceive ==
  ASSUME NEW w, Sole(w), SoleInv(w), TypeInv', Receive(w)
  PROVE  SoleInv(w)'
<1>1. TypeInv /\ call[w] \in CallsOf
  BY DEF SoleInv, Sole, TypeInv, TypeOK
<1>2. /\ call'[w].at \in {"return", "fault"}
      /\ call'[w].op = call[w].op /\ call'[w].n = call[w].n
      /\ call'[w].pos = call[w].pos /\ call'[w].file = call[w].file
  <2>1. PICK next \in {"return", "fault"} :
          \E d : call' = [call EXCEPT ![w] = [@ EXCEPT !.at = next, !.data = d]]
    BY Zenon DEF Receive
  <2>2. PICK d : call' = [call EXCEPT ![w] = [@ EXCEPT !.at = next, !.data = d]]
    BY <2>1
  <2>3. call'[w] = [call[w] EXCEPT !.at = next, !.data = d]
    BY <1>1, <2>2, CallAt
  <2> QED BY <1>1, <2>3 DEF CallsOf
<1>3. errors' = errors /\ fpos' = fpos /\ out' = out
  BY DEF Receive, Unanswered, Sole, SoleInv, chip
<1> QED BY <1>2, <1>3 DEF SoleInv, Underway, Receive

LEMMA SoleReturn ==
  ASSUME NEW w, Sole(w), SoleInv(w), TypeInv', Return(w) \/ Fault(w)
  PROVE  SoleInv(w)'
<1>1. TypeInv /\ call' = [call EXCEPT ![w] = Resting]
  BY DEF SoleInv, Return, Fault
<1>2. call'[w].at = "idle"
  BY <1>1, CallAt, RestingTyped
<1>3. errors' = errors
  BY DEF Return, Fault, chip
<1>4. out' = [u \in Users |-> out'[u]]
  BY DEF SoleInv, Return, Fault
<1> QED BY <1>2, <1>3, <1>4 DEF SoleInv, Underway

LEMMA SoleFollowsNull ==
  ASSUME NEW w, Sole(w), SoleInv(w), TypeInv', SendFollowsNull(w)
  PROVE  SoleInv(w)'
<1>1. TypeInv /\ call[w] \in CallsOf
  BY DEF SoleInv, Sole, TypeInv, TypeOK
<1>2. call' = [call EXCEPT ![w] = [call[w] EXCEPT !.at = "oops"]]
  BY DEF SendFollowsNull
<1>3. call'[w] = [call[w] EXCEPT !.at = "oops"]
  BY <1>1, <1>2, CallAt
<1>4. call'[w].at = "oops"
  BY <1>1, <1>3 DEF CallsOf
<1>5. errors' = errors /\ out' = out
  BY DEF SendFollowsNull, chip
<1> QED BY <1>4, <1>5 DEF SoleInv, Underway

LEMMA SoleStep == ASSUME NEW w, Sole(w), SoleInv(w), [Next]_vars PROVE SoleInv(w)'
<1>0. TypeInv'
  BY StepType DEF SoleInv
<1>1. CASE WriteCycleEnds
  BY <1>0, <1>1 DEF SoleInv, Underway, WithinLimits, WriteCycleEnds
<1>2. ASSUME NEW f \in Files, Open(f) PROVE SoleInv(w)'
  <2>1. call[w].at \in {"idle", "oops"} \/ call[w].file # f
    BY <1>2 DEF Open, Sole
  <2>2. call[w].at \notin {"idle", "oops"} => fpos'[call[w].file] = fpos[call[w].file]
    BY <1>2, <2>1 DEF Open, SoleInv, TypeInv, TypeOK
  <2>3. UNCHANGED <<call, out, mem, pointer, busy, errors>>
    BY <1>2 DEF Open, chip
  <2> QED BY <1>0, <2>2, <2>3 DEF SoleInv, Underway, WithinLimits
<1>3. ASSUME NEW u \in Users,
             \/ SendData(u) \/ SendFollowsNull(u) \/ SendAddress(u)
             \/ Receive(u) \/ Return(u) \/ Fault(u)
      PROVE  SoleInv(w)'
  <2>1. u = w
    BY DEF Sole
  <2> QED BY <1>0, <1>3, <2>1, SoleSendData, SoleFollowsNull, SoleSendAddress, SoleReceive, SoleReturn
<1>4. ASSUME NEW u \in Users, NEW f \in Files, NEW count \in Counts, NEW v \in Values,
             Read(u, f, count) \/ Write(u, f, count, v)
      PROVE  SoleInv(w)'
  <2>1. u = w /\ 0 \in Values
    BY ChipAssumption DEF Sole
  <2> QED BY <1>0, <1>4, <2>1, SoleBegin DEF Read, Write
<1>5. ASSUME NEW u \in Users, NEW f \in Files, Refuse(u, f) PROVE SoleInv(w)'
  <2>1. UNCHANGED <<fpos, call, mem, pointer, busy, errors>>
    BY <1>5 DEF Refuse, chip
  <2>2. out' = [x \in Users |-> out'[x]]
    BY <1>5 DEF Refuse, SoleInv
  <2> QED BY <1>0, <2>1, <2>2 DEF SoleInv, Underway, WithinLimits
<1>6. CASE UNCHANGED vars
  BY <1>0, <1>6 DEF SoleInv, Underway, WithinLimits, vars
<1>7. Offsets = {}
  BY DEF Sole
<1>8. \E v \in Values : TRUE
  BY ChipAssumption
<1> QED BY <1>1, <1>2, <1>3, <1>4, <1>5, <1>6, <1>7, <1>8 DEF Next
----------------------------------------------------------------------------
\* The file's positions and results, with one user.
View(w) ==
  /\ ~Done(w) => FilePos = fpos /\ FileOut = out
  /\ Done(w) =>
       /\ FilePos = [fpos EXCEPT ![call[w].file] = call[w].pos + call[w].n]
       /\ FileOut = [out EXCEPT ![w] = Outcome(call[w])]

LEMMA ViewNow == ASSUME NEW w, Sole(w) PROVE SoleInv(w) => View(w)
<1> SUFFICES ASSUME SoleInv(w) PROVE View(w)
  OBVIOUS
<1>1. /\ Users = {w} /\ out = [u \in Users |-> out[u]]
      /\ fpos = [f \in Files |-> fpos[f]] /\ call[w].file \in Files
  BY DEF Sole, SoleInv, TypeInv, TypeOK, CallsOf
<1>2. CASE ~Done(w)
  BY <1>1, <1>2 DEF View, FilePos, FileOut
<1>3. CASE Done(w)
  <2>1. (CHOOSE u \in Users : Done(u) /\ call[u].file = call[w].file) = w
    BY <1>1, <1>3
  <2>2. FileOut = [out EXCEPT ![w] = Outcome(call[w])]
    BY <1>1, <1>3 DEF FileOut
  <2>3. ASSUME NEW f \in Files
        PROVE  FilePos[f] = IF f = call[w].file THEN call[w].pos + call[w].n ELSE fpos[f]
    BY <1>1, <1>3, <2>1 DEF FilePos
  <2>4. FilePos = [f \in Files |-> FilePos[f]]
    BY DEF FilePos
  <2>5. FilePos = [fpos EXCEPT ![call[w].file] = call[w].pos + call[w].n]
    BY <1>1, <2>3, <2>4
  <2> QED BY <1>3, <2>2, <2>5 DEF View
<1> QED BY <1>2, <1>3

LEMMA ViewNext == ASSUME NEW w, Sole(w) PROVE SoleInv(w)' => View(w)'
<1>1. SoleInv(w) => View(w)
  BY ViewNow
<1> QED BY <1>1, PTL

\* The file does not change when neither of the three does.
LEMMA SameView ==
  ASSUME FileContent' = FileContent, FilePos' = FilePos, FileOut' = FileOut
  PROVE  [File!FileNext]_(File!fileVars)
BY DEF File!fileVars
----------------------------------------------------------------------------
LEMMA ModSmall ==
  ASSUME NEW m \in Nat, NEW p \in Nat \ {0}, m < p
  PROVE  m % p = m
BY SMT

\* Within limits a page does not roll over and the count fits its u8.
LEMMA PlainPage ==
  ASSUME NEW a \in Nat, NEW n \in Nat, WithinLimits("write", a, n), NEW i \in 0 .. n - 1
  PROVE  PageCell(a, i) = a + i
<1> DEFINE x == a % PAGE_SIZE
<1>1. PAGE_SIZE \in Nat \ {0}
  BY ChipAssumption
<1>2. x \in 0 .. a
  BY <1>1, ModBound, Zenon
<1>3. x + n <= PAGE_SIZE
  BY DEF WithinLimits
<1>4. PageCell(a, i) = (a - x) + ((x + i) % PAGE_SIZE)
  BY DEF PageCell
<1> HIDE DEF x
<1>5. x + i \in Nat /\ x + i < PAGE_SIZE
  BY <1>1, <1>2, <1>3
<1>6. (x + i) % PAGE_SIZE = x + i
  BY <1>1, <1>5, ModSmall, Zenon
<1> QED BY <1>2, <1>4, <1>6

LEMMA AllTransferred ==
  ASSUME NEW op \in {"write", "read"}, NEW a \in Nat, NEW n \in Nat, WithinLimits(op, a, n)
  PROVE  Transferred(n) = n
<1>1. COUNT_MOD \in Nat \ {0} /\ PAGE_SIZE \in Nat \ {0} /\ PAGE_SIZE < COUNT_MOD
  BY ChipAssumption
<1>2. n < COUNT_MOD
  <2>1. CASE op = "write"
    <3> DEFINE x == a % PAGE_SIZE
    <3>1. x \in 0 .. a
      BY <1>1, ModBound, Zenon
    <3>2. x + n <= PAGE_SIZE
      BY <2>1 DEF WithinLimits
    <3> HIDE DEF x
    <3> QED BY <1>1, <3>1, <3>2
  <2>2. CASE op = "read"
    BY <2>2 DEF WithinLimits
  <2> QED BY <2>1, <2>2
<1>3. n % COUNT_MOD = n
  BY <1>1, <1>2, ModSmall, Zenon
<1> QED BY <1>3 DEF Transferred

LEMMA ClampIsShorter ==
  ASSUME NEW c \in Nat, NEW pos \in 0 .. LAST_BYTE
  PROVE  Clamp(c, pos) = File!Shorter(c, LAST_BYTE - pos)
BY ChipAssumption DEF Clamp, File!Shorter

\* What the proofs below use of the call that a step acts on.
LEMMA CallFacts ==
  ASSUME NEW w, Sole(w), SoleInv(w), call[w].at \notin {"idle", "oops"}
  PROVE  /\ w \in Users /\ call[w] \in CallsOf /\ call[w].file \in Files
         /\ call[w].pos \in 0 .. LAST_BYTE - 1 /\ call[w].n \in 0 .. LAST_BYTE
         /\ call[w].pos + call[w].n <= LAST_BYTE
         /\ call[w].byte \in Values
         /\ fpos[call[w].file] = call[w].pos
         /\ \E c \in Counts : call[w].n = File!Shorter(c, LAST_BYTE - call[w].pos)
<1>1. call[w] \in CallsOf /\ w \in Users /\ call[w].pos + call[w].n <= LAST_BYTE
  BY DEF Sole, SoleInv, TypeInv, TypeOK, InFile
<1>2. /\ call[w].file \in Files /\ call[w].pos \in 0 .. LAST_BYTE
      /\ call[w].n \in 0 .. LAST_BYTE /\ call[w].byte \in Values
  BY <1>1 DEF CallsOf
<1>3. call[w].pos \in 0 .. LAST_BYTE - 1 /\ fpos[call[w].file] = call[w].pos
  BY <1>2, ChipAssumption DEF SoleInv
<1>4. PICK c \in Counts : call[w].n = Clamp(c, call[w].pos)
  BY DEF SoleInv
<1>5. c \in Nat
  BY ChipAssumption
<1>6. call[w].n = File!Shorter(c, LAST_BYTE - call[w].pos)
  BY <1>2, <1>4, <1>5, ClampIsShorter
<1> QED BY <1>1, <1>2, <1>3, <1>6

\* What the transfer of a write leaves in the chip.
LEMMA SendStores ==
  ASSUME NEW w, Sole(w), SoleInv(w), SendData(w)
  PROVE  \A a \in 0 .. LAST_BYTE - 1 :
           mem'[a] = IF a \in call[w].pos .. call[w].pos + call[w].n - 1
                     THEN call[w].byte ELSE mem[a]
<1> DEFINE t == call[w]
           n == Transferred(t.n)
           last == t.pos + t.n - 1
<1>1. t.at = "send" /\ t.op = "write" /\ ~busy /\ WithinLimits("write", t.pos, t.n)
  BY DEF SendData, SoleInv, Underway
<1>2. t.pos \in 0 .. LAST_BYTE - 1 /\ t.n \in 0 .. LAST_BYTE
  BY <1>1, CallFacts
<1>3. t.pos \in Nat /\ t.n \in Nat
  BY <1>2, ChipAssumption
<1>4. n = t.n
  BY <1>1, <1>3, AllTransferred
<1>5. mem' = StorePage(t.pos, n, t.byte)
  BY <1>1 DEF SendData, Unanswered, SoleInv, Sole
<1> SUFFICES ASSUME NEW a \in 0 .. LAST_BYTE - 1
             PROVE  mem'[a] = IF a \in t.pos .. last THEN t.byte ELSE mem[a]
  OBVIOUS
<1>6. a \in Cells
  BY ChipAssumption DEF Cells
<1>7. (\E i \in 0 .. n - 1 : a = PageCell(t.pos, i)) <=> a \in t.pos .. last
  <2>1. ASSUME NEW i \in 0 .. t.n - 1 PROVE PageCell(t.pos, i) = t.pos + i
    BY <1>1, <1>3, PlainPage
  <2>2. ASSUME a \in t.pos .. last PROVE \E i \in 0 .. t.n - 1 : a = t.pos + i
    <3>1. a - t.pos \in 0 .. t.n - 1 /\ a = t.pos + (a - t.pos)
      BY <1>3, <2>2
    <3> QED BY <3>1
  <2>3. ASSUME NEW i \in 0 .. t.n - 1 PROVE t.pos + i \in t.pos .. last
    BY <1>3
  <2> HIDE DEF n, last
  <2> QED BY <1>4, <2>1, <2>2, <2>3, Zenon
<1> HIDE DEF n, last
<1> QED BY <1>5, <1>6, <1>7, Zenon DEF StorePage

LEMMA SendDataWrites ==
  ASSUME NEW w, Sole(w), SoleInv(w), SoleInv(w)', SendData(w)
  PROVE  [File!FileNext]_(File!fileVars)
<1> DEFINE t == call[w]
           n == Transferred(t.n)
           last == t.pos + t.n - 1
<1>1. t.at = "send" /\ t.op = "write" /\ ~busy /\ t.data = <<>> /\ WithinLimits("write", t.pos, t.n)
  BY DEF SendData, SoleInv, Underway
<1>2. /\ w \in Users /\ t \in CallsOf /\ t.file \in Files
      /\ t.pos \in 0 .. LAST_BYTE - 1 /\ t.n \in 0 .. LAST_BYTE
      /\ t.pos + t.n <= LAST_BYTE /\ t.byte \in Values /\ fpos[t.file] = t.pos
  BY <1>1, CallFacts
<1>3. PICK c \in Counts : t.n = File!Shorter(c, LAST_BYTE - t.pos)
  BY <1>1, CallFacts
<1>4. n = t.n /\ t.pos \in Nat /\ t.n \in Nat
  <2>1. t.pos \in Nat /\ t.n \in Nat
    BY <1>2, ChipAssumption
  <2> QED BY <1>1, <2>1, AllTransferred
<1>5. FilePos = fpos /\ FileOut = out
  BY <1>1, ViewNow DEF View, Done
<1>6. /\ call'[w] = [t EXCEPT !.at = "return"]
      /\ mem' = StorePage(t.pos, n, t.byte) /\ UNCHANGED <<fpos, out>>
  <2>1. call' = [call EXCEPT ![w] = [t EXCEPT !.at = "return"]]
    BY DEF SendData
  <2>2. call'[w] = [t EXCEPT !.at = "return"]
    BY <2>1, CallAt DEF SoleInv
  <2> QED BY <1>1, <2>2 DEF SendData, Unanswered, SoleInv, Sole
<1>7. /\ FilePos' = [fpos EXCEPT ![t.file] = t.pos + t.n]
      /\ FileOut' = [out EXCEPT ![w] = File!Wrote(t.file, t.n)]
  <2>1. /\ call'[w].at = "return" /\ call'[w].op = "write" /\ call'[w].file = t.file
        /\ call'[w].pos = t.pos /\ call'[w].n = t.n /\ call'[w].data = <<>>
    BY <1>1, <1>2, <1>6 DEF CallsOf
  <2>2. /\ FilePos' = [fpos' EXCEPT ![call'[w].file] = call'[w].pos + call'[w].n]
        /\ FileOut' = [out' EXCEPT ![w] = Outcome(call[w])']
    <3>1. View(w)' /\ Done(w)'
      BY <2>1, ViewNext DEF Done
    <3> QED BY <3>1 DEF View
  <2>3. Outcome(call[w])' = File!Wrote(t.file, t.n)
    BY <2>1 DEF Outcome, File!Wrote
  <2> QED BY <1>6, <2>1, <2>2, <2>3
<1>8. FileContent' = [a \in DOMAIN FileContent |->
                        IF a \in t.pos .. last THEN t.byte ELSE FileContent[a]]
  <2>1. \A a \in 0 .. LAST_BYTE - 1 : mem'[a] = IF a \in t.pos .. last THEN t.byte ELSE mem[a]
    BY SendStores
  <2>2. DOMAIN FileContent = 0 .. LAST_BYTE - 1
    BY DEF FileContent
  <2> HIDE DEF last
  <2> QED BY <2>1, <2>2, Zenon DEF FileContent
<1>9. File!Write(w, t.file, c, t.byte)
  <2>1. FilePos[t.file] = t.pos /\ t.pos < LAST_BYTE
    BY <1>2, <1>5, ChipAssumption
  <2> HIDE DEF n
  <2> QED BY <1>3, <1>5, <1>7, <1>8, <2>1, Zenon DEF File!Write
<1> QED BY <1>2, <1>3, <1>9, Zenon DEF File!FileNext

\* What the second transfer of a read puts in the call's buffer.
LEMMA ReceiveGets ==
  ASSUME NEW w, Sole(w), SoleInv(w), Receive(w)
  PROVE  \E next \in {"return", "fault"} :
           call' = [call EXCEPT ![w] = [@ EXCEPT !.at = next,
                      !.data = [i \in 1 .. call[w].n |-> mem[call[w].pos + i - 1]]]]
<1> DEFINE t == call[w]
           n == Transferred(t.n)
           D == [i \in 1 .. t.n |-> IF i <= n THEN mem[(pointer + i - 1) % MEM_SIZE] ELSE 0]
           bytes == [i \in 1 .. t.n |-> mem[t.pos + i - 1]]
<1>1. /\ t.at = "receive" /\ t.op = "read" /\ ~busy /\ pointer = t.pos
      /\ WithinLimits("read", t.pos, t.n)
  BY DEF Receive, SoleInv, Underway
<1>2. /\ t.pos \in 0 .. LAST_BYTE - 1 /\ t.n \in 0 .. LAST_BYTE
      /\ t.pos + t.n <= LAST_BYTE
  BY <1>1, CallFacts
<1>3. t.pos \in Nat /\ t.n \in Nat
  BY <1>2, ChipAssumption
<1>4. n = t.n
  BY <1>1, <1>3, AllTransferred
<1>5. ASSUME NEW i \in 1 .. t.n
      PROVE  mem[(pointer + i - 1) % MEM_SIZE] = mem[t.pos + i - 1]
  <2> DEFINE a == t.pos + i - 1
  <2>1. a \in Nat /\ a < MEM_SIZE /\ MEM_SIZE \in Nat \ {0}
    BY <1>2, <1>3, ChipAssumption
  <2>2. pointer + i - 1 = a
    BY <1>1
  <2> HIDE DEF a
  <2>3. a % MEM_SIZE = a
    BY <2>1, ModSmall, Zenon
  <2> QED BY <2>2, <2>3, Zenon DEF a
<1>6. ASSUME NEW i \in 1 .. t.n PROVE i <= n
  BY <1>3, <1>4
<1>7. D = bytes
  <2> HIDE DEF n
  <2> QED BY <1>5, <1>6, Zenon
<1>8. \E next \in {"return", "fault"} :
         call' = [call EXCEPT ![w] = [@ EXCEPT !.at = next, !.data = D]]
  <2>1. ~Unanswered
    BY <1>1 DEF Unanswered, SoleInv, Sole
  <2> QED BY <1>1, <2>1, Zenon DEF Receive
<1> HIDE DEF D, bytes
<1>9. \E next \in {"return", "fault"} :
         call' = [call EXCEPT ![w] = [@ EXCEPT !.at = next, !.data = bytes]]
  BY <1>7, <1>8
<1> QED BY <1>9 DEF bytes

LEMMA ReceiveReads ==
  ASSUME NEW w, Sole(w), SoleInv(w), SoleInv(w)', Receive(w)
  PROVE  [File!FileNext]_(File!fileVars)
<1> DEFINE t == call[w]
           n == Transferred(t.n)
           bytes == [i \in 1 .. t.n |-> FileContent[t.pos + i - 1]]
<1>1. /\ t.at = "receive" /\ t.op = "read" /\ ~busy /\ pointer = t.pos
      /\ WithinLimits("read", t.pos, t.n)
  BY DEF Receive, SoleInv, Underway
<1>2. /\ w \in Users /\ t \in CallsOf /\ t.file \in Files
      /\ t.pos \in 0 .. LAST_BYTE - 1 /\ t.n \in 0 .. LAST_BYTE
      /\ t.pos + t.n <= LAST_BYTE /\ fpos[t.file] = t.pos
  BY <1>1, CallFacts
<1>3. PICK c \in Counts : t.n = File!Shorter(c, LAST_BYTE - t.pos)
  BY <1>1, CallFacts
<1>4. n = t.n /\ t.pos \in Nat /\ t.n \in Nat
  <2>1. t.pos \in Nat /\ t.n \in Nat
    BY <1>2, ChipAssumption
  <2> QED BY <1>1, <2>1, AllTransferred
<1>5. FilePos = fpos /\ FileOut = out
  BY <1>1, ViewNow DEF View, Done
<1>6. UNCHANGED <<fpos, out, mem>>
  BY <1>1 DEF Receive, Unanswered, SoleInv, Sole
<1>7. PICK next \in {"return", "fault"} :
        call' = [call EXCEPT ![w] = [@ EXCEPT !.at = next, !.data = bytes]]
  <2> DEFINE cells == [i \in 1 .. t.n |-> mem[t.pos + i - 1]]
  <2>1. ASSUME NEW i \in 1 .. t.n PROVE mem[t.pos + i - 1] = FileContent[t.pos + i - 1]
    <3>1. t.pos + i - 1 \in 0 .. LAST_BYTE - 1
      BY <1>2, <1>4, ChipAssumption
    <3> QED BY <3>1 DEF FileContent
  <2>2. cells = bytes
    BY <2>1, Zenon
  <2>3. \E next \in {"return", "fault"} :
           call' = [call EXCEPT ![w] = [@ EXCEPT !.at = next, !.data = cells]]
    BY ReceiveGets, Zenon
  <2> HIDE DEF cells, bytes
  <2> QED BY <2>2, <2>3
<1>8. call'[w] = [t EXCEPT !.at = next, !.data = bytes]
  <2> HIDE DEF bytes
  <2> QED BY <1>7, CallAt DEF SoleInv
<1>9. /\ call'[w].at = next /\ call'[w].op = "read" /\ call'[w].file = t.file
      /\ call'[w].pos = t.pos /\ call'[w].n = t.n /\ call'[w].data = bytes
  <2> HIDE DEF bytes
  <2> QED BY <1>1, <1>2, <1>8 DEF CallsOf
<1>10. FileContent' = FileContent
  BY <1>6 DEF FileContent
<1>11. CASE next = "fault"
  <2>1. FilePos' = fpos' /\ FileOut' = out'
    <3>1. ~(Done(w)') /\ View(w)'
      BY <1>9, <1>11, ViewNext DEF Done
    <3> QED BY <3>1 DEF View
  <2> QED BY <1>5, <1>6, <1>10, <2>1, SameView
<1>12. CASE next = "return"
  <2>1. /\ FilePos' = [fpos' EXCEPT ![call'[w].file] = call'[w].pos + call'[w].n]
        /\ FileOut' = [out' EXCEPT ![w] = Outcome(call[w])']
    <3>1. View(w)' /\ Done(w)'
      BY <1>9, <1>12, ViewNext DEF Done
    <3> QED BY <3>1 DEF View
  <2>2. Outcome(call[w])' = File!Got(t.file, bytes)
    <3>1. Len(bytes) = t.n
      BY <1>4
    <3> HIDE DEF bytes
    <3> QED BY <1>9, <3>1 DEF Outcome, File!Got
  <2> HIDE DEF bytes
  <2>3. /\ FilePos' = [FilePos EXCEPT ![t.file] = t.pos + t.n]
        /\ FileOut' = [FileOut EXCEPT ![w] = File!Got(t.file, bytes)]
    BY <1>5, <1>6, <1>9, <2>1, <2>2
  <2>4. FilePos[t.file] = t.pos /\ t.pos < LAST_BYTE
    BY <1>2, <1>5, ChipAssumption
  <2>5. File!Read(w, t.file, c)
    BY <1>3, <1>10, <2>3, <2>4, Zenon DEF File!Read, bytes
  <2> QED BY <1>2, <1>3, <2>5, Zenon DEF File!FileNext
<1> QED BY <1>11, <1>12

\* A call of no bytes is over as soon as it has begun; any other has not yet
\* taken effect.
LEMMA BeginOrNothing ==
  ASSUME NEW w, Sole(w), SoleInv(w), SoleInv(w)', NEW f \in Files,
         NEW op \in {"write", "read"}, NEW count \in Counts, NEW v \in Values,
         Begin(w, f, op, count, v)
  PROVE  [File!FileNext]_(File!fileVars)
<1> DEFINE n == Clamp(count, fpos[f])
           at == IF n = 0 THEN "return" ELSE IF op = "write" THEN "send" ELSE "address"
           r == [ at |-> at, op |-> op, file |-> f, pos |-> fpos[f], n |-> n,
                  byte |-> v, data |-> <<>> ]
<1>1. FilePos = fpos /\ FileOut = out /\ w \in Users
  BY ViewNow DEF View, Done, Begin, Sole
<1>2. UNCHANGED <<fpos, out, mem>> /\ FileContent' = FileContent /\ fpos[f] < LAST_BYTE
  BY DEF Begin, chip, FileContent
<1>3. call'[w] = r
  <2>1. call' = [call EXCEPT ![w] = r] /\ TypeInv
    BY DEF Begin, SoleInv
  <2> HIDE DEF r
  <2> QED BY <2>1, CallAt
<1>4. CASE n # 0
  <2>1. call'[w].at # "return"
    BY <1>3, <1>4
  <2>2. FilePos' = fpos' /\ FileOut' = out'
    <3>1. ~(Done(w)') /\ View(w)'
      BY <2>1, ViewNext DEF Done
    <3> QED BY <3>1 DEF View
  <2> QED BY <1>1, <1>2, <2>2, SameView
<1>5. CASE n = 0
  <2>1. /\ call'[w].at = "return" /\ call'[w].op = op /\ call'[w].file = f
        /\ call'[w].pos = fpos[f] /\ call'[w].n = 0 /\ call'[w].data = <<>>
    BY <1>3, <1>5
  <2>2. /\ FilePos' = [fpos' EXCEPT ![call'[w].file] = call'[w].pos + call'[w].n]
        /\ FileOut' = [out' EXCEPT ![w] = Outcome(call[w])']
    <3>1. View(w)' /\ Done(w)'
      BY <2>1, ViewNext DEF Done
    <3> QED BY <3>1 DEF View
  <2>3. Outcome(call[w])' = [op |-> op, file |-> f, n |-> 0, data |-> <<>>]
    BY <2>1 DEF Outcome
  <2>4. /\ FilePos' = [FilePos EXCEPT ![f] = FilePos[f] + 0]
        /\ FileOut' = [FileOut EXCEPT ![w] = [op |-> op, file |-> f, n |-> 0, data |-> <<>>]]
    BY <1>1, <1>2, <2>1, <2>2, <2>3
  <2>5. fpos[f] \in 0 .. LAST_BYTE /\ count \in Nat
    BY ChipAssumption DEF SoleInv, TypeInv, TypeOK
  <2>6. File!Shorter(count, LAST_BYTE - FilePos[f]) = 0
    BY <1>1, <1>5, <2>5, ClampIsShorter
  <2>7. CASE op = "write"
    <3>1. FileContent = [a \in DOMAIN FileContent |->
             IF a \in FilePos[f] .. FilePos[f] + 0 - 1 THEN v ELSE FileContent[a]]
      BY <1>1, <2>5 DEF FileContent
    <3>2. File!Wrote(f, 0) = [op |-> op, file |-> f, n |-> 0, data |-> <<>>]
      BY <2>7 DEF File!Wrote
    <3>3. File!Write(w, f, count, v)
      BY <1>1, <1>2, <2>4, <2>6, <3>1, <3>2, Zenon DEF File!Write
    <3> QED BY <1>1, <3>3, Zenon DEF File!FileNext
  <2>8. CASE op = "read"
    <3>1. [i \in 1 .. 0 |-> FileContent[FilePos[f] + i - 1]] = <<>>
      OBVIOUS
    <3>2. File!Got(f, <<>>) = [op |-> op, file |-> f, n |-> 0, data |-> <<>>]
      BY <2>8 DEF File!Got
    <3>3. File!Read(w, f, count)
      BY <1>1, <1>2, <2>4, <2>6, <3>1, <3>2, Zenon DEF File!Read
    <3> QED BY <1>1, <3>3, Zenon DEF File!FileNext
  <2> QED BY <2>7, <2>8
<1> QED BY <1>4, <1>5

LEMMA ReturnIsSilent ==
  ASSUME NEW w, Sole(w), SoleInv(w), SoleInv(w)', Return(w)
  PROVE  [File!FileNext]_(File!fileVars)
<1>1. Done(w)
  BY DEF Done, Return
<1>2. /\ FilePos = [fpos EXCEPT ![call[w].file] = call[w].pos + call[w].n]
      /\ FileOut = [out EXCEPT ![w] = Outcome(call[w])]
  BY <1>1, ViewNow DEF View
<1>3. fpos' = FilePos /\ out' = FileOut /\ mem' = mem
  BY <1>2 DEF Return, chip
<1>4. FilePos' = fpos' /\ FileOut' = out'
  <2>1. call' = [call EXCEPT ![w] = Resting] /\ TypeInv
    BY DEF Return, SoleInv
  <2>2. ~(Done(w)')
    BY <2>1, CallAt, RestingTyped DEF Done
  <2>3. View(w)'
    BY ViewNext
  <2> QED BY <2>2, <2>3 DEF View
<1> QED BY <1>3, <1>4, SameView DEF FileContent

LEMMA FaultRefuses ==
  ASSUME NEW w, Sole(w), SoleInv(w), SoleInv(w)', Fault(w)
  PROVE  [File!FileNext]_(File!fileVars)
<1>1. ~Done(w) /\ w \in Users /\ call[w].file \in Files
  BY CallFacts DEF Done, Fault
<1>2. FilePos = fpos /\ FileOut = out
  BY <1>1, ViewNow DEF View
<1>3. FilePos' = fpos' /\ FileOut' = out'
  <2>1. call' = [call EXCEPT ![w] = Resting] /\ TypeInv
    BY DEF Fault, SoleInv
  <2>2. ~(Done(w)')
    BY <2>1, CallAt, RestingTyped DEF Done
  <2>3. View(w)'
    BY ViewNext
  <2> QED BY <2>2, <2>3 DEF View
<1>4. out' = [out EXCEPT ![w] = Failed(call[w].file)] /\ fpos' = fpos /\ FileContent' = FileContent
  BY DEF Fault, chip, FileContent
<1>5. File!Refuse(w, call[w].file)
  BY <1>2, <1>3, <1>4 DEF File!Refuse, File!Failed, Failed
<1> QED BY <1>1, <1>5, Zenon DEF File!FileNext

LEMMA RefuseRefuses ==
  ASSUME NEW w, Sole(w), SoleInv(w), SoleInv(w)', NEW f \in Files, Refuse(w, f)
  PROVE  [File!FileNext]_(File!fileVars)
<1>1. ~Done(w) /\ ~(Done(w)') /\ w \in Users
  BY DEF Done, Refuse, Sole
<1>2. FilePos = fpos /\ FileOut = out
  BY <1>1, ViewNow DEF View
<1>3. FilePos' = fpos' /\ FileOut' = out'
  <2>1. View(w)'
    BY ViewNext
  <2> QED BY <1>1, <2>1 DEF View
<1>4. out' = [out EXCEPT ![w] = Failed(f)] /\ fpos' = fpos /\ FileContent' = FileContent
  BY DEF Refuse, chip, FileContent
<1>5. File!Refuse(w, f)
  BY <1>2, <1>3, <1>4 DEF File!Refuse, File!Failed, Failed
<1> QED BY <1>1, <1>5, Zenon DEF File!FileNext

LEMMA OpenOpens ==
  ASSUME NEW w, Sole(w), SoleInv(w), SoleInv(w)', NEW f \in Files, Open(f)
  PROVE  [File!FileNext]_(File!fileVars)
<1>1. /\ fpos' = [fpos EXCEPT ![f] = 0] /\ UNCHANGED <<call, out, mem>>
      /\ FileContent' = FileContent
  BY DEF Open, chip, FileContent
<1>2. View(w) /\ View(w)'
  BY ViewNow, ViewNext
<1>3. CASE ~Done(w)
  <2>1. ~(Done(w)')
    BY <1>1, <1>3 DEF Done
  <2>2. FilePos = fpos /\ FileOut = out /\ FilePos' = fpos' /\ FileOut' = out'
    BY <1>2, <1>3, <2>1 DEF View
  <2> QED BY <1>1, <2>2, Zenon DEF File!FileNext, File!Open
<1>4. CASE Done(w)
  <2>1. Done(w)' /\ Outcome(call[w])' = Outcome(call[w])
    BY <1>1, <1>4 DEF Done, Outcome
  <2>2. /\ FilePos = [fpos EXCEPT ![call[w].file] = call[w].pos + call[w].n]
        /\ FileOut = [out EXCEPT ![w] = Outcome(call[w])]
        /\ FilePos' = [fpos' EXCEPT ![call'[w].file] = call'[w].pos + call'[w].n]
        /\ FileOut' = [out' EXCEPT ![w] = Outcome(call[w])']
    BY <1>2, <1>4, <2>1 DEF View
  <2>3. call[w].file # f
    BY <1>4 DEF Open, Done, Sole
  <2>4. fpos \in [Files -> 0 .. LAST_BYTE] /\ call' = call /\ out' = out
    BY <1>1 DEF SoleInv, TypeInv, TypeOK
  <2>5. FilePos' = [FilePos EXCEPT ![f] = 0] /\ FileOut' = FileOut
    BY <1>1, <2>1, <2>2, <2>3, <2>4
  <2> QED BY <1>1, <2>5, Zenon DEF File!FileNext, File!Open
<1> QED BY <1>3, <1>4

LEMMA InitImplements == ASSUME NEW w, Sole(w), Init PROVE File!FileInit
<1>1. SoleInv(w) /\ ~Done(w) /\ Users = {w}
  BY SoleInit, RestingTyped DEF Sole, Init, Done
<1>2. FilePos = fpos /\ FileOut = out
  BY <1>1, ViewNow DEF View
<1>3. FileContent \in [0 .. LAST_BYTE - 1 -> Values]
  <2>1. \A a \in 0 .. LAST_BYTE - 1 : a \in Cells
    BY ChipAssumption DEF Cells
  <2> QED BY <2>1, Zenon DEF FileContent, Init
<1>4. Resting.file \in Files
  BY RestingTyped DEF CallsOf
<1>5. \E f \in Files : out = [u \in Users |-> File!Failed(f)]
  BY <1>4, Zenon DEF Init, Failed, File!Failed
<1> QED BY <1>2, <1>3, <1>5 DEF File!FileInit, Init

\* Each step of the driver is a step of the file, or none.
LEMMA StepImplements ==
  ASSUME NEW w, Sole(w), SoleInv(w), SoleInv(w)', [Next]_vars
  PROVE  [File!FileNext]_(File!fileVars)
<1>1. CASE WriteCycleEnds \/ UNCHANGED vars \/ SendAddress(w) \/ SendFollowsNull(w)
  <2>1. UNCHANGED <<fpos, out, mem>> /\ (Done(w)' <=> Done(w))
        /\ (Done(w) => call' = call)
    <3>1. CASE WriteCycleEnds \/ UNCHANGED vars
      BY <3>1 DEF WriteCycleEnds, vars, Done
    <3>2. CASE SendAddress(w)
      <4>1. call' = [call EXCEPT ![w].at = "receive"] /\ call \in [Users -> CallsOf] /\ w \in Users
        BY <3>2 DEF SendAddress, SoleInv, TypeInv, TypeOK, Sole
      <4>2. call'[w].at = "receive"
        BY <4>1 DEF CallsOf
      <4> QED BY <3>2, <4>2 DEF SendAddress, Unanswered, chip, Done
    <3>3. CASE SendFollowsNull(w)
      <4>1. call' = [call EXCEPT ![w].at = "oops"] /\ call \in [Users -> CallsOf] /\ w \in Users
        BY <3>3 DEF SendFollowsNull, SoleInv, TypeInv, TypeOK, Sole
      <4>2. call'[w].at = "oops"
        BY <4>1 DEF CallsOf
      <4> QED BY <3>3, <4>2 DEF SendFollowsNull, chip, Done
    <3> QED BY <1>1, <3>1, <3>2, <3>3
  <2>2. View(w) /\ View(w)'
    BY ViewNow, ViewNext
  <2>3. Done(w) => Outcome(call[w])' = Outcome(call[w])
    BY <2>1 DEF Outcome
  <2>4. FilePos' = FilePos /\ FileOut' = FileOut
    BY <2>1, <2>2, <2>3 DEF View
  <2> QED BY <2>1, <2>4, SameView DEF FileContent
<1>2. ASSUME NEW f \in Files, Open(f) PROVE [File!FileNext]_(File!fileVars)
  BY <1>2, OpenOpens
<1>3. CASE SendData(w) \/ Receive(w) \/ Return(w) \/ Fault(w)
  BY <1>3, SendDataWrites, ReceiveReads, ReturnIsSilent, FaultRefuses
<1>4. ASSUME NEW f \in Files, Refuse(w, f) PROVE [File!FileNext]_(File!fileVars)
  BY <1>4, RefuseRefuses
<1>5. ASSUME NEW f \in Files, NEW count \in Counts, NEW v \in Values,
             Read(w, f, count) \/ Write(w, f, count, v)
      PROVE  [File!FileNext]_(File!fileVars)
  <2>1. 0 \in Values
    BY ChipAssumption
  <2> QED BY <1>5, <2>1, BeginOrNothing DEF Read, Write
<1>6. Users = {w} /\ Offsets = {} /\ \E v \in Values : TRUE
  BY ChipAssumption DEF Sole
<1> QED BY <1>1, <1>2, <1>3, <1>4, <1>5, <1>6, Zenon DEF Next

\* at24c64.c:253-339: one process that keeps to a page, a count below 256 and
\* the length of a write cycle, does not seek, and meets no bus error, has a
\* plain file of LAST_BYTE bytes: it reads back what it wrote, in order,
\* although every call is several steps, its position a copy and a read two
\* transfers.
THEOREM ImplementsByteFile ==
  ASSUME NEW w, Sole(w)
  PROVE  Spec => IsByteFile
<1>1. Init => SoleInv(w) /\ File!FileInit
  BY SoleInit, InitImplements
<1>2. SoleInv(w) /\ [Next]_vars => SoleInv(w)'
  BY SoleStep
<1>3. SoleInv(w) /\ SoleInv(w)' /\ [Next]_vars => [File!FileNext]_(File!fileVars)
  BY StepImplements
<1> QED BY <1>1, <1>2, <1>3, PTL DEF Spec, IsByteFile, File!FileSpec

\* Of the one call, only the transfer of a write leads from "send" to "return".
LEMMA OnlyTransfers ==
  ASSUME NEW w, Sole(w), SoleInv(w), [Next]_vars, call[w].at = "send", call'[w].at = "return"
  PROVE  SendData(w)
<1>1. CASE WriteCycleEnds \/ UNCHANGED vars \/ \E f \in Files : Open(f) \/ Refuse(w, f)
  BY <1>1 DEF WriteCycleEnds, vars, Open, Refuse
<1>2. CASE SendAddress(w) \/ Receive(w) \/ Return(w) \/ Fault(w)
  BY <1>2 DEF SendAddress, Receive, Return, Fault
<1>3. CASE SendFollowsNull(w)
  <2>1. call' = [call EXCEPT ![w].at = "oops"] /\ call \in [Users -> CallsOf] /\ w \in Users
    BY <1>3 DEF SendFollowsNull, SoleInv, TypeInv, TypeOK, Sole
  <2>2. call'[w].at = "oops"
    BY <2>1 DEF CallsOf
  <2> QED BY <2>2
<1>4. CASE \E f \in Files, count \in Counts :
             Read(w, f, count) \/ \E v \in Values : Write(w, f, count, v)
  <2>1. call[w].at = "idle"
    BY <1>4, Zenon DEF Read, Write, Begin
  <2> QED BY <2>1
<1>5. Users = {w} /\ Offsets = {}
  BY DEF Sole
<1> QED BY <1>1, <1>2, <1>3, <1>4, <1>5, Zenon DEF Next

\* at24c64.c:253-300: whatever the single careful process writes is in the chip when
\* the transfer is over, all of it, where the file's position said.
THEOREM WritesStored ==
  ASSUME NEW w, Sole(w)
  PROVE  Spec => WriteStores
<1>1. Init => SoleInv(w)
  BY SoleInit
<1>2. SoleInv(w) /\ [Next]_vars => SoleInv(w)'
  BY SoleStep
<1>3. SoleInv(w) /\ [Next]_vars =>
        [\A u \in Users :
           call[u].at = "send" /\ call'[u].at = "return" =>
             \A a \in call[u].pos .. call[u].pos + call[u].n - 1 : mem'[a] = call[u].byte]_vars
  <2> SUFFICES ASSUME SoleInv(w), [Next]_vars, call[w].at = "send", call'[w].at = "return"
               PROVE  \A a \in call[w].pos .. call[w].pos + call[w].n - 1 : mem'[a] = call[w].byte
    BY DEF Sole
  <2>1. SendData(w)
    BY OnlyTransfers
  <2>2. /\ call[w].pos \in 0 .. LAST_BYTE - 1 /\ call[w].n \in 0 .. LAST_BYTE
        /\ call[w].pos + call[w].n <= LAST_BYTE
    BY CallFacts
  <2>3. call[w].pos .. call[w].pos + call[w].n - 1 \subseteq 0 .. LAST_BYTE - 1
    BY <2>2, ChipAssumption
  <2> QED BY <2>1, <2>3, SendStores, Zenon
<1> QED BY <1>1, <1>2, <1>3, PTL DEF Spec, WriteStores
=============================================================================
