------------------------------ MODULE At24c64 -------------------------------
(***************************************************************************)
(* The AT24C64 EEPROM driver, i2c/at24c64/at24c64.c: open, write, read and *)
(* llseek on /dev/at24c64_eeprom.                                          *)
(*                                                                         *)
(* A write is one I2C transfer.  A read is two, 350 ms apart: one sets the *)
(* chip's address pointer, the other reads from wherever it then stands.   *)
(* Nothing is locked ("NEED TO LOCK", at24c64.c:320), so calls of several  *)
(* processes interleave between transfers.  Results of transfers are only  *)
(* logged.  The kernel hands each call a copy of the file's position and   *)
(* stores it back when the call has succeeded.                             *)
(*                                                                         *)
(* The chip is hardware, modelled from how the driver uses it: a transfer  *)
(* of an address and data writes within one page (the address rolls over   *)
(* at its end) and starts a write cycle, during which the chip             *)
(* acknowledges nothing.                                                   *)
(***************************************************************************)
EXTENDS Integers, Sequences

CONSTANTS
  Users, Files, Values, Counts,   \* as in ByteFile
  LAST_BYTE,       \* 7999
  Offsets,         \* offsets given to llseek
  PAGE_SIZE,       \* bytes of a page of the chip (32)
  MEM_SIZE,        \* bytes of the chip (8192)
  COUNT_MOD,       \* 256: the helpers take their byte count as a u8
  Careful,         \* TRUE: users wait for a write cycle and keep WithinLimits
  MaxErrors        \* bound: how many transfers may fail for another reason

ASSUME ChipAssumption ==
  /\ LAST_BYTE \in Nat \ {0} /\ PAGE_SIZE \in Nat \ {0}
  /\ MEM_SIZE \in Nat /\ LAST_BYTE < MEM_SIZE
  /\ COUNT_MOD \in Nat /\ PAGE_SIZE < COUNT_MOD
  /\ Counts \subseteq Nat /\ Offsets \subseteq Int
  /\ Careful \in BOOLEAN /\ MaxErrors \in Nat
  /\ Files # {} /\ 0 \in Values

VARIABLES
  fpos,                \* per open file: f_pos
  call,                \* per process: the call it is in and its locals
  out,                 \* per process: what its last call returned
  mem, pointer, busy,  \* the chip: cells, address pointer, write cycle
  errors               \* transfers that failed without a write cycle

vars == <<fpos, call, out, mem, pointer, busy, errors>>
chip == <<mem, pointer, busy, errors>>

FIRST_BYTE == 0
Cells == 0 .. MEM_SIZE - 1

Failed(f) == [op |-> "error", file |-> f, n |-> 0, data |-> <<>>]
Outcome(t) == [op |-> t.op, file |-> t.file, n |-> t.n, data |-> t.data]

Resting == [ at |-> "idle", op |-> "error", file |-> CHOOSE f \in Files : TRUE,
             pos |-> 0, n |-> 0, byte |-> 0, data |-> <<>> ]

\* Mutants of Clamp: one byte late, and at the end of the chip.
ClampLate(count, pos) == IF count + pos > LAST_BYTE + 1 THEN LAST_BYTE + 1 - pos ELSE count

ClampToChip(count, pos) == IF count + pos >= MEM_SIZE THEN MEM_SIZE - pos ELSE count

\* Both calls: nothing at or after the last byte, and no more than up to it.
Clamp(count, pos) == IF count + pos > LAST_BYTE THEN LAST_BYTE - pos ELSE count

\* How many bytes the helper transfers: one, or the count in a u8.
Transferred(n) == IF n = 1 THEN 1 ELSE n % COUNT_MOD
----------------------------------------------------------------------------
\* The i'th byte of a page write at address a, and the cells a write reaches.
PageCell(a, i) == (a - (a % PAGE_SIZE)) + (((a % PAGE_SIZE) + i) % PAGE_SIZE)

StorePage(a, n, v) ==
  [c \in Cells |-> IF \E i \in 0 .. n - 1 : c = PageCell(a, i) THEN v ELSE mem[c]]

\* A transfer the chip does not acknowledge, or that fails on the bus.
Unanswered ==
  \/ busy /\ UNCHANGED chip
  \/ errors < MaxErrors /\ errors' = errors + 1 /\ UNCHANGED <<mem, pointer, busy>>

WriteCycleEnds ==
  /\ busy /\ busy' = FALSE
  /\ UNCHANGED <<fpos, call, out, mem, pointer, errors>>
----------------------------------------------------------------------------
\* What the chip and the helpers' u8 count allow; the driver checks neither.
WithinLimits(op, pos, n) ==
  IF op = "write" THEN (pos % PAGE_SIZE) + n <= PAGE_SIZE ELSE n < COUNT_MOD

\* The start of a call of `count' bytes, up to its first transfer.
Begin(u, f, op, count, v) ==
  /\ call[u].at = "idle"
  /\ fpos[f] < LAST_BYTE
  /\ LET n == Clamp(count, fpos[f])
     IN  /\ Careful => ~busy /\ WithinLimits(op, fpos[f], n)
         /\ call' = [call EXCEPT ![u] =
              [ at |-> IF n = 0 THEN "return" ELSE IF op = "write" THEN "send" ELSE "address",
                op |-> op, file |-> f, pos |-> fpos[f], n |-> n, byte |-> v, data |-> <<>> ]]
  /\ UNCHANGED <<fpos, out, chip>>

Write(u, f, count, v) == Begin(u, f, "write", count, v)

Read(u, f, count) == Begin(u, f, "read", count, 0)

\* -EINVAL at the end of the file or without memory, -EFAULT from copy_from_user.
Refuse(u, f) ==
  /\ call[u].at = "idle"
  /\ out' = [out EXCEPT ![u] = Failed(f)]
  /\ UNCHANGED <<fpos, call, chip>>

\* Mutant of SendData: the loop over the bytes stops one early.
SendShort(u) ==
  LET t == call[u]
      n == Transferred(t.n)
  IN  /\ t.at = "send" /\ ~busy
      /\ call' = [call EXCEPT ![u].at = "return"]
      /\ mem' = StorePage(t.pos, n - 1, t.byte)
      /\ pointer' = PageCell(t.pos, n)
      /\ busy' = (n > 0)
      /\ UNCHANGED <<fpos, out, errors>>

\* at24c64_write_byte and at24c64_write_page.
SendData(u) ==
  LET t == call[u]
      n == Transferred(t.n)
  IN  /\ t.at = "send"
      /\ call' = [call EXCEPT ![u].at = "return"]
      /\ \/ /\ ~busy
            /\ mem' = StorePage(t.pos, n, t.byte)
            /\ pointer' = PageCell(t.pos, n)
            /\ busy' = (n > 0)
            /\ UNCHANGED errors
         \/ Unanswered
      /\ UNCHANGED <<fpos, out>>

\* at24c64_write_page without memory: that is logged, and NULL written to.  The
\* process ends there.
SendFollowsNull(u) ==
  /\ call[u].at = "send" /\ call[u].n # 1
  /\ call' = [call EXCEPT ![u].at = "oops"]
  /\ UNCHANGED <<fpos, out, chip>>

\* at24c64_read_byte and at24c64_read_page: the address ...
SendAddress(u) ==
  /\ call[u].at = "address"
  /\ call' = [call EXCEPT ![u].at = "receive"]
  /\ \/ ~busy /\ pointer' = call[u].pos /\ UNCHANGED <<mem, busy, errors>>
     \/ Unanswered
  /\ UNCHANGED <<fpos, out>>

\* ... and, a pause later, the data, into a buffer of zeros.  Copying it to the
\* user may fail.
Receive(u) ==
  LET t == call[u]
      n == Transferred(t.n)
      Buffer(got) == [i \in 1 .. t.n |->
                        IF i <= got THEN mem[(pointer + i - 1) % MEM_SIZE] ELSE 0]
  IN  /\ t.at = "receive"
      /\ \/ /\ ~busy
            /\ \E next \in {"return", "fault"} :
                 call' = [call EXCEPT ![u] = [@ EXCEPT !.at = next, !.data = Buffer(n)]]
            /\ pointer' = (pointer + n) % MEM_SIZE
            /\ UNCHANGED <<mem, busy, errors>>
         \/ /\ \E next \in {"return", "fault"} :
                 call' = [call EXCEPT ![u] = [@ EXCEPT !.at = next, !.data = Buffer(0)]]
            /\ Unanswered
      /\ UNCHANGED <<fpos, out>>

\* Mutant of Return: only the page branch moves the position.
ReturnPageOnly(u) ==
  LET t == call[u]
  IN  /\ t.at = "return"
      /\ fpos' = [fpos EXCEPT ![t.file] = IF t.n = 1 THEN t.pos ELSE t.pos + t.n]
      /\ out' = [out EXCEPT ![u] = Outcome(t)]
      /\ call' = [call EXCEPT ![u] = Resting]
      /\ UNCHANGED chip

\* *fpos += count, and the kernel stores the position back.
Return(u) ==
  LET t == call[u]
  IN  /\ t.at = "return"
      /\ fpos' = [fpos EXCEPT ![t.file] = t.pos + t.n]
      /\ out' = [out EXCEPT ![u] = Outcome(t)]
      /\ call' = [call EXCEPT ![u] = Resting]
      /\ UNCHANGED chip

\* -EFAULT from copy_to_user: the position stays.
Fault(u) ==
  LET t == call[u]
  IN  /\ t.at = "fault"
      /\ out' = [out EXCEPT ![u] = Failed(t.file)]
      /\ call' = [call EXCEPT ![u] = Resting]
      /\ UNCHANGED <<fpos, chip>>

\* llseek computes the new position and returns it.  It does not store it in
\* the file, and only for SEEK_END does it not check it.
Seek(u, f, offset, whence) ==
  LET new == CASE whence = "SEEK_SET" -> offset
               [] whence = "SEEK_CUR" -> fpos[f] + offset
               [] whence = "SEEK_END" -> LAST_BYTE + offset
  IN  /\ call[u].at = "idle"
      /\ out' = [out EXCEPT ![u] =
           IF whence # "SEEK_END" /\ (new > LAST_BYTE \/ new < FIRST_BYTE)
           THEN Failed(f)
           ELSE [op |-> "seek", file |-> f, n |-> new, data |-> <<>>]]
      /\ UNCHANGED <<fpos, call, chip>>

\* Close the file and open it again.  The end of a process closes its files.
Open(f) ==
  /\ \A u \in Users : call[u].at \in {"idle", "oops"} \/ call[u].file # f
  /\ fpos' = [fpos EXCEPT ![f] = 0]
  /\ UNCHANGED <<call, out, chip>>
----------------------------------------------------------------------------
Init ==
  /\ fpos = [f \in Files |-> 0]
  /\ call = [u \in Users |-> Resting]
  /\ out = [u \in Users |-> Failed(Resting.file)]
  /\ mem \in [Cells -> Values]
  /\ pointer = 0
  /\ busy = FALSE
  /\ errors = 0

Next ==
  \/ WriteCycleEnds
  \/ \E f \in Files : Open(f)
  \/ \E u \in Users :
       \/ SendData(u) \/ SendFollowsNull(u)
       \/ SendAddress(u) \/ Receive(u) \/ Return(u) \/ Fault(u)
       \/ \E f \in Files :
            \/ Refuse(u, f)
            \/ \E count \in Counts :
                 Read(u, f, count) \/ \E v \in Values : Write(u, f, count, v)
            \/ \E offset \in Offsets, whence \in {"SEEK_SET", "SEEK_CUR", "SEEK_END"} :
                 Seek(u, f, offset, whence)

Spec == Init /\ [][Next]_vars
----------------------------------------------------------------------------
CallsOf ==
  [ at : {"idle", "send", "address", "receive", "return", "fault", "oops"},
    op : {"write", "read", "error"}, file : Files, pos : 0 .. LAST_BYTE,
    n : 0 .. LAST_BYTE, byte : Values, data : Seq(Values) ]

\* Every variable keeps its type; in particular no file position passes LAST_BYTE.
TypeOK ==
  /\ fpos \in [Files -> 0 .. LAST_BYTE]
  /\ call \in [Users -> CallsOf]
  /\ mem \in [Cells -> Values] /\ pointer \in Cells
  /\ busy \in BOOLEAN /\ errors \in 0 .. MaxErrors

\* The bytes of the chip past the end of the file are never written, whatever
\* calls overlap and wherever a page write rolls over: the clamp to LAST_BYTE
\* (at24c64.c:267) is enough for that, because rolling over only ever moves a
\* write back.
OutsideUntouched ==
  [][\A a \in LAST_BYTE .. MEM_SIZE - 1 : mem'[a] = mem[a]]_vars

\* "Number of bytes successfully write" (at24c64.c:290): when the transfer of
\* a write is over, the bytes it will report as written are in the chip.
WriteStores ==
  [][\A u \in Users :
       call[u].at = "send" /\ call'[u].at = "return" =>
         \A a \in call[u].pos .. call[u].pos + call[u].n - 1 : mem'[a] = call[u].byte]_vars

\* The file a user sees.  A call has taken effect when its last transfer has:
\* its position and result then count, although the kernel stores them later.
Done(u) == call[u].at = "return"

FileContent == [a \in 0 .. LAST_BYTE - 1 |-> mem[a]]
FilePos == [f \in Files |->
              IF \E u \in Users : Done(u) /\ call[u].file = f
              THEN LET t == call[CHOOSE u \in Users : Done(u) /\ call[u].file = f]
                   IN  t.pos + t.n
              ELSE fpos[f]]
FileOut == [u \in Users |-> IF Done(u) THEN Outcome(call[u]) ELSE out[u]]

File == INSTANCE ByteFile WITH content <- FileContent, pos <- FilePos, out <- FileOut

\* One careful user, no bus errors: the driver provides a plain file, although
\* every call is several steps, positions are copies and a read takes two
\* transfers.
IsByteFile == File!FileSpec
=============================================================================
