------------------------------ MODULE ByteFile ------------------------------
(***************************************************************************)
(* What a reader and writer of /dev/at24c64_eeprom may expect of it: a     *)
(* file of LAST_BYTE bytes, kept in full, read and written at a position   *)
(* that moves with every call.  Every call takes effect at once.           *)
(*                                                                         *)
(* At24c64 models the driver that provides it.                             *)
(***************************************************************************)
EXTENDS Integers, Sequences

CONSTANTS
  Users,       \* processes
  Files,       \* open files of the device
  LAST_BYTE,   \* size of the file
  Values,      \* what a byte can be
  Counts       \* sizes asked for

VARIABLES
  content,   \* the bytes of the file
  pos,       \* per open file: where the next call reads or writes
  out        \* per process: what its last call returned

fileVars == <<content, pos, out>>

Shorter(a, b) == IF a <= b THEN a ELSE b

\* What a call returns: how many bytes, and for a read which ones.
Wrote(f, n)   == [op |-> "write", file |-> f, n |-> n, data |-> <<>>]
Got(f, bytes) == [op |-> "read",  file |-> f, n |-> Len(bytes), data |-> bytes]
Failed(f)     == [op |-> "error", file |-> f, n |-> 0, data |-> <<>>]

Write(u, f, count, v) ==
  LET n == Shorter(count, LAST_BYTE - pos[f])
  IN  /\ pos[f] < LAST_BYTE
      /\ content' = [a \in DOMAIN content |->
                       IF a \in pos[f] .. pos[f] + n - 1 THEN v ELSE content[a]]
      /\ pos' = [pos EXCEPT ![f] = @ + n]
      /\ out' = [out EXCEPT ![u] = Wrote(f, n)]

Read(u, f, count) ==
  LET n == Shorter(count, LAST_BYTE - pos[f])
  IN  /\ pos[f] < LAST_BYTE
      /\ pos' = [pos EXCEPT ![f] = @ + n]
      /\ out' = [out EXCEPT ![u] = Got(f, [i \in 1 .. n |-> content[pos[f] + i - 1]])]
      /\ UNCHANGED content

\* The end of the file, no memory, or a bad buffer: nothing changes.
Refuse(u, f) ==
  /\ out' = [out EXCEPT ![u] = Failed(f)]
  /\ UNCHANGED <<content, pos>>

Open(f) ==
  /\ pos' = [pos EXCEPT ![f] = 0]
  /\ UNCHANGED <<content, out>>

FileInit ==
  /\ content \in [0 .. LAST_BYTE - 1 -> Values]
  /\ pos = [f \in Files |-> 0]
  /\ \E f \in Files : out = [u \in Users |-> Failed(f)]

FileNext ==
  \/ \E f \in Files : Open(f)
  \/ \E u \in Users, f \in Files :
       \/ Refuse(u, f)
       \/ \E count \in Counts :
            Read(u, f, count) \/ \E v \in Values : Write(u, f, count, v)

FileSpec == FileInit /\ [][FileNext]_fileVars
=============================================================================
