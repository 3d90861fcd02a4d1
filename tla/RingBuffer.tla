------------------------------ MODULE RingBuffer ------------------------------
(***************************************************************************)
(* The ring buffer of src/system/nx/io/ring_buffer.c: one shared memory    *)
(* object mapped twice, the second mapping right behind the first, so that *)
(* what is unread, and what is free, is one range of addresses each.       *)
(***************************************************************************)
EXTENDS Integers, Sequences

CONSTANTS
    Size,       \* rbuf->size, a multiple of the page size
    Byte        \* what a byte may be

ASSUME SizeAssumption == Size \in Nat \ {0}

Cells == 0..Size - 1

(* The byte of shared memory behind the address buf + a, 0 <= a < 2 * Size. *)
Cell(a) == IF a < Size THEN a ELSE a - Size

(* The address at or behind buf + a, and less than Size behind it, that is *)
(* mapped to the byte c.                                                   *)
Address(a, c) == IF c >= a THEN c ELSE c + Size

Created(mem) == [write_offset |-> 0, read_offset |-> 0, mem |-> mem]

DataCount(rbuf) == rbuf.write_offset - rbuf.read_offset

(* Mutant: free space as if the buffer were filled from its start.         *)
FreeSpaceFromStart(rbuf) == Size - rbuf.read_offset

FreeSpace(rbuf) == Size - DataCount(rbuf)

CommitWrite(rbuf, n) == [rbuf EXCEPT !.write_offset = @ + n]

(* Both offsets, moved back by so many bytes.                              *)
MovedBack(rbuf, offset, bytes) ==
    [write_offset |-> rbuf.write_offset - bytes, read_offset |-> offset - bytes,
     mem |-> rbuf.mem]

(* Mutant: write_offset is left behind.                                    *)
CommitReadHalf(rbuf, n) == [rbuf EXCEPT !.read_offset = Cell(@ + n)]

(* An offset that reaches the second mapping goes back to the first.       *)
CommitRead(rbuf, n) ==
    MovedBack(rbuf, rbuf.read_offset + n,
              IF rbuf.read_offset + n >= Size THEN Size ELSE 0)

(* read(fd, write_pos, ...) puts bytes behind write_offset, and            *)
(* write(fd, read_pos, n) takes the n bytes behind read_offset.            *)
Store(rbuf, bytes) ==
    [rbuf EXCEPT !.mem =
        [c \in Cells |->
            LET i == Address(rbuf.write_offset, c) - rbuf.write_offset + 1
            IN  IF i \in 1..Len(bytes) THEN bytes[i] ELSE rbuf.mem[c]]]

Load(rbuf, n) == [i \in 1..n |-> rbuf.mem[Cell(rbuf.read_offset + i - 1)]]

RingType ==
    [write_offset : 0..2 * Size - 1, read_offset : Cells, mem : [Cells -> Byte]]
=============================================================================
