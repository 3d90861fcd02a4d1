-------------------------------- MODULE FdDump --------------------------------
(***************************************************************************)
(* fd_dump of src/system/nx/io/io.c: one thread streams what it reads from *)
(* rfd to wfd through a ring buffer, with select and non-blocking          *)
(* descriptors, until end of file or an error.                             *)
(*                                                                         *)
(* The k-th byte of the stream is the number k: the code moves bytes and   *)
(* never looks at them.  What a system call may return is a choice.        *)
(***************************************************************************)
EXTENDS RingBuffer

CONSTANT StreamLen      \* the bytes that rfd yields before end of file

ASSUME StreamAssumption == StreamLen \in Nat /\ Byte = 0..StreamLen

VARIABLES
    pc,         \* where fd_dump is
    rbuf,
    eof,
    ready,      \* the descriptors set in rset and wset after select
    open,       \* the descriptors that are valid
    mode,       \* the file status flags of each: "own" as the caller set
                \* them, or "nonblock"
    saved,      \* rfd_flags and wfd_flags, "unset" before they are assigned
    taken,      \* how many bytes rfd has yielded
    received,   \* what wfd has got
    told,       \* the err of each call of finish_cb
    ret         \* what fd_dump returns

vars == <<pc, rbuf, eof, ready, open, mode, saved, taken, received, told, ret>>

Fds == {"rfd", "wfd"}
fdvars == <<open, mode, saved>>
iovars == <<rbuf, eof, ready, taken, received>>

Init ==
    /\ pc = "create"
    /\ rbuf = Created([c \in Cells |-> 0])
    /\ eof = FALSE /\ ready = {}
    /\ open \in SUBSET Fds
    /\ mode = [x \in Fds |-> "own"] /\ saved = [x \in Fds |-> "unset"]
    /\ taken = 0 /\ received = <<>>
    /\ told = <<>> /\ ret = 0

(* ring_buffer_create; without a buffer finish_cb is not called.           *)
Create ==
    /\ pc = "create"
    /\ \/ pc' = "unblock_rfd" /\ UNCHANGED ret
       \/ pc' = "returned" /\ ret' = -1
    /\ UNCHANGED <<iovars, fdvars, told>>

(* make_unblock; fcntl fails for a descriptor that is not valid.           *)
MakeUnblock(x, next) ==
    /\ IF x \in open
       THEN /\ saved' = [saved EXCEPT ![x] = mode[x]]
            /\ mode' = [mode EXCEPT ![x] = "nonblock"]
            /\ pc' = next
       ELSE pc' = "onerr" /\ UNCHANGED <<saved, mode>>
    /\ UNCHANGED <<iovars, open, told, ret>>

UnblockRfd == pc = "unblock_rfd" /\ MakeUnblock("rfd", "unblock_wfd")
UnblockWfd == pc = "unblock_wfd" /\ MakeUnblock("wfd", "select")

(* Mutant: wfd is watched only once there is nothing left to read.         *)
WatchedLate ==
    {x \in Fds : \/ x = "rfd" /\ ~eof /\ FreeSpace(rbuf) > 0
                 \/ x = "wfd" /\ eof /\ DataCount(rbuf) > 0}

(* set_fd: what select waits for.                                          *)
Watched ==
    {x \in Fds : \/ x = "rfd" /\ ~eof /\ FreeSpace(rbuf) > 0
                 \/ x = "wfd" /\ DataCount(rbuf) > 0}

Select ==
    /\ pc = "select"
    /\ ready' \in (SUBSET Watched) \ {{}}
    /\ pc' = "read"
    /\ UNCHANGED <<rbuf, eof, taken, received, fdvars, told, ret>>

(* A signal is an error too.                                               *)
SelectFails ==
    /\ pc = "select" /\ pc' = "onerr"
    /\ UNCHANGED <<iovars, fdvars, told, ret>>

(* Data that was just read makes fd_dump try to write at once.             *)
ReadSome ==
    /\ pc = "read" /\ "rfd" \in ready
    /\ \E n \in 1..FreeSpace(rbuf) :
          /\ taken + n <= StreamLen
          /\ rbuf' = CommitWrite(Store(rbuf, [i \in 1..n |-> taken + i]), n)
          /\ taken' = taken + n
    /\ ready' = ready \cup {"wfd"}
    /\ pc' = "write"
    /\ UNCHANGED <<eof, received, fdvars, told, ret>>

ReadEof ==
    /\ pc = "read" /\ "rfd" \in ready /\ taken = StreamLen
    /\ eof' = TRUE
    /\ pc' = "write"
    /\ UNCHANGED <<rbuf, ready, taken, received, fdvars, told, ret>>

(* rfd is not ready, or EAGAIN.                                            *)
ReadNothing ==
    /\ pc = "read" /\ pc' = "write"
    /\ UNCHANGED <<iovars, fdvars, told, ret>>

(* finish_cb may close the descriptors it is given.                        *)
FinishCb(err) ==
    /\ told' = Append(told, err)
    /\ open' \in SUBSET open

(* A failing read tells finish_cb, and so does onerr after it.             *)
ReadFails ==
    /\ pc = "read" /\ "rfd" \in ready
    /\ FinishCb(-1)
    /\ pc' = "onerr"
    /\ UNCHANGED <<iovars, mode, saved, ret>>

WriteSome ==
    /\ pc = "write" /\ "wfd" \in ready
    /\ \E n \in 1..DataCount(rbuf) :
          /\ received' = received \o Load(rbuf, n)
          /\ rbuf' = CommitRead(rbuf, n)
    /\ pc' = "test"
    /\ UNCHANGED <<eof, ready, taken, fdvars, told, ret>>

(* wfd is not ready, nothing to write, EAGAIN, or 0 bytes written.         *)
WriteNothing ==
    /\ pc = "write" /\ pc' = "test"
    /\ UNCHANGED <<iovars, fdvars, told, ret>>

WriteFails ==
    /\ pc = "write" /\ "wfd" \in ready /\ DataCount(rbuf) > 0
    /\ pc' = "onerr"
    /\ UNCHANGED <<iovars, fdvars, told, ret>>

(* Mutant: end of file ends the dump whatever is left in the buffer.       *)
StreamedAtEof == eof

Streamed == eof /\ DataCount(rbuf) = 0

Again ==
    /\ pc = "test" /\ ~Streamed
    /\ pc' = "select"
    /\ UNCHANGED <<iovars, fdvars, told, ret>>

Finish ==
    /\ pc = "test" /\ Streamed
    /\ FinishCb(0)
    /\ pc' = "restore_rfd"
    /\ UNCHANGED <<iovars, mode, saved, ret>>

OnError ==
    /\ pc = "onerr"
    /\ FinishCb(-1)
    /\ ret' = -1
    /\ pc' = "restore_rfd"
    /\ UNCHANGED <<iovars, mode, saved>>

(* Mutant: wfd's flags are set whether or not rfd's could be.              *)
RestoreAnyway(x, next) ==
    /\ mode' = IF x \in open THEN [mode EXCEPT ![x] = saved[x]] ELSE mode
    /\ ret' = IF x \in open THEN ret ELSE -1
    /\ pc' = next
    /\ UNCHANGED <<iovars, open, saved, told>>

(* fcntl(x, F_SETFL, saved flags), and return -1 if that fails.            *)
Restore(x, next) ==
    /\ IF x \in open
       THEN /\ mode' = [mode EXCEPT ![x] = saved[x]]
            /\ pc' = next
            /\ UNCHANGED ret
       ELSE /\ ret' = -1
            /\ pc' = "returned"
            /\ UNCHANGED mode
    /\ UNCHANGED <<iovars, open, saved, told>>

RestoreRfd == pc = "restore_rfd" /\ Restore("rfd", "restore_wfd")
RestoreWfd == pc = "restore_wfd" /\ Restore("wfd", "returned")

Step ==
    \/ Create \/ UnblockRfd \/ UnblockWfd
    \/ Select
    \/ ReadSome \/ ReadEof \/ ReadNothing
    \/ WriteSome \/ WriteNothing
    \/ Again \/ Finish \/ OnError
    \/ RestoreRfd \/ RestoreWfd

Failure == SelectFails \/ ReadFails \/ WriteFails

Next == Step \/ Failure

Spec == Init /\ [][Next]_vars

(* fd_dump takes its steps; rfd yields data or end of file and wfd accepts *)
(* data again and again while they are asked to.  No call has to fail.     *)
Fairness ==
    /\ WF_vars(Step)
    /\ SF_vars(Select /\ "rfd" \in ready')
    /\ SF_vars(Select /\ "wfd" \in ready')
    /\ SF_vars(ReadSome \/ ReadEof)
    /\ SF_vars(WriteSome)

FairSpec == Spec /\ Fairness

(***************************************************************************)
(* Properties.                                                             *)
(***************************************************************************)
TypeOK ==
    /\ pc \in {"create", "unblock_rfd", "unblock_wfd", "select", "read", "write",
               "test", "onerr", "restore_rfd", "restore_wfd", "returned"}
    /\ rbuf \in RingType
    /\ eof \in BOOLEAN
    /\ ready \in SUBSET Fds /\ open \in SUBSET Fds
    /\ mode \in [Fds -> {"own", "nonblock", "unset"}]
    /\ saved \in [Fds -> {"own", "nonblock", "unset"}]
    /\ taken \in 0..StreamLen
    /\ received \in Seq(Byte)
    /\ told \in Seq({0, -1})
    /\ ret \in {0, -1}

(* The ranges of addresses that fd_dump hands to read and to write lie     *)
(* within the two mappings of the buffer, wherever the offsets are.        *)
RangesMapped ==
    /\ FreeSpace(rbuf) >= 0 /\ DataCount(rbuf) >= 0
    /\ rbuf.write_offset + FreeSpace(rbuf) <= 2 * Size
    /\ rbuf.read_offset + DataCount(rbuf) <= 2 * Size

(* wfd gets the bytes of rfd in order, none twice and none lost: what it   *)
(* has not got yet is what the buffer holds.                               *)
StreamKept ==
    /\ \A i \in 1..Len(received) : received[i] = i
    /\ taken = Len(received) + DataCount(rbuf)
    /\ \A i \in 1..DataCount(rbuf) :
          rbuf.mem[Cell(rbuf.read_offset + i - 1)] = Len(received) + i

(* finish_cb is told of success only when wfd has got the whole stream and *)
(* never together with an error; fd_dump returns 0 only after that.        *)
SuccessMeansStreamed ==
    /\ \A i \in 1..Len(told) : told[i] = 0 => Len(received) = StreamLen /\ Len(told) = 1
    /\ pc = "returned" /\ ret = 0 => told = <<0>>

(* When fd_dump returns, the descriptors that are still valid have their   *)
(* own flags again, unless finish_cb closed rfd before that; the           *)
(* uninitialized wfd_flags of a failing make_unblock is never used.        *)
FlagsRestored ==
    /\ \A x \in Fds : mode[x] # "unset"
    /\ pc = "returned" /\ "rfd" \in open => \A x \in open : mode[x] = "own"

(* While rfd yields and wfd accepts data, fd_dump comes to an end: it      *)
(* never selects on nothing.                                               *)
DumpEnds == <>(pc = "returned")
=============================================================================
