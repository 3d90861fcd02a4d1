---------------------------- MODULE FdDumpProofs ----------------------------
(***************************************************************************)
(* Proofs about FdDump for every size of the buffer and every length of    *)
(* the stream.                                                             *)
(***************************************************************************)
EXTENDS FdDump, RingBufferProofs

(***************************************************************************)
(* The inductive invariant.                                                *)
(***************************************************************************)
Streaming == {"select", "read", "write", "test"}
Ending == {"restore_rfd", "restore_wfd", "returned"}

Seen == /\ Sound(rbuf)
        /\ StreamKept
        /\ eof => taken = StreamLen

(* What finish_cb has been told follows from where fd_dump is.             *)
Verdict ==
    /\ pc \in {"create", "unblock_rfd", "unblock_wfd"} \cup Streaming => told = <<>>
    /\ pc = "onerr" => \A i \in 1..Len(told) : told[i] = -1
    /\ pc \in Ending =>
          \/ told = <<0>> /\ Len(received) = StreamLen
          \/ ret = -1 /\ \A i \in 1..Len(told) : told[i] = -1

(* Flags are restored only after they were saved: a descriptor whose flags *)
(* are unset is not valid, or fd_dump returns before it gets to it.        *)
FlagsKept ==
    /\ \A x \in Fds : /\ mode[x] \in {"own", "nonblock"} /\ saved[x] \in {"own", "unset"}
                      /\ saved[x] = "unset" => mode[x] = "own"
    /\ pc \in {"create", "unblock_rfd"} => mode["rfd"] = "own"
    /\ pc \in {"create", "unblock_rfd", "unblock_wfd"} => mode["wfd"] = "own"
    /\ pc = "unblock_wfd" => saved["rfd"] = "own"
    /\ pc \in Streaming => \A x \in Fds : saved[x] = "own"
    /\ pc \in {"onerr", "restore_rfd"} =>
          \A x \in Fds : saved[x] = "unset" => x \notin open \/ "rfd" \notin open
    /\ pc = "restore_wfd" => /\ mode["rfd"] = "own"
                             /\ saved["wfd"] = "unset" => "wfd" \notin open
    /\ pc = "returned" /\ "rfd" \in open => \A x \in open : mode[x] = "own"

IInv == TypeOK /\ Seen /\ Verdict /\ FlagsKept

LEMMA InitInv == Init => IInv
<1> SUFFICES ASSUME Init PROVE IInv
  OBVIOUS
<1>1. DataCount(rbuf) = 0 /\ Sound(rbuf)
  BY SizeAssumption, StreamAssumption
  DEF Init, Created, DataCount, Sound, RingType, Cells
<1>2. TypeOK
  <2>1. mode \in [Fds -> {"own", "nonblock", "unset"}] /\ saved \in [Fds -> {"own", "nonblock", "unset"}]
    BY DEF Init
  <2>2. received \in Seq(Byte) /\ told \in Seq({0, -1})
    BY DEF Init
  <2>3. taken \in 0..StreamLen
    BY StreamAssumption DEF Init
  <2> QED BY <1>1, <2>1, <2>2, <2>3 DEF Init, TypeOK, Sound
<1>3. Seen
  BY <1>1, StreamAssumption DEF Init, Seen, StreamKept
<1>4. Verdict
  BY DEF Init, Verdict, Streaming, Ending
<1>5. FlagsKept
  BY DEF Init, FlagsKept, Streaming, Fds
<1> QED BY <1>2, <1>3, <1>4, <1>5 DEF IInv

(* A step that moves no data keeps what is known about the stream.         *)
LEMMA SeenStays ==
    ASSUME Seen, UNCHANGED <<rbuf, taken, received>>, eof' => taken = StreamLen
    PROVE  Seen'
BY DEF Seen, Sound, StreamKept, RingType, DataCount, Cell

(* Reading appends to what the buffer holds.                               *)
LEMMA ReadSeen ==
    ASSUME IInv, ReadSome
    PROVE  Seen' /\ taken' \in 0..StreamLen
<1>1. PICK n \in 1..FreeSpace(rbuf) :
         /\ taken + n <= StreamLen
         /\ rbuf' = CommitWrite(Store(rbuf, [i \in 1..n |-> taken + i]), n)
         /\ taken' = taken + n
  BY DEF ReadSome
<1> DEFINE bytes == [i \in 1..n |-> taken + i]
           count == DataCount(rbuf)
           ro == rbuf.read_offset
<1>2. /\ Sound(rbuf) /\ count \in 0..Size /\ ro \in Int
      /\ taken \in Nat /\ StreamLen \in Nat /\ Len(received) \in Nat
      /\ taken = Len(received) + count
      /\ received' = received /\ eof' = eof
      /\ n \in Nat /\ n <= FreeSpace(rbuf)
  <2>1. Sound(rbuf) /\ count \in 0..Size /\ ro \in Int /\ Size \in Nat
    BY SizeAssumption DEF IInv, Seen, Sound, RingType, Cells
  <2>2. taken \in Nat /\ StreamLen \in Nat /\ Len(received) \in Nat
    BY StreamAssumption DEF IInv, TypeOK
  <2>3. received' = received /\ eof' = eof
    BY DEF ReadSome
  <2>4. n \in Nat /\ n <= FreeSpace(rbuf)
    BY <2>1 DEF FreeSpace
  <2> QED BY <2>1, <2>2, <2>3, <2>4 DEF IInv, Seen, StreamKept
<1>3. bytes \in Seq(Byte) /\ Len(bytes) = n
  <2>1. \A i \in 1..n : taken + i \in Byte
    BY SMTT(30), <1>1, <1>2, StreamAssumption
  <2> QED BY <1>2, <2>1
<1>4. /\ Sound(rbuf') /\ rbuf'.read_offset = ro
      /\ DataCount(rbuf') = count + n
      /\ \A i \in 1..count : rbuf'.mem[Cell(ro + i - 1)] = rbuf.mem[Cell(ro + i - 1)]
      /\ \A i \in 1..n : rbuf'.mem[Cell(ro + count + i - 1)] = bytes[i]
  <2>1. rbuf' = CommitWrite(Store(rbuf, bytes), Len(bytes))
    BY <1>1, <1>3
  <2> HIDE DEF bytes
  <2>2. Len(bytes) <= FreeSpace(rbuf)
    BY <1>2, <1>3
  <2>3. /\ Sound(rbuf')
        /\ rbuf'.read_offset = rbuf.read_offset
        /\ DataCount(rbuf') = DataCount(rbuf) + Len(bytes)
        /\ \A i \in 1..DataCount(rbuf) :
              rbuf'.mem[Cell(rbuf.read_offset + i - 1)]
                = rbuf.mem[Cell(rbuf.read_offset + i - 1)]
        /\ \A i \in 1..Len(bytes) :
              rbuf'.mem[Cell(rbuf.read_offset + DataCount(rbuf) + i - 1)] = bytes[i]
    <3>1. Sound(rbuf) /\ bytes \in Seq(Byte)
      BY <1>2, <1>3
    <3> QED BY ONLY <3>1, <2>1, <2>2, StoreAppends
  <2> QED BY <1>3, <2>3
<1>5. ASSUME NEW i \in 1..count + n
      PROVE  rbuf'.mem[Cell(ro + i - 1)] = Len(received) + i
  <2>1. CASE i <= count
    BY <1>2, <1>4, <2>1 DEF IInv, Seen, StreamKept
  <2>2. CASE i > count
    <3> DEFINE j == i - count
    <3>1. j \in 1..n /\ ro + count + j - 1 = ro + i - 1 /\ taken + j = Len(received) + i
      BY SMTT(30), <1>2, <2>2
    <3>2. bytes[j] = taken + j
      BY <3>1
    <3> HIDE DEF j, bytes
    <3> QED BY <1>4, <3>1, <3>2
  <2> QED BY <1>2, <2>1, <2>2
<1>6. StreamKept'
  <2> HIDE DEF count, ro
  <2>1. \A i \in 1..Len(received') : received'[i] = i
    BY <1>2 DEF IInv, Seen, StreamKept
  <2>2. taken' = Len(received') + DataCount(rbuf')
    BY <1>1, <1>2, <1>4
  <2>3. \A i \in 1..DataCount(rbuf') :
           rbuf'.mem[Cell(rbuf'.read_offset + i - 1)] = Len(received') + i
    BY <1>2, <1>4, <1>5
  <2> QED BY <2>1, <2>2, <2>3 DEF StreamKept, DataCount, Cell
<1>7. eof' => taken' = StreamLen
  BY <1>1, <1>2 DEF IInv, Seen
<1>8. Sound(rbuf)'
  BY <1>4 DEF Sound, RingType, DataCount
<1> QED BY <1>1, <1>2, <1>6, <1>7, <1>8 DEF Seen

(* Writing takes from the front of the buffer what wfd gets next.          *)
LEMMA WriteSeen ==
    ASSUME IInv, WriteSome
    PROVE  Seen' /\ received' \in Seq(Byte)
<1>1. PICK n \in 1..DataCount(rbuf) :
         /\ received' = received \o Load(rbuf, n)
         /\ rbuf' = CommitRead(rbuf, n)
  BY DEF WriteSome
<1> DEFINE ro == rbuf.read_offset
           count == DataCount(rbuf)
           got == Len(received)
<1>2. /\ Sound(rbuf) /\ count \in 0..Size /\ ro \in Int
      /\ taken \in 0..StreamLen /\ got \in Nat /\ taken = got + count
      /\ taken' = taken /\ eof' = eof
      /\ n \in 1..count
      /\ received \in Seq(Byte)
      /\ \A i \in 1..got : received[i] = i
      /\ \A i \in 1..count : rbuf.mem[Cell(ro + i - 1)] = got + i
  <2>1. Sound(rbuf) /\ count \in 0..Size /\ ro \in Int /\ Size \in Nat
    BY SizeAssumption DEF IInv, Seen, Sound, RingType, Cells
  <2>2. taken \in 0..StreamLen /\ got \in Nat /\ received \in Seq(Byte)
    BY DEF IInv, TypeOK
  <2>3. taken' = taken /\ eof' = eof
    BY DEF WriteSome
  <2> QED BY <2>1, <2>2, <2>3 DEF IInv, Seen, StreamKept
<1>3. /\ Sound(rbuf') /\ rbuf'.mem = rbuf.mem
      /\ DataCount(rbuf') = count - n
      /\ \A i \in 1..count - n :
            Cell(rbuf'.read_offset + i - 1) = Cell(ro + n + i - 1)
  BY <1>1, <1>2, CommitReadDrops
<1> DEFINE loaded == Load(rbuf, n)
<1>4. loaded \in Seq(Byte) /\ Len(loaded) = n /\ \A i \in 1..n : loaded[i] = got + i
  <2>1. \A i \in 1..n : got + i \in Byte
    BY <1>2, StreamAssumption
  <2>2. loaded = [i \in 1..n |-> got + i]
    <3>1. ASSUME NEW i \in 1..n
          PROVE  rbuf.mem[Cell(ro + i - 1)] = got + i
      <4>1. i \in 1..count
        BY <1>2
      <4> QED BY <1>2, <4>1
    <3> QED BY <3>1 DEF Load
  <2> HIDE DEF loaded
  <2>3. loaded \in [1..n -> Byte]
    BY <2>1, <2>2
  <2>4. loaded \in Seq(Byte) /\ Len(loaded) = n
    <3>1. n \in Nat
      BY <1>2
    <3> QED BY <2>3, <3>1
  <2>5. \A i \in 1..n : loaded[i] = got + i
    BY <2>2
  <2> QED BY <2>4, <2>5
<1> HIDE DEF loaded
<1>5. /\ received' \in Seq(Byte) /\ Len(received') = got + n
      /\ \A i \in 1..got + n : received'[i] = i
  <2>1. received' = received \o loaded
    BY <1>1 DEF loaded
  <2>2. received' \in Seq(Byte) /\ Len(received') = got + n
    <3>1. received \in Seq(Byte) /\ loaded \in Seq(Byte) /\ Len(loaded) = n
      BY <1>2, <1>4
    <3> QED BY <2>1, <3>1
  <2>3. ASSUME NEW i \in 1..got + n PROVE received'[i] = i
    <3>1. CASE i <= got
      BY <1>2, <1>4, <2>1, <3>1
    <3>2. CASE i > got
      <4>1. received'[i] = loaded[i - got] /\ i - got \in 1..n
        BY <1>2, <1>4, <2>1, <3>2
      <4>2. loaded[i - got] = got + (i - got)
        BY <1>4, <4>1
      <4> QED BY <1>2, <4>1, <4>2
    <3> QED BY <1>2, <3>1, <3>2
  <2> QED BY <2>2, <2>3
<1>6. ASSUME NEW i \in 1..count - n
      PROVE  rbuf'.mem[Cell(rbuf'.read_offset + i - 1)] = got + n + i
  <2>1. n + i \in 1..count /\ ro + (n + i) - 1 = ro + n + i - 1
    BY <1>2
  <2>2. rbuf.mem[Cell(ro + (n + i) - 1)] = got + (n + i)
    BY <1>2, <2>1
  <2> QED BY SMTT(30), <1>2, <1>3, <2>1, <2>2
<1>7. StreamKept'
  <2> HIDE DEF count, ro, got
  <2>1. taken' = Len(received') + DataCount(rbuf')
    BY <1>2, <1>3, <1>5
  <2>2. \A i \in 1..DataCount(rbuf') :
           rbuf'.mem[Cell(rbuf'.read_offset + i - 1)] = Len(received') + i
    BY <1>2, <1>3, <1>5, <1>6
  <2> QED BY <1>5, <2>1, <2>2 DEF StreamKept, DataCount, Cell
<1>8. Sound(rbuf)'
  BY <1>3 DEF Sound, RingType, DataCount
<1>9. (eof => taken = StreamLen)'
  BY <1>2 DEF IInv, Seen
<1> QED BY <1>5, <1>7, <1>8, <1>9 DEF Seen

(* Every step keeps the invariant.                                         *)
LEMMA StepInv == IInv /\ [Next]_vars => IInv'
<1> SUFFICES ASSUME IInv, [Next]_vars PROVE IInv'
  OBVIOUS
<1> USE DEF IInv
<1> DEFINE Quiet == UNCHANGED iovars
<1>1. TypeOK' /\ Seen'
  <2>0. ASSUME Quiet PROVE Seen'
    BY <2>0, SeenStays DEF iovars, Seen
  <2>1. CASE Create
    BY <2>1, <2>0 DEF Create, TypeOK, iovars, fdvars
  <2>2. CASE UnblockRfd
    BY <2>2, <2>0 DEF UnblockRfd, MakeUnblock, TypeOK, iovars, fdvars, Fds
  <2>3. CASE UnblockWfd
    BY <2>3, <2>0 DEF UnblockWfd, MakeUnblock, TypeOK, iovars, fdvars, Fds
  <2>4. CASE Select
    <3>1. Seen'
      BY <2>4, SeenStays DEF Select, Seen
    <3>2. ready' \in SUBSET Fds
      BY <2>4 DEF Select, Watched
    <3> QED BY <2>4, <3>1, <3>2 DEF Select, TypeOK, fdvars
  <2>5. CASE ReadSome
    <3>1. Seen' /\ taken' \in 0..StreamLen
      BY <2>5, ReadSeen
    <3>2. rbuf' \in RingType
      BY <3>1 DEF Seen, Sound, RingType
    <3> QED BY <2>5, <3>1, <3>2 DEF ReadSome, TypeOK, fdvars, Fds
  <2>6. CASE ReadEof
    <3>1. Seen'
      BY <2>6, SeenStays DEF ReadEof
    <3> QED BY <2>6, <3>1 DEF ReadEof, TypeOK, fdvars
  <2>7. CASE ReadNothing
    BY <2>7, <2>0 DEF ReadNothing, TypeOK, iovars, fdvars
  <2>8. CASE WriteSome
    <3>1. Seen' /\ received' \in Seq(Byte)
      BY <2>8, WriteSeen
    <3>2. rbuf' \in RingType
      BY <3>1 DEF Seen, Sound, RingType
    <3> QED BY <2>8, <3>1, <3>2 DEF WriteSome, TypeOK, fdvars
  <2>9. CASE WriteNothing
    BY <2>9, <2>0 DEF WriteNothing, TypeOK, iovars, fdvars
  <2>10. CASE Again
    BY <2>10, <2>0 DEF Again, TypeOK, iovars, fdvars
  <2>11. CASE Finish
    <3>1. told' \in Seq({0, -1}) /\ open' \in SUBSET Fds
      BY <2>11 DEF Finish, FinishCb, TypeOK
    <3> QED BY <2>11, <2>0, <3>1 DEF Finish, TypeOK, iovars
  <2>12. CASE OnError \/ ReadFails
    <3>0. FinishCb(-1)
      BY <2>12 DEF OnError, ReadFails
    <3>1. told' \in Seq({0, -1}) /\ open' \in SUBSET Fds
      BY <3>0 DEF FinishCb, TypeOK
    <3> QED BY <2>12, <2>0, <3>1 DEF OnError, ReadFails, TypeOK, iovars
  <2>13. CASE RestoreRfd \/ RestoreWfd
    BY <2>13, <2>0 DEF RestoreRfd, RestoreWfd, Restore, TypeOK, iovars, Fds
  <2>14. CASE SelectFails \/ WriteFails
    BY <2>14, <2>0 DEF SelectFails, WriteFails, TypeOK, iovars, fdvars
  <2>15. CASE UNCHANGED vars
    BY <2>15, <2>0 DEF vars, TypeOK, iovars
  <2> QED
    BY <2>1, <2>2, <2>3, <2>4, <2>5, <2>6, <2>7, <2>8, <2>9, <2>10, <2>11,
       <2>12, <2>13, <2>14, <2>15 DEF Next, Step, Failure
<1>2. Verdict'
  <2> USE DEF Verdict, Streaming, Ending
  <2>1. CASE Create \/ UnblockRfd \/ UnblockWfd
    BY <2>1 DEF Create, UnblockRfd, UnblockWfd, MakeUnblock, iovars
  <2>2. CASE Select \/ SelectFails \/ ReadSome \/ ReadEof \/ ReadNothing
             \/ WriteSome \/ WriteNothing \/ WriteFails \/ Again
    BY <2>2 DEF Select, SelectFails, ReadSome, ReadEof, ReadNothing, WriteSome,
                WriteNothing, WriteFails, Again
  <2>3. CASE Finish
    <3>1. told' = <<0>> /\ pc' = "restore_rfd" /\ received' = received
      BY <2>3 DEF Finish, FinishCb, iovars
    <3>2. Len(received) = StreamLen
      <4>1. DataCount(rbuf) = 0 /\ taken = StreamLen
        BY <2>3 DEF Finish, Streamed, Seen
      <4>2. taken = Len(received) + DataCount(rbuf) /\ Len(received) \in Nat
        BY DEF Seen, StreamKept, TypeOK
      <4> QED BY <4>1, <4>2
    <3> QED BY <3>1, <3>2
  <2>4. CASE OnError \/ ReadFails
    <3>1. \A i \in 1..Len(told) : told[i] = -1
      BY <2>4 DEF OnError, ReadFails
    <3>2. told \in Seq({0, -1}) /\ told' = Append(told, -1)
      BY <2>4 DEF OnError, ReadFails, FinishCb, TypeOK
    <3>3. \A i \in 1..Len(told') : told'[i] = -1
      BY <3>1, <3>2
    <3> QED BY <2>4, <3>3 DEF OnError, ReadFails
  <2>5. CASE RestoreRfd \/ RestoreWfd
    BY <2>5 DEF RestoreRfd, RestoreWfd, Restore, iovars
  <2>6. CASE UNCHANGED vars
    BY <2>6 DEF vars
  <2> QED
    BY <2>1, <2>2, <2>3, <2>4, <2>5, <2>6 DEF Next, Step, Failure
<1>3. FlagsKept'
  <2> USE DEF FlagsKept, Streaming, Fds
  <2>0. mode \in [Fds -> {"own", "nonblock", "unset"}] /\ saved \in [Fds -> {"own", "nonblock", "unset"}]
        /\ open \subseteq Fds
    BY DEF TypeOK
  <2>1. CASE Create
    BY <2>0, <2>1 DEF Create, fdvars
  <2>2. CASE UnblockRfd
    BY <2>0, <2>2 DEF UnblockRfd, MakeUnblock
  <2>3. CASE UnblockWfd
    BY <2>0, <2>3 DEF UnblockWfd, MakeUnblock
  <2>4. CASE Select \/ SelectFails \/ ReadSome \/ ReadEof \/ ReadNothing
             \/ WriteSome \/ WriteNothing \/ WriteFails \/ Again
    BY <2>4 DEF Select, SelectFails, ReadSome, ReadEof, ReadNothing, WriteSome,
                WriteNothing, WriteFails, Again, fdvars
  <2>5. CASE Finish \/ OnError \/ ReadFails
    BY <2>0, <2>5 DEF Finish, OnError, ReadFails, FinishCb
  <2>6. CASE RestoreRfd
    BY <2>0, <2>6 DEF RestoreRfd, Restore
  <2>7. CASE RestoreWfd
    BY <2>0, <2>7 DEF RestoreWfd, Restore
  <2>8. CASE UNCHANGED vars
    BY <2>8 DEF vars
  <2> QED
    BY <2>1, <2>2, <2>3, <2>4, <2>5, <2>6, <2>7, <2>8 DEF Next, Step, Failure
<1> QED BY <1>1, <1>2, <1>3

THEOREM Invariance == Spec => []IInv
<1>1. Init => IInv
  BY InitInv
<1>2. IInv /\ [Next]_vars => IInv'
  BY StepInv
<1> QED BY <1>1, <1>2, PTL DEF Spec

(* fd_dump gives read and write addresses within the two mappings of the   *)
(* buffer only, for every size of it.                                      *)
THEOREM Ranges == Spec => []RangesMapped
<1>1. IInv => RangesMapped
  <2> SUFFICES ASSUME Sound(rbuf) PROVE RangesMapped
    BY DEF IInv, Seen
  <2>1. /\ Size \in Nat
        /\ rbuf.read_offset \in 0..Size - 1 /\ rbuf.write_offset \in Int
        /\ DataCount(rbuf) \in 0..Size
        /\ DataCount(rbuf) = rbuf.write_offset - rbuf.read_offset
    BY SizeAssumption DEF Sound, RingType, Cells, DataCount
  <2> QED BY <2>1 DEF RangesMapped, FreeSpace
<1> QED BY <1>1, Invariance, PTL

(* The bytes of rfd reach wfd in order, none lost and none twice, for      *)
(* every size of the buffer, every stream and every split of it into reads *)
(* and writes.                                                             *)
THEOREM Stream == Spec => []StreamKept
<1>1. IInv => StreamKept
  BY DEF IInv, Seen
<1> QED BY <1>1, Invariance, PTL

(* finish_cb is told of success at most once, after the whole stream, and  *)
(* never of an error too.                                                  *)
THEOREM Success == Spec => []SuccessMeansStreamed
<1>1. IInv => SuccessMeansStreamed
  BY DEF IInv, TypeOK, Verdict, Streaming, Ending, SuccessMeansStreamed
<1> QED BY <1>1, Invariance, PTL

(* Flags that were not saved are never restored, and fd_dump returns with  *)
(* the flags its caller had set.                                           *)
THEOREM Flags == Spec => []FlagsRestored
<1>1. IInv => FlagsRestored
  BY DEF IInv, FlagsKept, FlagsRestored
<1> QED BY <1>1, Invariance, PTL

(* fd_dump's variables keep their types.                                   *)
THEOREM TypeCorrect == Spec => []TypeOK
<1>1. IInv => TypeOK
  BY DEF IInv
<1> QED BY <1>1, Invariance, PTL
=============================================================================
