--------------------------- MODULE RingBufferProofs ---------------------------
(***************************************************************************)
(* What storing and taking do to the data of a ring buffer, for every size *)
(* of it; for FdDumpProofs and SourcesProofs.                              *)
(***************************************************************************)
EXTENDS RingBuffer, TLAPS

(* The offsets are where read and write may go from.                       *)
Sound(b) == b \in RingType /\ DataCount(b) \in 0..Size

(* Bytes stored in free space keep the data of the buffer and follow it.   *)
LEMMA StoreAppends ==
    ASSUME NEW b, Sound(b),
           NEW bytes \in Seq(Byte), Len(bytes) <= FreeSpace(b),
           NEW s, s = CommitWrite(Store(b, bytes), Len(bytes))
    PROVE  /\ Sound(s)
           /\ s.read_offset = b.read_offset
           /\ DataCount(s) = DataCount(b) + Len(bytes)
           /\ \A i \in 1..DataCount(b) :
                 s.mem[Cell(b.read_offset + i - 1)] = b.mem[Cell(b.read_offset + i - 1)]
           /\ \A i \in 1..Len(bytes) :
                 s.mem[Cell(b.read_offset + DataCount(b) + i - 1)] = bytes[i]
<1> DEFINE k == Len(bytes)
           ro == b.read_offset
           wo == b.write_offset
           slot(c) == Address(wo, c) - wo + 1
           mem == [c \in Cells |-> IF slot(c) \in 1..k THEN bytes[slot(c)] ELSE b.mem[c]]
<1>1. /\ Size \in Nat /\ Size > 0
      /\ ro \in 0..Size - 1 /\ wo \in ro..ro + Size
      /\ b.mem \in [Cells -> Byte]
      /\ k \in Nat /\ wo + k <= ro + Size
      /\ b = [write_offset |-> wo, read_offset |-> ro, mem |-> b.mem]
  BY SizeAssumption DEF Sound, RingType, DataCount, FreeSpace, Cells
<1>2. s = [write_offset |-> wo + k, read_offset |-> ro, mem |-> mem]
  <2>1. Store(b, bytes) = [b EXCEPT !.mem = mem]
    BY DEF Store
  <2> HIDE DEF mem
  <2>2. Store(b, bytes) = [write_offset |-> wo, read_offset |-> ro, mem |-> mem]
    BY <1>1, <2>1
  <2> QED BY <2>2 DEF CommitWrite
<1>3. \A i \in 1..k : bytes[i] \in Byte
  OBVIOUS
<1>4. mem \in [Cells -> Byte]
  BY <1>1, <1>3
<1> HIDE DEF k, ro, wo
<1>5. ASSUME NEW a \in ro..wo - 1
      PROVE  mem[Cell(a)] = b.mem[Cell(a)]
  <2>1. a \in Int /\ ro <= a /\ a < wo
    BY <1>1
  <2>2. CASE a < Size
    <3>1. Cell(a) = a /\ a \in Cells /\ slot(a) = a + Size - wo + 1
      BY <1>1, <2>1, <2>2 DEF Cell, Cells, Address
    <3>2. a + Size - wo + 1 > k
      BY <1>1, <2>1
    <3> QED BY <1>1, <2>1, <3>1, <3>2
  <2>3. CASE a >= Size
    <3>1. Cell(a) = a - Size /\ a - Size \in Cells /\ slot(a - Size) = a - wo + 1
      BY <1>1, <2>1, <2>3 DEF Cell, Cells, Address
    <3>2. a - wo + 1 <= 0
      BY <1>1, <2>1
    <3> QED BY <1>1, <2>1, <3>1, <3>2
  <2> QED BY <1>1, <2>1, <2>2, <2>3
<1>6. ASSUME NEW i \in 1..k
      PROVE  mem[Cell(wo + i - 1)] = bytes[i]
  <2>1. CASE wo + i - 1 < Size
    BY SMTT(30), <1>1, <2>1 DEF Cell, Cells, Address
  <2>2. CASE wo + i - 1 >= Size
    <3>1. /\ Cell(wo + i - 1) = wo + i - 1 - Size
          /\ wo + i - 1 - Size \in Cells
          /\ slot(wo + i - 1 - Size) = i
      BY <1>1, <2>2 DEF Cell, Cells, Address
    <3> QED BY <3>1
  <2> QED BY <1>1, <2>1, <2>2
<1> HIDE DEF mem
<1>7. DataCount(s) = wo - ro + k /\ DataCount(b) = wo - ro
  <2>1. DataCount(s) = (wo + k) - ro
    BY <1>2 DEF DataCount
  <2>2. DataCount(b) = wo - ro
    BY DEF DataCount, wo, ro
  <2> QED BY <1>1, <2>1, <2>2
<1>8. Sound(s)
  BY <1>1, <1>2, <1>4, <1>7 DEF Sound, RingType, Cells
<1>9. s.read_offset = ro /\ s.mem = mem
  BY <1>2
<1>10. ASSUME NEW i \in 1..DataCount(b)
       PROVE  s.mem[Cell(ro + i - 1)] = b.mem[Cell(ro + i - 1)]
  <2>1. ro + i - 1 \in ro..wo - 1
    BY <1>1, <1>7
  <2> QED BY <1>5, <1>9, <2>1
<1>11. ASSUME NEW i \in 1..k
       PROVE  s.mem[Cell(ro + DataCount(b) + i - 1)] = bytes[i]
  <2>1. ro + DataCount(b) + i - 1 = wo + i - 1
    BY <1>1, <1>7
  <2> QED BY <1>6, <1>9, <2>1
<1> QED
  BY <1>1, <1>7, <1>8, <1>9, <1>10, <1>11 DEF ro, k

(* Taking n bytes leaves the others, in their order.                       *)
LEMMA CommitReadDrops ==
    ASSUME NEW b, Sound(b),
           NEW n \in 0..DataCount(b),
           NEW s, s = CommitRead(b, n)
    PROVE  /\ Sound(s)
           /\ s.mem = b.mem
           /\ DataCount(s) = DataCount(b) - n
           /\ \A i \in 1..DataCount(s) :
                 Cell(s.read_offset + i - 1) = Cell(b.read_offset + n + i - 1)
<1> DEFINE ro == b.read_offset
           wo == b.write_offset
           wrap == IF ro + n >= Size THEN Size ELSE 0
<1>1. /\ Size \in Nat /\ Size > 0
      /\ ro \in 0..Size - 1 /\ wo \in ro..ro + Size
      /\ n \in 0..wo - ro
      /\ b.mem \in [Cells -> Byte]
      /\ b = [write_offset |-> wo, read_offset |-> ro, mem |-> b.mem]
  BY SizeAssumption DEF Sound, RingType, DataCount, Cells
<1>2. s = [write_offset |-> wo - wrap, read_offset |-> ro + n - wrap, mem |-> b.mem]
  BY <1>1 DEF CommitRead, MovedBack
<1>3. DataCount(b) = wo - ro
  BY DEF DataCount
<1> HIDE DEF ro, wo
<1>4. DataCount(s) = wo - ro - n
  BY <1>1, <1>2 DEF DataCount
<1>5. Sound(s)
  BY <1>1, <1>2, <1>4 DEF Sound, RingType, Cells
<1>6. ASSUME NEW i \in 1..DataCount(s)
      PROVE  Cell(s.read_offset + i - 1) = Cell(ro + n + i - 1)
  BY <1>1, <1>2, <1>4 DEF Cell
<1> QED
  BY <1>2, <1>3, <1>4, <1>5, <1>6 DEF ro
=============================================================================
