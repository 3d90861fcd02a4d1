---------------------------- MODULE SourcesProofs ----------------------------
(***************************************************************************)
(* Proofs about what feeds the event loop, and about the buffered reads:   *)
(* for any number of registrations, of threads that signals interrupt and  *)
(* of timers, any delays, any sizes of pipes and buffers, and any file.    *)
(***************************************************************************)
EXTENDS Signals, Timers, FsRead, BufferedIo, RingBufferProofs, FiniteSetTheorems

(***************************************************************************)
(* Signals.  That a watched signal is caught holds as long as the          *)
(* registrations are made one at a time (Adders = 1).                      *)
(***************************************************************************)

SignalTypes ==
    /\ es_data \in Regs \cup {NULL} /\ caught \in BOOLEAN
    /\ stage \in [Regs -> Stages]
    /\ bytes \in [Regs -> 0..PipeSize]
    /\ frame \in [Threads -> Regs \cup {NULL}]
    /\ due \subseteq Regs /\ broken \in BOOLEAN

(* A registration has its place in es_data from catch_signal until         *)
(* ev_sig_data_free gives it up, and so there is one of them at most; and  *)
(* nobody has it while a registration is about to take it.                 *)
Owners == {"set", "caught", "watched", "drain", "call", "stuck", "close", "clear"}
OneOwner ==
    \A r \in Regs :
        /\ stage[r] \in Owners => es_data = r
        /\ stage[r] = "made" => es_data = NULL
OneAdding == \A q, r \in Regs : stage[q] \in Adding /\ stage[r] \in Adding => q = r

CaughtInTime == \A r \in Regs : stage[r] \in {"caught"} \cup InLoop => caught

CaughtInv == SignalTypes /\ OneOwner /\ OneAdding /\ CaughtInTime

(* Only events that are on their way in, or in the loop, are due.          *)
DueInTime == \A r \in due : stage[r] \in Adding \cup InLoop

KeptInv == SignalTypes /\ DueInTime /\ SignalsNotLost

-----------------------------------------------------------------------------
(* With one adder, add_signal_ev begins only when no other is at work.     *)
LEMMA NobodyAdding ==
    ASSUME SignalsAssumption, Adders = 1, NEW r \in Regs, Make(r)
    PROVE  \A q \in Regs : stage[q] \notin Adding
<1> DEFINE A == {q \in Regs : stage[q] \in Adding}
<1>1. IsFiniteSet(A)
  BY FS_Subset DEF SignalsAssumption
<1>2. Cardinality(A) \in Nat /\ Cardinality(A) < 1
  BY <1>1, FS_CardinalityType DEF Make
<1>3. A = {}
  BY <1>1, <1>2, FS_EmptySet
<1> QED
  BY <1>3

LEMMA SignalInitInv ==
    ASSUME SignalsAssumption, Init
    PROVE  CaughtInv /\ KeptInv
<1>1. es_data \in Regs \cup {NULL} /\ stage \in [Regs -> Stages] /\ due \subseteq Regs
  BY DEF Init, Stages
<1>2. bytes \in [Regs -> 0..PipeSize] /\ frame \in [Threads -> Regs \cup {NULL}]
  BY DEF Init, SignalsAssumption
<1>3. caught \in BOOLEAN /\ broken \in BOOLEAN
  BY Zenon DEF Init
<1>4. OneOwner /\ OneAdding /\ CaughtInTime /\ DueInTime /\ SignalsNotLost
  BY DEF Init, OneOwner, OneAdding, CaughtInTime, DueInTime, SignalsNotLost, Owners, Adding, InLoop
<1> QED
  BY <1>1, <1>2, <1>3, <1>4 DEF CaughtInv, KeptInv, SignalTypes

LEMMA SignalTypesNext ==
    ASSUME SignalsAssumption, SignalTypes, [Next]_vars
    PROVE  SignalTypes'
<1> USE DEF SignalTypes, SignalsAssumption
<1>1. ASSUME NEW r \in Regs, Make(r) PROVE SignalTypes'
  BY <1>1 DEF Make, At, Go, Stages, Adding
<1>2. ASSUME NEW r \in Regs, CatchSet(r) \/ CatchRegister(r) \/ Watch(r) PROVE SignalTypes'
  BY <1>2 DEF CatchSet, CatchRegister, Watch, At, Go, Stages, Adding, InLoop, Leaving
<1>3. ASSUME NEW r \in Regs, LoopStep(r) PROVE SignalTypes'
  <2>1. CASE Report(r) \/ DrainByte(r)
    BY <2>1 DEF Report, DrainByte, At, Go, Stages, InLoop
  <2>2. CASE DrainedCall(r) \/ DrainedMute(r) \/ CallReturns(r)
    BY <2>2 DEF DrainedCall, DrainedMute, CallReturns, At, Go, Stages, InLoop, Leaving
  <2> QED
    BY <1>3, <2>1, <2>2 DEF LoopStep
<1>4. ASSUME NEW r \in Regs, CloseWfd(r) \/ ClearData(r) \/ Release(r) PROVE SignalTypes'
  BY <1>4 DEF CloseWfd, ClearData, Release, At, Go, Stages, Leaving
<1>5. ASSUME NEW t \in Threads, SignalArrives(t) PROVE SignalTypes'
  BY <1>5 DEF SignalArrives
<1>6. ASSUME NEW t \in Threads, HandlerWrites(t) PROVE SignalTypes'
  BY <1>6 DEF HandlerWrites
<1>7. ASSUME MonitorFree PROVE SignalTypes'
  BY <1>7 DEF MonitorFree, Stages, Leaving
<1>8. ASSUME UNCHANGED vars PROVE SignalTypes'
  BY <1>8 DEF vars
<1> QED
  BY <1>1, <1>2, <1>3, <1>4, <1>5, <1>6, <1>7, <1>8 DEF Next

(* A step of one registration keeps the others where they are, which is    *)
(* why at most one of them is being added, and one has es_data.            *)
LEMMA PlacesNext ==
    ASSUME SignalsAssumption, Adders = 1, CaughtInv, [Next]_vars
    PROVE  OneOwner' /\ OneAdding' /\ CaughtInTime'
<1> DEFINE P == OneOwner /\ OneAdding /\ CaughtInTime
<1> SUFFICES P'
  OBVIOUS
<1> USE DEF CaughtInv, SignalTypes, SignalsAssumption, OneOwner, OneAdding, CaughtInTime, Owners,
        Adding, InLoop
<1>1. ASSUME NEW r \in Regs, Make(r) PROVE P'
  BY <1>1, NobodyAdding DEF Make, At, Go
<1>2. ASSUME NEW r \in Regs, CatchSet(r) PROVE P'
  BY <1>2 DEF CatchSet, At, Go
<1>3. ASSUME NEW r \in Regs, CatchRegister(r) PROVE P'
  BY <1>3 DEF CatchRegister, At, Go
<1>4. ASSUME NEW r \in Regs, Watch(r) PROVE P'
  BY <1>4 DEF Watch, At, Go
<1>5. ASSUME NEW r \in Regs, Report(r) PROVE P'
  BY <1>5 DEF Report, At, Go
<1>6. ASSUME NEW r \in Regs, DrainByte(r) PROVE P'
  BY <1>6 DEF DrainByte, At, Go
<1>7. ASSUME NEW r \in Regs, DrainedCall(r) \/ DrainedMute(r) PROVE P'
  BY <1>7 DEF DrainedCall, DrainedMute, At, Go
<1>8. ASSUME NEW r \in Regs, CallReturns(r) PROVE P'
  BY <1>8 DEF CallReturns, At, Go
<1>9. ASSUME NEW r \in Regs, CloseWfd(r) PROVE P'
  BY <1>9 DEF CloseWfd, At, Go
<1>10. ASSUME NEW r \in Regs, ClearData(r) PROVE P'
  BY <1>10 DEF ClearData, At, Go
<1>11. ASSUME NEW r \in Regs, Release(r) PROVE P'
  BY <1>11 DEF Release, At, Go
<1>12. ASSUME NEW t \in Threads, SignalArrives(t) PROVE P'
  BY <1>12 DEF SignalArrives
<1>13. ASSUME NEW t \in Threads, HandlerWrites(t) PROVE P'
  BY <1>13 DEF HandlerWrites
<1>14. ASSUME MonitorFree PROVE P'
  BY <1>14 DEF MonitorFree
<1>15. ASSUME UNCHANGED vars PROVE P'
  BY <1>15 DEF vars
<1> QED
  BY <1>1, <1>2, <1>3, <1>4, <1>5, <1>6, <1>7, <1>8, <1>9, <1>10, <1>11, <1>12, <1>13, <1>14,
     <1>15 DEF Next, LoopStep

(* While an event is watched, or its pipe is read, its signal is caught    *)
(* and es_data leads s_handler to its pipe: no event that ends takes the   *)
(* handler or the place of its successor away.                             *)
THEOREM WatchedSignalIsCaught ==
    ASSUME SignalsAssumption, Adders = 1
    PROVE  Spec => []WatchedMeansCaught
<1>1. Init => CaughtInv
  BY SignalInitInv
<1>2. CaughtInv /\ [Next]_vars => CaughtInv'
  BY SignalTypesNext, PlacesNext DEF CaughtInv
<1>3. CaughtInv => WatchedMeansCaught
  BY DEF CaughtInv, OneOwner, CaughtInTime, WatchedMeansCaught, Owners, InLoop
<1> QED
  BY <1>1, <1>2, <1>3, PTL DEF Spec

-----------------------------------------------------------------------------
(* A step takes a byte or a handler's frame away from an event that is due *)
(* only while on_sigev reads, which will call back.                        *)
LEMMA NotLostNext ==
    ASSUME SignalsAssumption, KeptInv, [Next]_vars
    PROVE  DueInTime' /\ SignalsNotLost'
<1> DEFINE P == DueInTime /\ SignalsNotLost
<1> SUFFICES P'
  OBVIOUS
<1> USE DEF KeptInv, SignalTypes, SignalsAssumption, DueInTime, SignalsNotLost, Adding, InLoop
<1>1. ASSUME NEW r \in Regs, Make(r) PROVE P'
  BY <1>1 DEF Make, At, Go
<1>2. ASSUME NEW r \in Regs, CatchSet(r) \/ CatchRegister(r) PROVE P'
  BY <1>2 DEF CatchSet, CatchRegister, At, Go
<1>3. ASSUME NEW r \in Regs, Watch(r) PROVE P'
  BY <1>3 DEF Watch, At, Go
<1>4. ASSUME NEW r \in Regs, Report(r) PROVE P'
  BY <1>4 DEF Report, At, Go
<1>5. ASSUME NEW r \in Regs, DrainByte(r) PROVE P'
  BY <1>5 DEF DrainByte, At, Go
<1>6. ASSUME NEW r \in Regs, DrainedCall(r) \/ DrainedMute(r) PROVE P'
  BY <1>6 DEF DrainedCall, DrainedMute, At, Go
<1>7. ASSUME NEW r \in Regs, CallReturns(r) PROVE P'
  BY <1>7 DEF CallReturns, At, Go
<1>8. ASSUME NEW r \in Regs, CloseWfd(r) \/ ClearData(r) \/ Release(r) PROVE P'
  BY <1>8 DEF CloseWfd, ClearData, Release, At, Go
<1>9. ASSUME NEW t \in Threads, SignalArrives(t) PROVE P'
  BY <1>9 DEF SignalArrives
<1>10. ASSUME NEW t \in Threads, HandlerWrites(t) PROVE P'
  <2>1. ASSUME NEW r \in due', r = frame[t] PROVE bytes'[r] > 0
    BY <1>10, <2>1 DEF HandlerWrites
  <2>2. ASSUME NEW r \in due', r # frame[t]
        PROVE  bytes'[r] > 0 \/ stage'[r] = "drain" \/ \E u \in Threads : frame'[u] = r
    BY <1>10, <2>2 DEF HandlerWrites
  <2>3. DueInTime'
    BY <1>10 DEF HandlerWrites
  <2> QED
    BY <2>1, <2>2, <2>3
<1>11. ASSUME MonitorFree \/ UNCHANGED vars PROVE P'
  BY <1>11 DEF MonitorFree, vars
<1> QED
  BY <1>1, <1>2, <1>3, <1>4, <1>5, <1>6, <1>7, <1>8, <1>9, <1>10, <1>11 DEF Next, LoopStep

(* A signal that has arrived for an event is not lost before its callback  *)
(* is called, from however many threads events are registered.             *)
THEOREM ArrivedSignalIsKept ==
    ASSUME SignalsAssumption
    PROVE  Spec => []SignalsNotLost
<1>1. Init => KeptInv
  BY SignalInitInv
<1>2. KeptInv /\ [Next]_vars => KeptInv'
  BY SignalTypesNext, NotLostNext DEF KeptInv
<1>3. KeptInv => SignalsNotLost
  BY DEF KeptInv
<1> QED
  BY <1>1, <1>2, <1>3, PTL DEF Spec

(***************************************************************************)
(* Timers.                                                                 *)
(***************************************************************************)

TimerStages == {"none", "set", "watched", "read", "call", "free", "lost"}

TimerTypes ==
    /\ tstage \in [Timers -> TimerStages]
    /\ left \in [Timers -> Nat] /\ interval \in [Timers -> Nat]
    /\ expired \in [Timers -> Nat] /\ credit \in [Timers -> Int]

(* The timerfd is disarmed, or within one delay of its next expiration.    *)
Armed ==
    \A k \in Timers :
        /\ left[k] <= Delay[k] /\ interval[k] \in {0, Delay[k]}
        /\ tstage[k] = "none" => left[k] = 0 /\ expired[k] = 0 /\ credit[k] = 0
        /\ tstage[k] = "read" => expired[k] > 0

(* The ticks that a timer has to its credit cover those since it was last  *)
(* set or expired, and a whole delay for an expiration that has not been   *)
(* read: the call that will use it up finds it there.                      *)
Elapsed(k) == IF left[k] = 0 THEN 0 ELSE Delay[k] - left[k]
Unread(k)  == IF expired[k] > 0 THEN Delay[k] ELSE 0
Covered == \A k \in Timers : credit[k] >= Elapsed(k) + Unread(k)

TimerInv == TimerTypes /\ Armed /\ Covered

-----------------------------------------------------------------------------
LEMMA TimerInitInv ==
    ASSUME TimersAssumption, TimerInit
    PROVE  TimerInv
BY DEF TimersAssumption, TimerInit, TimerInv, TimerTypes, TimerStages, Armed, Covered, Elapsed,
       Unread

(* A tick brings each timer nearer to its expiration, and its credit       *)
(* nearer to the delay that the expiration will cost; the bound Limit cuts *)
(* off only what is above two delays.                                      *)
LEMMA TickInv ==
    ASSUME TimersAssumption, TimerInv, Tick
    PROVE  TimerInv'
<1> USE DEF TimerInv, TimerTypes, Armed, TimersAssumption
<1>1. TimerTypes'
  BY DEF Tick, Capped
<1>2. ASSUME NEW k \in Timers
      PROVE  /\ left'[k] <= Delay[k] /\ interval'[k] \in {0, Delay[k]}
             /\ tstage'[k] = "none" => left'[k] = 0 /\ expired'[k] = 0 /\ credit'[k] = 0
             /\ tstage'[k] = "read" => expired'[k] > 0
  BY DEF Tick, Capped
<1>3. ASSUME NEW k \in Timers PROVE credit'[k] >= Elapsed(k)' + Unread(k)'
  <2>1. /\ credit[k] >= Elapsed(k) + Unread(k) /\ left[k] <= Delay[k] /\ Delay[k] \in Nat
        /\ left[k] \in Nat /\ credit[k] \in Int /\ credit'[k] \in Int
    BY <1>1 DEF Covered
  <2>2. CASE tstage[k] = "none"
    BY <2>1, <2>2 DEF Tick, Elapsed, Unread
  <2>3. CASE tstage[k] # "none"
    <3>1. credit'[k] >= credit[k] + 1 \/ credit'[k] >= 2 * Delay[k]
      BY <2>1, <2>3 DEF Tick, Capped
    <3>2. CASE left[k] > 1
      <4>1. left'[k] = left[k] - 1 /\ expired'[k] = expired[k]
        BY <3>2 DEF Tick
      <4> QED
        BY <2>1, <3>1, <3>2, <4>1 DEF Elapsed, Unread
    <3>3. CASE left[k] = 1
      <4>1. left'[k] = interval[k] /\ expired'[k] > 0
        BY <3>3 DEF Tick, Capped
      <4>2. Elapsed(k)' = 0 /\ Unread(k)' = Delay[k]
        BY <2>1, <4>1 DEF Elapsed, Unread
      <4> QED
        BY <2>1, <3>1, <3>3, <4>2 DEF Elapsed, Unread
    <3>4. CASE left[k] = 0
      <4>1. left'[k] = 0 /\ expired'[k] = expired[k]
        BY <3>4 DEF Tick
      <4> QED
        BY <2>1, <3>1, <3>4, <4>1 DEF Elapsed, Unread
    <3> QED
      BY <3>2, <3>3, <3>4
  <2> QED
    BY <2>2, <2>3
<1> QED
  BY <1>1, <1>2, <1>3 DEF Covered, Tick

LEMMA TimerStepInv ==
    ASSUME TimersAssumption, TimerInv, [TimerNext]_timerVars
    PROVE  TimerInv'
<1> USE DEF TimersAssumption, TimerInv, TimerTypes, TimerStages, Armed, Covered, Elapsed, Unread,
        TimerAt, TimerGo
<1>1. ASSUME NEW k \in Timers, Set(k) PROVE TimerInv'
  BY <1>1 DEF Set, SetTime, Itimerspec
<1>2. ASSUME NEW k \in Timers, WatchTimer(k) PROVE TimerInv'
  BY <1>2 DEF WatchTimer
<1>3. ASSUME NEW k \in Timers, ReportTimer(k) PROVE TimerInv'
  BY <1>3 DEF ReportTimer
<1>4. ASSUME NEW k \in Timers, ReadAndCall(k) PROVE TimerInv'
  BY SMTT(30), <1>4 DEF ReadAndCall
<1>5. ASSUME NEW k \in Timers, ReadUncalled(k) PROVE TimerInv'
  BY SMTT(30), <1>5 DEF ReadUncalled
<1>6. ASSUME NEW k \in Timers, TimerReturns(k) PROVE TimerInv'
  <2>1. CASE /\ tstage[k] = "call" /\ tstage' = [tstage EXCEPT ![k] = "watched"]
             /\ UNCHANGED <<left, interval, expired, credit>>
    BY <2>1
  <2>2. CASE /\ tstage[k] = "call" /\ tstage' = [tstage EXCEPT ![k] = "free"]
             /\ SetTime(k, [value |-> 0, interval |-> 0]) /\ UNCHANGED credit
    BY SMTT(30), <2>2 DEF SetTime
  <2> QED
    BY <1>6, <2>1, <2>2 DEF TimerReturns
<1>7. ASSUME NEW k \in Timers, Free(k) PROVE TimerInv'
  BY <1>7 DEF Free, SetTime
<1>8. ASSUME UNCHANGED timerVars PROVE TimerInv'
  BY <1>8 DEF timerVars
<1> QED
  BY <1>1, <1>2, <1>3, <1>4, <1>5, <1>6, <1>7, <1>8, TickInv DEF TimerNext, EventStep

(* However late a timer is reported, read and called back, its n-th call   *)
(* comes no earlier than n delays after it was set.                        *)
THEOREM CallsAreNotEarly ==
    ASSUME TimersAssumption
    PROVE  TimerSpec => []TimerNotEarly
<1>1. TimerInit => TimerInv
  BY TimerInitInv
<1>2. TimerInv /\ [TimerNext]_timerVars => TimerInv'
  BY TimerStepInv
<1>3. TimerInv => TimerNotEarly
  <2> SUFFICES ASSUME TimerInv, NEW k \in Timers PROVE credit[k] >= 0
    BY DEF TimerNotEarly
  <2>1. /\ Delay[k] \in Nat /\ left[k] \in Nat /\ left[k] <= Delay[k] /\ credit[k] \in Int
        /\ credit[k] >= Elapsed(k) + Unread(k)
    BY DEF TimersAssumption, TimerInv, TimerTypes, Armed, Covered
  <2>2. Elapsed(k) >= 0 /\ Unread(k) >= 0 /\ Elapsed(k) \in Int /\ Unread(k) \in Int
    BY <2>1 DEF Elapsed, Unread
  <2> QED
    BY <2>1, <2>2
<1> QED
  BY <1>1, <1>2, <1>3, PTL DEF TimerSpec

(***************************************************************************)
(* FsRead: the file reaches the callback.                                  *)
(***************************************************************************)

(* What has been used, and behind it what is in the buffer, is the file.   *)
FileSeen ==
    /\ Sound(rbuf)
    /\ yielded = Len(used) + DataCount(rbuf)
    /\ \A i \in 1..Len(used) : used[i] = i
    /\ \A i \in 1..DataCount(rbuf) :
          rbuf.mem[Cell(rbuf.read_offset + i - 1)] = Len(used) + i
    /\ eof => yielded = StreamLen

(* Nothing is told before the end, and what is told then is one thing.     *)
FileTold ==
    /\ fstage = "open" => yielded = 0 /\ used = <<>>
    /\ fstage = "offer" => DataCount(rbuf) > 0 \/ eof \/ err
    /\ ~(eof /\ err)
    /\ IF fstage = "done"
       THEN \/ told = <<"err">> \/ told = <<"refused">>
            \/ told = <<"eof">> /\ Len(used) = StreamLen
       ELSE told = <<>>

FileInv == FileTypeOK /\ FileSeen /\ FileTold

(* What is loaded from the front of the buffer comes next in the file.     *)
LEMMA LoadedIsNext ==
    ASSUME FileAssumption, FileInv, NEW n \in 0..DataCount(rbuf)
    PROVE  /\ Load(rbuf, n) \in Seq(Byte)
           /\ Len(Load(rbuf, n)) = n
           /\ \A i \in 1..n : Load(rbuf, n)[i] = Len(used) + i
<1> DEFINE ro == rbuf.read_offset
           loaded == Load(rbuf, n)
<1>1. /\ n \in Nat /\ DataCount(rbuf) \in Nat /\ n <= DataCount(rbuf)
      /\ Len(used) \in Nat /\ yielded \in Nat /\ yielded <= StreamLen /\ StreamLen \in Nat
      /\ yielded = Len(used) + DataCount(rbuf)
      /\ \A i \in 1..DataCount(rbuf) : rbuf.mem[Cell(ro + i - 1)] = Len(used) + i
  BY SizeAssumption DEF FileAssumption, FileInv, FileTypeOK, FileSeen, Sound
<1>2. loaded = [i \in 1..n |-> Len(used) + i]
  <2>1. ASSUME NEW i \in 1..n
        PROVE  rbuf.mem[Cell(ro + i - 1)] = Len(used) + i
    <3> HIDE DEF ro
    <3>1. i \in 1..DataCount(rbuf)
      BY <1>1
    <3> QED BY <1>1, <3>1
  <2> QED BY <2>1 DEF Load
<1>3. \A i \in 1..n : Len(used) + i \in Byte
  BY <1>1 DEF FileAssumption
<1> HIDE DEF loaded
<1>4. loaded \in Seq(Byte) /\ Len(loaded) = n
  <2>1. loaded \in [1..n -> Byte]
    BY <1>2, <1>3
  <2> QED BY <1>1, <2>1
<1>5. \A i \in 1..n : loaded[i] = Len(used) + i
  BY <1>2
<1> QED BY <1>4, <1>5 DEF loaded

(* A sequence that counts up to n is the same sequence as the file's start.*)
LEMMA Counting ==
    ASSUME NEW S, NEW s \in Seq(S), NEW n \in Nat, Len(s) = n,
           \A i \in 1..n : s[i] = i
    PROVE  s = [i \in 1..n |-> i]
OBVIOUS

(* Counting on from where a sequence has ended.                            *)
LEMMA CountingOn ==
    ASSUME NEW S, NEW s \in Seq(S), NEW t \in Seq(S),
           \A i \in 1..Len(s) : s[i] = i,
           \A i \in 1..Len(t) : t[i] = Len(s) + i
    PROVE  /\ s \o t \in Seq(S)
           /\ Len(s \o t) = Len(s) + Len(t)
           /\ \A i \in 1..Len(s) + Len(t) : (s \o t)[i] = i
<1>1. Len(s) \in Nat /\ Len(t) \in Nat
  OBVIOUS
<1>2. s \o t \in Seq(S) /\ Len(s \o t) = Len(s) + Len(t)
  OBVIOUS
<1>3. ASSUME NEW i \in 1..Len(s) + Len(t) PROVE (s \o t)[i] = i
  <2>1. CASE i <= Len(s)
    BY <1>1, <2>1
  <2>2. CASE i > Len(s)
    <3>1. (s \o t)[i] = t[i - Len(s)] /\ i - Len(s) \in 1..Len(t)
      BY <1>1, <2>2
    <3>2. t[i - Len(s)] = Len(s) + (i - Len(s))
      BY <3>1
    <3> QED BY <1>1, <3>1, <3>2
  <2> QED BY <1>1, <2>1, <2>2
<1> QED BY <1>2, <1>3

LEMMA FileInvKeeps == FileAssumption /\ FileInv => FileKept
<1> SUFFICES ASSUME FileAssumption, FileInv PROVE FileKept
  OBVIOUS
<1> DEFINE loaded == Load(rbuf, DataCount(rbuf))
<1>1. /\ used \in Seq(Byte) /\ DataCount(rbuf) \in Nat
      /\ yielded \in Nat /\ yielded = Len(used) + DataCount(rbuf)
      /\ \A i \in 1..Len(used) : used[i] = i
  BY SizeAssumption DEF FileAssumption, FileInv, FileTypeOK, FileSeen, Sound
<1>2. /\ loaded \in Seq(Byte) /\ Len(loaded) = DataCount(rbuf)
      /\ \A i \in 1..DataCount(rbuf) : loaded[i] = Len(used) + i
  <2>1. DataCount(rbuf) \in 0..DataCount(rbuf)
    BY <1>1
  <2> QED BY <2>1, LoadedIsNext
<1> HIDE DEF loaded
<1>3. used \o loaded = [i \in 1..yielded |-> i]
  <2>1. /\ used \o loaded \in Seq(Byte)
        /\ Len(used \o loaded) = yielded
        /\ \A i \in 1..yielded : (used \o loaded)[i] = i
    BY <1>1, <1>2, CountingOn
  <2> QED BY ONLY <1>1, <2>1, Counting
<1>4. /\ Len(told) = IF fstage = "done" THEN 1 ELSE 0
      /\ told = <<"eof">> => Len(used) = StreamLen
  BY DEF FileInv, FileTold
<1> QED BY <1>3, <1>4 DEF FileKept, loaded

(* Reading puts the bytes that come next behind what is unread.            *)
LEMMA FileReadSeen ==
    ASSUME FileAssumption, FileInv, ReadSome
    PROVE  FileSeen' /\ yielded' \in 0..StreamLen /\ DataCount(rbuf') > 0
<1>1. PICK n \in 1..FreeSpace(rbuf) :
         /\ yielded + n <= StreamLen
         /\ rbuf' = CommitWrite(Store(rbuf, [i \in 1..n |-> yielded + i]), n)
         /\ yielded' = yielded + n
  BY DEF ReadSome
<1> DEFINE news == [i \in 1..n |-> yielded + i]
           held == DataCount(rbuf)
           ro == rbuf.read_offset
<1>2. /\ Sound(rbuf) /\ held \in 0..Size /\ ro \in Int /\ Size \in Nat
      /\ yielded \in Nat /\ StreamLen \in Nat /\ Len(used) \in Nat
      /\ yielded = Len(used) + held
      /\ used' = used /\ eof' = eof /\ ~eof
      /\ n \in Nat /\ n > 0 /\ n <= FreeSpace(rbuf)
      /\ \A i \in 1..held : rbuf.mem[Cell(ro + i - 1)] = Len(used) + i
  <2>1. Sound(rbuf) /\ held \in 0..Size /\ ro \in Int /\ Size \in Nat
    BY SizeAssumption DEF FileInv, FileSeen, Sound, RingType, Cells
  <2>2. yielded \in Nat /\ StreamLen \in Nat /\ Len(used) \in Nat
    BY DEF FileAssumption, FileInv, FileTypeOK
  <2>3. used' = used /\ eof' = eof /\ ~eof
    BY DEF ReadSome, MayRead
  <2>4. n \in Nat /\ n > 0 /\ n <= FreeSpace(rbuf)
    BY <2>1 DEF FreeSpace
  <2> QED BY <2>1, <2>2, <2>3, <2>4 DEF FileInv, FileSeen
<1>3. news \in Seq(Byte) /\ Len(news) = n
  <2>1. \A i \in 1..n : yielded + i \in Byte
    BY <1>1, <1>2 DEF FileAssumption
  <2> QED BY <1>2, <2>1
<1>4. /\ Sound(rbuf') /\ rbuf'.read_offset = ro
      /\ DataCount(rbuf') = held + n
      /\ \A i \in 1..held : rbuf'.mem[Cell(ro + i - 1)] = rbuf.mem[Cell(ro + i - 1)]
      /\ \A i \in 1..n : rbuf'.mem[Cell(ro + held + i - 1)] = news[i]
  <2>1. rbuf' = CommitWrite(Store(rbuf, news), Len(news))
    BY <1>1, <1>3
  <2> HIDE DEF news
  <2>2. Len(news) <= FreeSpace(rbuf)
    BY <1>2, <1>3
  <2>3. /\ Sound(rbuf')
        /\ rbuf'.read_offset = rbuf.read_offset
        /\ DataCount(rbuf') = DataCount(rbuf) + Len(news)
        /\ \A i \in 1..DataCount(rbuf) :
              rbuf'.mem[Cell(rbuf.read_offset + i - 1)]
                = rbuf.mem[Cell(rbuf.read_offset + i - 1)]
        /\ \A i \in 1..Len(news) :
              rbuf'.mem[Cell(rbuf.read_offset + DataCount(rbuf) + i - 1)] = news[i]
    <3>1. Sound(rbuf) /\ news \in Seq(Byte)
      BY <1>2, <1>3
    <3> QED BY ONLY <3>1, <2>1, <2>2, StoreAppends
  <2> QED BY <1>3, <2>3
<1>5. ASSUME NEW i \in 1..held + n
      PROVE  rbuf'.mem[Cell(ro + i - 1)] = Len(used) + i
  <2>1. CASE i <= held
    BY <1>2, <1>4, <2>1
  <2>2. CASE i > held
    <3> DEFINE j == i - held
    <3>1. news[j] = yielded + j /\ j \in 1..n /\ j = i - held
      <4> HIDE DEF held, news, ro
      <4>1. j \in 1..n
        BY <1>2, <2>2
      <4> QED BY <4>1 DEF news
    <3> HIDE DEF j, news, held, ro
    <3>2. ro + held + j - 1 = ro + i - 1 /\ yielded + j = Len(used) + i
      BY <1>2, <3>1
    <3> QED BY <1>4, <3>1, <3>2
  <2> QED BY <1>2, <2>1, <2>2
<1>6. /\ yielded' = Len(used') + DataCount(rbuf')
      /\ \A i \in 1..Len(used') : used'[i] = i
      /\ \A i \in 1..DataCount(rbuf') :
            rbuf'.mem[Cell(rbuf'.read_offset + i - 1)] = Len(used') + i
  <2> HIDE DEF held, ro
  <2>1. \A i \in 1..Len(used') : used'[i] = i
    BY <1>2 DEF FileInv, FileSeen
  <2>2. yielded' = Len(used') + DataCount(rbuf')
    BY <1>1, <1>2, <1>4
  <2>3. \A i \in 1..DataCount(rbuf') :
           rbuf'.mem[Cell(rbuf'.read_offset + i - 1)] = Len(used') + i
    BY <1>2, <1>4, <1>5
  <2> QED BY <2>1, <2>2, <2>3
<1>7. FileSeen'
  BY <1>2, <1>4, <1>6 DEF FileSeen, Sound, RingType, DataCount, Cell
<1>8. yielded' \in 0..StreamLen /\ DataCount(rbuf') > 0
  BY SMTT(30), <1>1, <1>2, <1>4
<1> QED BY <1>7, <1>8

(* The callback uses the bytes that come next; the others wait.            *)
LEMMA OfferSeen ==
    ASSUME FileAssumption, FileInv, Offer
    PROVE  FileSeen' /\ used' \in Seq(Byte)
<1>1. PICK n \in 0..DataCount(rbuf) :
         /\ used' = used \o Load(rbuf, n)
         /\ rbuf' = CommitRead(rbuf, n)
  BY DEF Offer
<1> DEFINE ro == rbuf.read_offset
           held == DataCount(rbuf)
           got0 == Len(used)
           loaded == Load(rbuf, n)
<1>2. /\ Sound(rbuf) /\ held \in 0..Size /\ ro \in Int
      /\ yielded \in Nat /\ got0 \in Nat /\ yielded = got0 + held
      /\ yielded' = yielded /\ eof' = eof
      /\ n \in 0..held
      /\ used \in Seq(Byte)
      /\ \A i \in 1..got0 : used[i] = i
      /\ \A i \in 1..held : rbuf.mem[Cell(ro + i - 1)] = got0 + i
  <2>1. Sound(rbuf) /\ held \in 0..Size /\ ro \in Int /\ Size \in Nat
    BY SizeAssumption DEF FileInv, FileSeen, Sound, RingType, Cells
  <2>2. yielded \in Nat /\ got0 \in Nat /\ used \in Seq(Byte)
    BY DEF FileAssumption, FileInv, FileTypeOK
  <2>3. yielded' = yielded /\ eof' = eof
    BY DEF Offer
  <2> QED BY <2>1, <2>2, <2>3 DEF FileInv, FileSeen
<1>3. /\ Sound(rbuf') /\ rbuf'.mem = rbuf.mem
      /\ DataCount(rbuf') = held - n
      /\ \A i \in 1..held - n :
            Cell(rbuf'.read_offset + i - 1) = Cell(ro + n + i - 1)
  BY <1>1, <1>2, CommitReadDrops
<1>4. loaded \in Seq(Byte) /\ Len(loaded) = n /\ \A i \in 1..n : loaded[i] = got0 + i
  BY LoadedIsNext
<1>5. /\ used' \in Seq(Byte) /\ Len(used') = got0 + n
      /\ \A i \in 1..got0 + n : used'[i] = i
  <2> HIDE DEF loaded
  <2>1. /\ used \o loaded \in Seq(Byte)
        /\ Len(used \o loaded) = got0 + n
        /\ \A i \in 1..got0 + n : (used \o loaded)[i] = i
    BY <1>2, <1>4, CountingOn
  <2> QED BY <1>1, <2>1 DEF loaded
<1>6. ASSUME NEW i \in 1..held - n
      PROVE  rbuf'.mem[Cell(rbuf'.read_offset + i - 1)] = got0 + n + i
  <2>1. n + i \in 1..held /\ ro + (n + i) - 1 = ro + n + i - 1
    BY <1>2
  <2>2. rbuf.mem[Cell(ro + (n + i) - 1)] = got0 + (n + i)
    BY <1>2, <2>1
  <2> QED BY <1>2, <1>3, <2>1, <2>2
<1> HIDE DEF held, ro, got0
<1>7. /\ yielded' = Len(used') + DataCount(rbuf')
      /\ \A i \in 1..DataCount(rbuf') :
            rbuf'.mem[Cell(rbuf'.read_offset + i - 1)] = Len(used') + i
      /\ eof' => yielded' = StreamLen
  <2>1. yielded' = Len(used') + DataCount(rbuf')
    BY <1>2, <1>3, <1>5
  <2>2. \A i \in 1..DataCount(rbuf') :
           rbuf'.mem[Cell(rbuf'.read_offset + i - 1)] = Len(used') + i
    BY <1>2, <1>3, <1>5, <1>6
  <2>3. eof' => yielded' = StreamLen
    BY <1>2 DEF FileInv, FileSeen
  <2> QED BY <2>1, <2>2, <2>3
<1>8. FileSeen'
  BY <1>3, <1>5, <1>7 DEF FileSeen, Sound, RingType, DataCount, Cell
<1> QED BY <1>5, <1>8

LEMMA FileInitInv == FileAssumption /\ FileInit => FileInv
<1> SUFFICES ASSUME FileAssumption, FileInit PROVE FileInv
  OBVIOUS
<1>1. 0 \in Byte /\ 0 \in 0..StreamLen /\ StreamLen \in Nat
  BY DEF FileAssumption
<1>2. DataCount(rbuf) = 0 /\ Sound(rbuf)
  BY <1>1, SizeAssumption DEF FileInit, Created, DataCount, Sound, RingType, Cells
<1>3. FileTypeOK
  <2>1. {eof, err, idle} \subseteq BOOLEAN
    BY Zenon DEF FileInit
  <2>2. /\ fstage \in {"open", "read", "offer", "done"} /\ yielded \in 0..StreamLen
        /\ used \in Seq(Byte) /\ told \in Seq({"eof", "err", "refused"})
    BY <1>1 DEF FileInit
  <2> QED BY <1>2, <2>1, <2>2 DEF FileTypeOK, Sound
<1>4. FileSeen
  BY <1>2 DEF FileInit, FileSeen
<1>5. FileTold
  BY DEF FileInit, FileTold
<1> QED BY <1>3, <1>4, <1>5 DEF FileInv

LEMMA FileStepInv == FileAssumption /\ FileInv /\ [Turn]_fileVars => FileInv'
<1> SUFFICES ASSUME FileAssumption, FileInv, [Turn]_fileVars PROVE FileInv'
  OBVIOUS
<1> DEFINE Still == UNCHANGED <<rbuf, yielded, used>>
<1>0. ASSUME Still, eof' => eof \/ yielded = StreamLen PROVE FileSeen'
  <2>1. Sound(rbuf)' /\ Len(used)' = Len(used) /\ DataCount(rbuf)' = DataCount(rbuf)
    BY <1>0 DEF FileInv, FileSeen, Sound, RingType, DataCount
  <2>2. eof' => yielded' = StreamLen
    BY <1>0 DEF FileInv, FileSeen
  <2> QED BY <1>0, <2>1, <2>2 DEF FileInv, FileSeen, Cell
<1>1. CASE OpenFails
  <2>1. FileSeen'
    BY <1>0, <1>1 DEF OpenFails
  <2>2. FileTypeOK' /\ FileTold'
    BY <1>1 DEF OpenFails, FileInv, FileTypeOK, FileTold
  <2> QED BY <2>1, <2>2 DEF FileInv
<1>2. CASE OpenSucceeds
  <2>1. /\ yielded = 0 /\ used = <<>> /\ yielded' = 0 /\ used' = <<>>
        /\ eof' = FALSE /\ err' = FALSE /\ fstage' = "read" /\ told' = <<>>
        /\ idle' = idle
    BY <1>2 DEF OpenSucceeds, FileInv, FileTold
  <2>2. rbuf' = Created(rbuf.mem) /\ rbuf.mem \in [Cells -> Byte]
    BY <1>2 DEF OpenSucceeds, FileInv, FileSeen, Sound, RingType
  <2>3. Sound(rbuf') /\ DataCount(rbuf') = 0 /\ rbuf' \in RingType
    BY <2>2, SizeAssumption DEF Created, DataCount, Sound, RingType, Cells
  <2>4. FileSeen'
    BY <2>1, <2>3 DEF FileSeen, Sound, RingType, DataCount
  <2>5. FileTypeOK'
    <3>1. {eof', err', idle'} \subseteq BOOLEAN
      <4>1. idle \in BOOLEAN
        BY DEF FileInv, FileTypeOK
      <4> QED BY <2>1, <4>1, Zenon
    <3>2. /\ fstage' \in {"open", "read", "offer", "done"} /\ yielded' \in 0..StreamLen
          /\ used' \in Seq(Byte) /\ told' \in Seq({"eof", "err", "refused"})
      BY <2>1 DEF FileInv, FileTypeOK
    <3> QED BY <2>3, <3>1, <3>2 DEF FileTypeOK
  <2>6. FileTold'
    BY <2>1 DEF FileTold
  <2> QED BY <2>4, <2>5, <2>6 DEF FileInv
<1>3. CASE ReadSkipped
  <2>1. FileSeen'
    BY <1>0, <1>3 DEF ReadSkipped
  <2>2. DataCount(rbuf) > 0 \/ eof \/ err
    <3>1. DataCount(rbuf) \in 0..Size /\ Size \in Nat \ {0}
      BY SizeAssumption DEF FileInv, FileSeen, Sound
    <3>2. FreeSpace(rbuf) <= 0 \/ eof \/ err
      BY <1>3, <3>1 DEF ReadSkipped, MayRead, FreeSpace
    <3> QED BY <3>1, <3>2 DEF FreeSpace
  <2>3. FileTypeOK' /\ FileTold'
    BY <1>3, <2>2 DEF ReadSkipped, FileInv, FileTypeOK, FileTold, DataCount
  <2> QED BY <2>1, <2>3 DEF FileInv
<1>4. CASE ReadSome
  <2>1. FileSeen' /\ yielded' \in 0..StreamLen /\ DataCount(rbuf') > 0
    BY <1>4, FileReadSeen
  <2>2. rbuf' \in RingType
    BY <2>1 DEF FileSeen, Sound, RingType
  <2>3. FileTypeOK'
    BY <1>4, <2>1, <2>2 DEF ReadSome, FileInv, FileTypeOK
  <2>4. FileTold'
    BY <1>4, <2>1 DEF ReadSome, FileInv, FileTold, DataCount
  <2> QED BY <2>1, <2>3, <2>4 DEF FileInv
<1>5. CASE ReadInterrupted
  <2>1. FileSeen'
    BY <1>0, <1>5 DEF ReadInterrupted
  <2>2. FileTypeOK' /\ FileTold'
    BY <1>5 DEF ReadInterrupted, FileInv, FileTypeOK, FileTold
  <2> QED BY <2>1, <2>2 DEF FileInv
<1>6. CASE ReadEof
  <2>1. FileSeen'
    BY <1>0, <1>6 DEF ReadEof
  <2>2. FileTypeOK' /\ FileTold'
    BY <1>6 DEF ReadEof, MayRead, FileInv, FileTypeOK, FileTold
  <2> QED BY <2>1, <2>2 DEF FileInv
<1>7. CASE ReadFails
  <2>1. FileSeen'
    BY <1>0, <1>7 DEF ReadFails
  <2>2. FileTypeOK' /\ FileTold'
    BY <1>7 DEF ReadFails, MayRead, FileInv, FileTypeOK, FileTold
  <2> QED BY <2>1, <2>2 DEF FileInv
<1>8. CASE Offer
  <2>1. FileSeen' /\ used' \in Seq(Byte)
    BY <1>8, OfferSeen
  <2>2. rbuf' \in RingType
    BY <2>1 DEF FileSeen, Sound, RingType
  <2>3. idle' \in BOOLEAN
    BY <1>8, Zenon DEF Offer
  <2>4. FileTypeOK'
    BY <1>8, <2>1, <2>2, <2>3 DEF Offer, FileInv, FileTypeOK
  <2>5. FileTold'
    BY <1>8 DEF Offer, FileInv, FileTold
  <2> QED BY <2>1, <2>4, <2>5 DEF FileInv
<1>9. CASE OfferRefused
  <2>1. FileSeen'
    BY <1>0, <1>9 DEF OfferRefused
  <2>2. FileTypeOK' /\ FileTold'
    BY <1>9 DEF OfferRefused, FileInv, FileTypeOK, FileTold
  <2> QED BY <2>1, <2>2 DEF FileInv
<1>10. CASE Finish
  <2>1. FileSeen'
    BY <1>0, <1>10 DEF Finish
  <2>2. told = <<>> /\ (DataCount(rbuf) > 0 \/ eof \/ err) /\ ~(eof /\ err)
    BY <1>10 DEF Finish, FileInv, FileTold
  <2>3. CASE err
    <3>1. told' = <<"err">>
      BY <1>10, <2>2, <2>3 DEF Finish
    <3> QED BY <1>10, <2>1, <2>2, <2>3, <3>1 DEF Finish, FileInv, FileTypeOK, FileTold
  <2>4. CASE ~err
    <3>1. eof /\ DataCount(rbuf) = 0
      <4>1. DataCount(rbuf) \in 0..Size /\ Size \in Nat
        BY SizeAssumption DEF FileInv, FileSeen, Sound
      <4>2. ~(DataCount(rbuf) > 0)
        BY <1>10, <2>4 DEF Finish, HasData
      <4> QED BY <2>2, <2>4, <4>1, <4>2
    <3>2. told' = <<"eof">>
      BY <1>10, <2>2, <2>4, <3>1 DEF Finish
    <3>3. Len(used) = StreamLen
      BY <3>1 DEF FileInv, FileSeen, FileTypeOK
    <3>4. FileTypeOK'
      <4>1. told' \in Seq({"eof", "err", "refused"})
        BY <3>2
      <4>2. /\ fstage' = "done" /\ rbuf' = rbuf /\ eof' = eof /\ err' = err /\ idle' = idle
            /\ yielded' = yielded /\ used' = used
        BY <1>10 DEF Finish
      <4> QED BY <4>1, <4>2 DEF FileInv, FileTypeOK
    <3>5. FileTold'
      BY <1>10, <2>2, <2>4, <3>1, <3>2, <3>3 DEF Finish, FileTold
    <3> QED BY <2>1, <3>4, <3>5 DEF FileInv
  <2> QED BY <2>3, <2>4
<1>11. CASE UNCHANGED fileVars
  <2>1. FileSeen'
    BY <1>0, <1>11 DEF fileVars
  <2>2. FileTypeOK' /\ FileTold'
    BY <1>11 DEF fileVars, FileInv, FileTypeOK, FileTold, DataCount
  <2> QED BY <2>1, <2>2 DEF FileInv
<1> QED
  BY <1>1, <1>2, <1>3, <1>4, <1>5, <1>6, <1>7, <1>8, <1>9, <1>10, <1>11 DEF Turn

(* fs_read's callback gets the file from its start, in order and without a *)
(* gap, and is told of the end once, last, and only of the whole file, for *)
(* every size of the ring buffer, every file, and every split of it into   *)
(* reads and partial uses.                                                 *)
THEOREM FileReachesCallback == FileAssumption => (FileSpec => []FileKept)
<1> SUFFICES ASSUME FileAssumption PROVE FileSpec => []FileKept
  OBVIOUS
<1>1. FileInit => FileInv
  BY FileInitInv
<1>2. FileInv /\ [Turn]_fileVars => FileInv'
  BY FileStepInv
<1>3. FileInv => FileKept
  BY FileInvKeeps
<1> QED BY <1>1, <1>2, <1>3, PTL DEF FileSpec

(***************************************************************************)
(* BufferedIo: the file reaches the callers of the buffered reads.         *)
(***************************************************************************)

IoTypes ==
    /\ call \in {"ready", "fd_rbuf_read", "fd_rbuf_readl", "writen"}
    /\ buf \in [BufCells -> Nat] /\ out \in Nat /\ unread_num \in Int
    /\ missing \in Int /\ count \in Int /\ tot \in Int
    /\ taken \in 0..FileLen /\ got \in Seq(Nat)

(* A failed read, and a line that ended where nothing was, leave -1.       *)
InBuffer == IF unread_num > 0 THEN unread_num ELSE 0

(* What callers have got, and behind it what is unread, is the file.       *)
IoSeen ==
    /\ out + InBuffer <= IO_BUF_SIZE \/ InBuffer = 0
    /\ taken = Len(got) + InBuffer
    /\ \A i \in 1..Len(got) : got[i] = i
    /\ \A i \in 1..InBuffer : buf[out + i - 1] = Len(got) + i

(* What is missing and what a call has got make up what it was asked for.  *)
IoAnswer ==
    /\ call \in {"fd_rbuf_read", "fd_rbuf_readl"} => missing >= 1
    /\ call = "fd_rbuf_read" => tot >= 0 /\ tot + missing = count
    /\ ReadFull

IoInv == IoTypes /\ IoSeen /\ IoAnswer

LEMMA IoInvKeeps == IoInv => BytesKept
<1> SUFFICES ASSUME IoInv PROVE BytesKept
  OBVIOUS
<1> DEFINE rest == [i \in 1..InBuffer |-> buf[out + i - 1]]
<1>1. /\ got \in Seq(Nat) /\ InBuffer \in Nat /\ Len(got) \in Nat
      /\ taken \in Nat /\ taken = Len(got) + InBuffer
      /\ \A i \in 1..Len(got) : got[i] = i
  BY DEF IoInv, IoTypes, IoSeen, InBuffer
<1>2. rest \in Seq(Nat) /\ Len(rest) = InBuffer /\ \A i \in 1..InBuffer : rest[i] = Len(got) + i
  <2>1. rest = [i \in 1..InBuffer |-> Len(got) + i]
    BY DEF IoInv, IoSeen
  <2> HIDE DEF rest
  <2>2. rest \in [1..InBuffer -> Nat]
    BY <1>1, <2>1
  <2>3. rest \in Seq(Nat) /\ Len(rest) = InBuffer
    BY <1>1, <2>2
  <2> QED BY <2>1, <2>3
<1> HIDE DEF rest
<1>3. got \o rest = [i \in 1..taken |-> i]
  <2>1. /\ got \o rest \in Seq(Nat)
        /\ Len(got \o rest) = taken
        /\ \A i \in 1..taken : (got \o rest)[i] = i
    BY <1>1, <1>2, CountingOn
  <2> QED BY ONLY <1>1, <2>1, Counting
<1> QED BY <1>3 DEF BytesKept, rest, IoInv, IoSeen, InBuffer

(* The first k unread bytes are copied to a caller.                        *)
LEMMA CopiedSeen ==
    ASSUME IoAssumption, IoInv, NEW k \in 0..InBuffer,
           got' = got \o [i \in 1..k |-> buf[out + i - 1]],
           UNCHANGED <<buf, taken>>,
           InBuffer' = InBuffer - k, InBuffer' = 0 \/ out' = out + k
    PROVE  IoSeen' /\ got' \in Seq(Nat) /\ Len(got') = Len(got) + k
<1> DEFINE copied == [i \in 1..k |-> buf[out + i - 1]]
<1>1. /\ got \in Seq(Nat) /\ InBuffer \in Nat /\ Len(got) \in Nat /\ k \in Nat /\ k <= InBuffer
      /\ out \in Nat /\ taken = Len(got) + InBuffer /\ IO_BUF_SIZE \in Nat
      /\ out + InBuffer <= IO_BUF_SIZE \/ InBuffer = 0
      /\ \A i \in 1..Len(got) : got[i] = i
      /\ \A i \in 1..InBuffer : buf[out + i - 1] = Len(got) + i
  BY DEF IoAssumption, IoInv, IoTypes, IoSeen, InBuffer
<1>2. copied \in Seq(Nat) /\ Len(copied) = k /\ \A i \in 1..k : copied[i] = Len(got) + i
  <2>1. copied = [i \in 1..k |-> Len(got) + i]
    <3>1. ASSUME NEW i \in 1..k PROVE buf[out + i - 1] = Len(got) + i
      <4>1. i \in 1..InBuffer
        BY <1>1
      <4> QED BY <1>1, <4>1
    <3> QED BY <3>1
  <2> HIDE DEF copied
  <2>2. copied \in [1..k -> Nat]
    BY <1>1, <2>1
  <2>3. copied \in Seq(Nat) /\ Len(copied) = k
    BY <1>1, <2>2
  <2> QED BY <2>1, <2>3
<1> HIDE DEF copied
<1>3. /\ got' \in Seq(Nat) /\ Len(got') = Len(got) + k
      /\ \A i \in 1..Len(got') : got'[i] = i
  <2>1. got' = got \o copied
    BY DEF copied
  <2>2. /\ got \o copied \in Seq(Nat)
        /\ Len(got \o copied) = Len(got) + k
        /\ \A i \in 1..Len(got) + k : (got \o copied)[i] = i
    BY <1>1, <1>2, CountingOn
  <2> QED BY <2>1, <2>2
<1>4. ASSUME NEW i \in 1..InBuffer'
      PROVE  buf'[out' + i - 1] = Len(got') + i
  <2> HIDE DEF InBuffer
  <2>1. k + i \in 1..InBuffer /\ out' + i - 1 = out + (k + i) - 1
    BY <1>1
  <2>2. buf[out + (k + i) - 1] = Len(got) + (k + i)
    BY <1>1, <2>1
  <2> QED BY <1>1, <1>3, <2>1, <2>2
<1>5. /\ taken' = Len(got') + InBuffer'
      /\ out' + InBuffer' <= IO_BUF_SIZE \/ InBuffer' = 0
  BY <1>1, <1>3
<1> QED BY <1>3, <1>4, <1>5 DEF IoSeen

LEMMA IoInitInv == IoAssumption /\ IoInit => IoInv
<1> SUFFICES ASSUME IoAssumption, IoInit PROVE IoInv
  OBVIOUS
<1>1. IoTypes
  BY DEF IoAssumption, IoInit, IoTypes
<1>2. IoSeen /\ IoAnswer
  BY DEF IoAssumption, IoInit, IoSeen, InBuffer, IoAnswer, ReadFull
<1> QED BY <1>1, <1>2 DEF IoInv

(* A step that moves no data keeps what is known about it.                 *)
LEMMA IoSeenStays ==
    ASSUME IoSeen, UNCHANGED rbufvars
    PROVE  IoSeen'
BY DEF IoSeen, InBuffer, rbufvars

LEMMA IoStepInv == IoAssumption /\ IoInv /\ [IoNext]_ioVars => IoInv'
<1> SUFFICES ASSUME IoAssumption, IoInv, [IoNext]_ioVars PROVE IoInv'
  OBVIOUS
<1>1. /\ IO_BUF_SIZE \in Nat /\ IO_BUF_SIZE > 0 /\ FileLen \in Nat /\ MaxCount \in Nat
      /\ call \in {"ready", "fd_rbuf_read", "fd_rbuf_readl", "writen"}
      /\ out \in Nat /\ unread_num \in Int /\ missing \in Int /\ count \in Int /\ tot \in Int
      /\ taken \in Nat /\ taken <= FileLen /\ Len(got) \in Nat
  BY DEF IoAssumption, IoInv, IoTypes
<1>2. ASSUME NEW f \in {"fd_rbuf_read", "fd_rbuf_readl", "writen"}, Call(f) PROVE IoInv'
  <2>1. IoSeen'
    BY <1>2, IoSeenStays DEF Call, IoInv
  <2>2. missing' \in 1..MaxCount /\ count' = missing' /\ tot' = 0 /\ call' = f
    BY <1>2 DEF Call
  <2>3. IoTypes'
    <3>1. missing' \in Int /\ count' \in Int /\ tot' \in Int
      BY <1>1, <2>2
    <3>2. UNCHANGED rbufvars
      BY <1>2 DEF Call
    <3> QED BY <2>2, <3>1, <3>2 DEF rbufvars, IoInv, IoTypes
  <2>4. IoAnswer'
    <3>1. missing' >= 1 /\ missing' \in Int /\ count' = missing' /\ tot' = 0
      BY <1>1, <2>2
    <3>2. tot' >= 0 /\ tot' + missing' = count'
      <4>1. \A x \in Int : 0 >= 0 /\ 0 + x = x
        OBVIOUS
      <4> QED BY <3>1, <4>1, Zenon
    <3>3. call' # "ready"
      BY <2>2
    <3> QED BY <3>1, <3>2, <3>3 DEF IoAnswer, ReadFull
  <2> QED BY <2>1, <2>3, <2>4 DEF IoInv
<1>3. CASE Fill
  <2>1. PICK k \in 1..Least(IO_BUF_SIZE, FileLen - taken) :
           /\ buf' = [c \in BufCells |-> IF c < k THEN taken + c + 1 ELSE buf[c]]
           /\ unread_num' = k /\ taken' = taken + k
    BY <1>3 DEF Fill
  <2>2. k \in Nat /\ k >= 1 /\ k <= IO_BUF_SIZE /\ taken + k <= FileLen
    BY <1>1 DEF Least
  <2>3. InBuffer = 0 /\ taken = Len(got)
    BY <1>1, <1>3 DEF Fill, Filling, InBuffer, IoInv, IoSeen
  <2>4. /\ InBuffer' = k /\ out' = 0 /\ got' = got /\ missing' = missing /\ count' = count
        /\ tot' = tot /\ call' = call /\ ended' = ended
    BY <1>3, <2>1, <2>2 DEF Fill, InBuffer
  <2>5. buf' \in [BufCells -> Nat]
    BY <1>1, <2>1 DEF BufCells, IoInv, IoTypes
  <2>6. ASSUME NEW i \in 1..k PROVE buf'[out' + i - 1] = Len(got') + i
    <3>1. i - 1 \in BufCells /\ i - 1 < k /\ 0 + i - 1 = i - 1
      BY <1>1, <2>2 DEF BufCells
    <3>2. buf'[i - 1] = taken + (i - 1) + 1
      BY <2>1, <3>1
    <3> QED BY <1>1, <2>3, <2>4, <3>1, <3>2
  <2>7. IoSeen'
    <3>1. \A i \in 1..Len(got') : got'[i] = i
      BY <2>4 DEF IoInv, IoSeen
    <3>2. taken' = Len(got') + InBuffer' /\ out' + InBuffer' <= IO_BUF_SIZE
      BY <1>1, <2>1, <2>2, <2>3, <2>4
    <3> QED BY <2>4, <2>6, <3>1, <3>2 DEF IoSeen
  <2>8. IoTypes'
    BY <1>1, <2>1, <2>2, <2>4, <2>5 DEF IoInv, IoTypes
  <2>9. IoAnswer'
    BY <2>4 DEF IoInv, IoAnswer, ReadFull
  <2> QED BY <2>7, <2>8, <2>9 DEF IoInv
<1>4. CASE FillEof
  <2>1. InBuffer = 0 /\ InBuffer' = 0
    BY <1>1, <1>4 DEF FillEof, Filling, InBuffer
  <2>2. IoSeen'
    BY <1>4, <2>1 DEF FillEof, IoInv, IoSeen
  <2>3. Len(got) = FileLen
    BY <1>1, <1>4, <2>1 DEF FillEof, IoInv, IoSeen
  <2>4. IoTypes'
    BY <1>4 DEF FillEof, Return, IoInv, IoTypes
  <2>5. IoAnswer'
    BY <1>4, <2>3 DEF FillEof, Return, IoAnswer, ReadFull
  <2> QED BY <2>2, <2>4, <2>5 DEF IoInv
<1>5. CASE FillFails
  <2>1. InBuffer = 0 /\ InBuffer' = 0
    BY <1>1, <1>5 DEF FillFails, Filling, InBuffer
  <2>2. IoSeen'
    BY <1>5, <2>1 DEF FillFails, IoInv, IoSeen
  <2>3. IoTypes'
    BY <1>5 DEF FillFails, Return, IoInv, IoTypes
  <2>4. IoAnswer'
    BY <1>5 DEF FillFails, Return, IoInv, IoAnswer, ReadFull
  <2> QED BY <2>2, <2>3, <2>4 DEF IoInv
<1>6. CASE CopyRead
  <2> DEFINE m == Least(missing, unread_num)
  <2>1. missing >= 1 /\ unread_num >= 1 /\ tot >= 0 /\ tot + missing = count
    BY <1>1, <1>6 DEF CopyRead, IoInv, IoAnswer
  <2>2. m \in Nat /\ m >= 1 /\ m <= missing /\ m <= unread_num /\ (m = missing \/ m = unread_num)
    BY <1>1, <2>1 DEF Least
  <2>3. /\ got' = got \o [i \in 1..m |-> buf[out + i - 1]]
        /\ tot' = tot + m /\ missing' = missing - m
        /\ out' = out + m /\ unread_num' = unread_num - m
        /\ UNCHANGED <<buf, count, taken>>
        /\ IF missing - m - 1 > 0 /\ unread_num - m <= 0
           THEN call' = call /\ ended' = ended
           ELSE call' = "ready" /\ ended' = "read"
    BY <1>6 DEF CopyRead, Copy, Return
  <2>4. call = "fd_rbuf_read"
    BY <1>6 DEF CopyRead
  <2> HIDE DEF m
  <2>5. m \in 0..InBuffer /\ InBuffer' = InBuffer - m
    BY <1>1, <2>1, <2>2, <2>3 DEF InBuffer
  <2>6. IoSeen' /\ got' \in Seq(Nat)
    BY <2>3, <2>5, CopiedSeen
  <2>7. IoTypes'
    BY <1>1, <2>2, <2>3, <2>4, <2>6 DEF IoInv, IoTypes
  <2>8. IoAnswer'
    BY <1>1, <2>1, <2>2, <2>3, <2>4 DEF IoAnswer, ReadFull
  <2> QED BY <2>6, <2>7, <2>8 DEF IoInv
<1>7. CASE CopyLine
  <2>1. missing >= 1 /\ unread_num >= 1 /\ call = "fd_rbuf_readl"
    BY <1>1, <1>7 DEF CopyLine, IoInv, IoAnswer
  <2>2. PICK m \in 0..Least(missing - 1, unread_num) : \E newline \in IsNewline(out + m) :
           LET real == newline /\ m < unread_num IN
           /\ got' = got \o [i \in 1..(m + (IF real THEN 1 ELSE 0)) |-> buf[out + i - 1]]
           /\ tot' = tot + m /\ missing' = missing - m
           /\ IF newline
              THEN out' = out + m + 1 /\ unread_num' = unread_num - m - 1 /\ Return("line")
              ELSE /\ out' = out + m /\ unread_num' = unread_num - m
                   /\ IF missing - m - 1 > 0 /\ unread_num - m <= 0
                      THEN UNCHANGED <<call, ended>>
                      ELSE Return("part")
    BY <1>7 DEF CopyLine
  <2>3. PICK newline \in IsNewline(out + m) :
           LET real == newline /\ m < unread_num IN
           /\ got' = got \o [i \in 1..(m + (IF real THEN 1 ELSE 0)) |-> buf[out + i - 1]]
           /\ tot' = tot + m /\ missing' = missing - m
           /\ IF newline
              THEN out' = out + m + 1 /\ unread_num' = unread_num - m - 1 /\ Return("line")
              ELSE /\ out' = out + m /\ unread_num' = unread_num - m
                   /\ IF missing - m - 1 > 0 /\ unread_num - m <= 0
                      THEN UNCHANGED <<call, ended>>
                      ELSE Return("part")
    BY <2>2
  <2>4. m \in Nat /\ m <= missing - 1 /\ m <= unread_num
    BY <1>1, <2>1 DEF Least
  <2>5. UNCHANGED <<buf, count, taken>>
    BY <1>7 DEF CopyLine
  <2>6. PICK k \in {m, m + 1} :
           /\ got' = got \o [i \in 1..k |-> buf[out + i - 1]]
           /\ k <= unread_num
           /\ InBuffer' = unread_num - k
           /\ InBuffer' = 0 \/ out' = out + k
    <3>1. CASE newline /\ m < unread_num
      <4>1. /\ got' = got \o [i \in 1..m + 1 |-> buf[out + i - 1]]
            /\ out' = out + (m + 1) /\ unread_num' = unread_num - (m + 1)
        BY <1>1, <2>3, <2>4, <3>1
      <4> QED BY <1>1, <2>4, <3>1, <4>1 DEF InBuffer
    <3>2. CASE newline /\ ~(m < unread_num)
      <4>1. got' = got \o [i \in 1..m |-> buf[out + i - 1]] /\ unread_num' = unread_num - m - 1
        <5>1. m + 0 = m
          BY <2>4
        <5> QED BY <2>3, <3>2, <5>1
      <4> QED BY <1>1, <2>4, <3>2, <4>1 DEF InBuffer
    <3>3. CASE ~newline
      <4>1. /\ got' = got \o [i \in 1..m |-> buf[out + i - 1]]
            /\ out' = out + m /\ unread_num' = unread_num - m
        <5>1. m + 0 = m
          BY <2>4
        <5> QED BY <2>3, <3>3, <5>1
      <4> QED BY <1>1, <2>4, <4>1 DEF InBuffer
    <3> QED BY <3>1, <3>2, <3>3
  <2>7. /\ out' \in Nat /\ unread_num' \in Int /\ tot' \in Int /\ missing' = missing - m
        /\ \/ call' = "ready" /\ ended' \in {"line", "part"}
           \/ call' = call /\ ended' = ended /\ missing - m - 1 > 0
    BY <1>1, <2>3, <2>4 DEF Return
  <2>8. IoSeen' /\ got' \in Seq(Nat)
    <3>1. InBuffer = unread_num
      BY <1>1, <2>1 DEF InBuffer
    <3>2. k \in 0..InBuffer
      BY <1>1, <2>4, <2>6, <3>1
    <3> QED BY <2>5, <2>6, <3>1, <3>2, CopiedSeen
  <2>9. IoTypes'
    BY <1>1, <2>1, <2>4, <2>5, <2>7, <2>8 DEF IoInv, IoTypes
  <2>10. IoAnswer'
    BY <1>1, <2>1, <2>4, <2>7 DEF IoAnswer, ReadFull
  <2> QED BY <2>8, <2>9, <2>10 DEF IoInv
<1>8. CASE WriteSome \/ WriteFails
  <2>1. UNCHANGED rbufvars /\ missing' = missing /\ count' = count /\ call = "writen"
    BY <1>8 DEF WriteSome, WriteFails
  <2>2. /\ tot' \in Int
        /\ \/ call' = call /\ ended' = ended
           \/ call' = "ready" /\ ended' \in {"written", "error"}
    BY <1>1, <1>8 DEF WriteSome, WriteFails, Return
  <2>3. IoSeen'
    BY <2>1, IoSeenStays DEF IoInv
  <2>4. IoTypes'
    BY <2>1, <2>2 DEF rbufvars, IoInv, IoTypes
  <2>5. IoAnswer'
    BY <2>1, <2>2 DEF IoAnswer, ReadFull
  <2> QED BY <2>3, <2>4, <2>5 DEF IoInv
<1>9. CASE UNCHANGED ioVars
  <2>1. IoSeen'
    BY <1>9, IoSeenStays DEF ioVars, IoInv
  <2>2. IoTypes' /\ IoAnswer'
    BY <1>9 DEF ioVars, rbufvars, IoInv, IoTypes, IoAnswer, ReadFull
  <2> QED BY <2>1, <2>2 DEF IoInv
<1> QED
  BY <1>2, <1>3, <1>4, <1>5, <1>6, <1>7, <1>8, <1>9 DEF IoNext

(* However calls of both buffered reads follow one another, and whatever   *)
(* read returns, their callers get the bytes of the file in order, none    *)
(* lost or repeated, for every size of the buffer, every file and every    *)
(* length asked for: the newline that fd_rbuf_readl may find behind what   *)
(* is unread costs no byte.                                                *)
THEOREM BytesReachCallers == IoAssumption => (IoSpec => []BytesKept)
<1> SUFFICES ASSUME IoAssumption PROVE IoSpec => []BytesKept
  OBVIOUS
<1>1. IoInit => IoInv
  BY IoInitInv
<1>2. IoInv /\ [IoNext]_ioVars => IoInv'
  BY IoStepInv
<1>3. IoInv => BytesKept
  BY IoInvKeeps
<1> QED BY <1>1, <1>2, <1>3, PTL DEF IoSpec

(* fd_rbuf_read falls at most one byte short of what it was asked for, and *)
(* it answers 0 only at the end of the file.                               *)
THEOREM ReadFallsShortByOne == IoAssumption => (IoSpec => []ReadFull)
<1> SUFFICES ASSUME IoAssumption PROVE IoSpec => []ReadFull
  OBVIOUS
<1>1. IoInit => IoInv
  BY IoInitInv
<1>2. IoInv /\ [IoNext]_ioVars => IoInv'
  BY IoStepInv
<1>3. IoInv => ReadFull
  BY DEF IoInv, IoAnswer
<1> QED BY <1>1, <1>2, <1>3, PTL DEF IoSpec
=============================================================================
