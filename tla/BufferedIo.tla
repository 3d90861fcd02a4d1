------------------------------ MODULE BufferedIo ------------------------------
(***************************************************************************)
(* The buffered reads of src/system/nx/io/io.c: fd_rbuf_read and           *)
(* fd_rbuf_readl on one fd_rbuf_t, called in any order, and writen.        *)
(*                                                                         *)
(* The k-th byte of the file is the number k, and some bytes are newlines. *)
(* A step is a system call or what the code does between two of them.      *)
(***************************************************************************)
EXTENDS Integers, Sequences

CONSTANTS
    IO_BUF_SIZE,
    FileLen,    \* the bytes of the file
    Newlines,   \* which of them are newlines
    MaxCount    \* bound: the n of a call

IoAssumption ==
    /\ IO_BUF_SIZE \in Nat \ {0} /\ FileLen \in Nat /\ MaxCount \in Nat
    /\ Newlines \subseteq 1..FileLen

VARIABLES
    call,       \* "ready", or the function that is running
    buf, out, unread_num,   \* the fd_rbuf_t; out is an index into buf
    missing,    \* the parameter n as the code counts it down
    count,      \* what it was; and for writen
    taken,      \* how many bytes read has yielded
    got,        \* history: the bytes copied to callers, and newlines dropped
    tot,        \* what the call returns: totRead, the length of the line, totWritten
    ended,      \* how the last call ended: "eof", "error", "read", "line",
                \* "part" (of a line) or "written"
    sent        \* history: what the current writen has written

rbufvars == <<buf, out, unread_num, taken, got>>
ioVars == <<call, rbufvars, missing, count, tot, ended, sent>>

BufCells == 0..IO_BUF_SIZE - 1
Least(a, b) == IF a < b THEN a ELSE b

(* fd_rbuf_init.                                                           *)
IoInit ==
    /\ call = "ready"
    /\ buf = [c \in BufCells |-> 0] /\ out = 0 /\ unread_num = 0
    /\ missing = 0 /\ count = 0 /\ taken = 0 /\ got = <<>> /\ tot = 0
    /\ ended = "none" /\ sent = <<>>

Call(f) ==
    /\ call = "ready" /\ call' = f
    /\ missing' \in 1..MaxCount /\ count' = missing'
    /\ tot' = 0 /\ sent' = <<>>
    /\ UNCHANGED <<rbufvars, ended>>

Return(how) == call' = "ready" /\ ended' = how

-----------------------------------------------------------------------------
(* Both functions fill the buffer when nothing is unread.                  *)

Filling == call \in {"fd_rbuf_read", "fd_rbuf_readl"} /\ unread_num <= 0

(* Mutant: out is left where it was.                                       *)
FillOnward ==
    /\ Filling
    /\ \E k \in 1..Least(IO_BUF_SIZE, FileLen - taken) :
          /\ buf' = [c \in BufCells |-> IF c < k THEN taken + c + 1 ELSE buf[c]]
          /\ unread_num' = k /\ taken' = taken + k
    /\ UNCHANGED <<call, out, missing, count, got, tot, ended, sent>>

Fill ==
    /\ Filling
    /\ \E k \in 1..Least(IO_BUF_SIZE, FileLen - taken) :
          /\ buf' = [c \in BufCells |-> IF c < k THEN taken + c + 1 ELSE buf[c]]
          /\ unread_num' = k /\ taken' = taken + k
    /\ out' = 0
    /\ UNCHANGED <<call, missing, count, got, tot, ended, sent>>

FillEof ==
    /\ Filling /\ taken = FileLen
    /\ out' = 0 /\ unread_num' = 0
    /\ Return("eof")
    /\ UNCHANGED <<buf, missing, count, taken, got, tot, sent>>

(* read returns -1, which is left in unread_num; EINTR tries again.        *)
FillFails ==
    /\ Filling
    /\ out' = 0 /\ unread_num' = -1
    /\ \/ Return("error") /\ tot' = -1
       \/ UNCHANGED <<call, ended, tot>>
    /\ UNCHANGED <<buf, missing, count, taken, got, sent>>

(* m unread bytes go to the caller.                                        *)
Copy(m) ==
    /\ got' = got \o [i \in 1..m |-> buf[out + i - 1]]
    /\ tot' = tot + m
    /\ missing' = missing - m

(* The copying loop runs until n or unread_num is 0; then the function     *)
(* goes on if more than one byte is missing.  (Mutant: never.)             *)
CopyReadOnce ==
    /\ call = "fd_rbuf_read" /\ unread_num > 0
    /\ LET m == Least(missing, unread_num) IN
       /\ Copy(m)
       /\ out' = out + m /\ unread_num' = unread_num - m
       /\ Return("read")
    /\ UNCHANGED <<buf, count, taken, sent>>

CopyRead ==
    /\ call = "fd_rbuf_read" /\ unread_num > 0
    /\ LET m == Least(missing, unread_num) IN
       /\ Copy(m)
       /\ out' = out + m /\ unread_num' = unread_num - m
       /\ IF missing - m - 1 > 0 /\ unread_num - m <= 0
          THEN UNCHANGED <<call, ended>>
          ELSE Return("read")
    /\ UNCHANGED <<buf, count, taken, sent>>

(* What *out may be: behind the last cell it is the struct's next field.   *)
IsNewline(at) == IF at \in BufCells THEN {buf[at] \in Newlines} ELSE BOOLEAN

(* The copying loop stops before a newline, with one byte of the caller's  *)
(* buffer left for the NUL, or when nothing is unread.  In the last case   *)
(* *out is a byte of an earlier fill or lies behind buf, and if it happens *)
(* to be a newline, the line ends there and unread_num becomes -1.         *)
CopyLine ==
    /\ call = "fd_rbuf_readl" /\ unread_num > 0
    /\ \E m \in 0..Least(missing - 1, unread_num) : \E newline \in IsNewline(out + m) :
          /\ \A i \in 0..m - 1 : buf[out + i] \notin Newlines
          /\ m = Least(missing - 1, unread_num) \/ newline
          /\ LET real == newline /\ m < unread_num IN
             /\ got' = got \o [i \in 1..(m + (IF real THEN 1 ELSE 0)) |-> buf[out + i - 1]]
             /\ tot' = tot + m /\ missing' = missing - m
          /\ IF newline
             THEN out' = out + m + 1 /\ unread_num' = unread_num - m - 1 /\ Return("line")
             ELSE /\ out' = out + m /\ unread_num' = unread_num - m
                  /\ IF missing - m - 1 > 0 /\ unread_num - m <= 0
                     THEN UNCHANGED <<call, ended>>
                     ELSE Return("part")
    /\ UNCHANGED <<buf, count, taken, sent>>

-----------------------------------------------------------------------------
(* writen: the bytes 1..count of the caller's buffer.                      *)

WriteSome ==
    /\ call = "writen"
    /\ \E k \in 1..(count - tot) :
          /\ sent' = sent \o [i \in 1..k |-> tot + i]
          /\ tot' = tot + k
          /\ IF tot + k < count THEN UNCHANGED <<call, ended>> ELSE Return("written")
    /\ UNCHANGED <<rbufvars, missing, count>>

(* A failing write other than EINTR, and one that writes nothing.          *)
WriteFails ==
    /\ call = "writen"
    /\ tot' = -1 /\ Return("error")
    /\ UNCHANGED <<rbufvars, missing, count, sent>>

IoNext ==
    \/ \E f \in {"fd_rbuf_read", "fd_rbuf_readl", "writen"} : Call(f)
    \/ Fill \/ FillEof \/ FillFails
    \/ CopyRead \/ CopyLine
    \/ WriteSome \/ WriteFails

IoSpec == IoInit /\ [][IoNext]_ioVars

-----------------------------------------------------------------------------
(* Properties                                                              *)

(* However reads of both kinds follow one another, and whatever the system *)
(* returns in between, the callers get the bytes of the file in order,     *)
(* none lost or repeated: what they have not got is unread in the buffer,  *)
(* although fd_rbuf_readl may end a line at a byte that is not there.      *)
BytesKept ==
    LET unread == IF unread_num > 0 THEN unread_num ELSE 0 IN
    /\ out + unread <= IO_BUF_SIZE \/ unread = 0
    /\ got \o [i \in 1..unread |-> buf[out + i - 1]] = [i \in 1..taken |-> i]

(* fd_rbuf_read gives its caller what it asked for or one byte less, and   *)
(* at least one byte, unless it has come to the end of the file or fails:  *)
(* an answer of 0 means end of file.                                       *)
ReadFull ==
    /\ ended = "read" /\ call = "ready" => tot >= count - 1 /\ tot > 0
    /\ ended = "eof" /\ call = "ready" => Len(got) = FileLen
=============================================================================
