-------------------------------- MODULE FsRead --------------------------------
(***************************************************************************)
(* The asynchronous file events of src/fevent_loop/_ev_events/_ev_fs: an   *)
(* event that opens a file, whose callback starts one that reads it, as in *)
(* examples/ev_aio.c.  The loop queues the second one again as long as     *)
(* on_read returns EV_ASYNC.  Each turn reads once into the event's ring   *)
(* buffer and offers the callback all that is unread; the callback says    *)
(* how much it has used.                                                   *)
(*                                                                         *)
(* One handler has the event at a time, and nobody else touches its data.  *)
(* Each turn may be another thread's, with the errno that earlier calls of *)
(* that thread have left.  The k-th byte of the file is the number k.      *)
(***************************************************************************)
EXTENDS RingBuffer

CONSTANT StreamLen      \* the bytes that read yields before end of file

FileAssumption == StreamLen \in Nat /\ 0..StreamLen \subseteq Byte

VARIABLES
    fstage,     \* "open": on_open begins; "read": on_read begins; "offer": it
                \* has read; "done": the last event is over
    rbuf,
    eof, err,   \* rdata->eof, rdata->err
    yielded,    \* how many bytes read has yielded
    used,       \* history: the bytes that the callback has used
    told,       \* history: what the callback was told when there was no data
    idle        \* history: the last turn was interrupted, or its callback has
                \* used nothing of what it was offered

fileVars == <<fstage, rbuf, eof, err, yielded, used, told, idle>>

FileInit ==
    /\ fstage = "open"
    /\ rbuf = Created([c \in Cells |-> 0])
    /\ eof = FALSE /\ err = FALSE
    /\ yielded = 0 /\ used = <<>> /\ told = <<>> /\ idle = FALSE

-----------------------------------------------------------------------------
(* on_open tells its callback the error, or the descriptor to read from.   *)
OpenFails ==
    /\ fstage = "open"
    /\ fstage' = "done" /\ told' = Append(told, "err")
    /\ UNCHANGED <<rbuf, eof, err, yielded, used, idle>>

(* fs_read: a ring buffer, no end of file, no error.                       *)
OpenSucceeds ==
    /\ fstage = "open" /\ fstage' = "read"
    /\ rbuf' = Created(rbuf.mem) /\ eof' = FALSE /\ err' = FALSE
    /\ UNCHANGED <<yielded, used, told, idle>>

MayRead == FreeSpace(rbuf) > 0 /\ ~eof /\ ~err

ReadSkipped ==
    /\ fstage = "read" /\ ~MayRead
    /\ fstage' = "offer" /\ idle' = FALSE
    /\ UNCHANGED <<rbuf, eof, err, yielded, used, told>>

ReadSome ==
    /\ fstage = "read" /\ MayRead
    /\ \E n \in 1..FreeSpace(rbuf) :
          /\ yielded + n <= StreamLen
          /\ rbuf' = CommitWrite(Store(rbuf, [i \in 1..n |-> yielded + i]), n)
          /\ yielded' = yielded + n
    /\ fstage' = "offer" /\ idle' = FALSE
    /\ UNCHANGED <<eof, err, used, told>>

(* read has failed with EINTR, or has met the end of the file while errno  *)
(* was still EINTR: ev.events are returned, and the turn is over.          *)
ReadInterrupted ==
    /\ fstage = "read" /\ MayRead
    /\ idle' = TRUE
    /\ UNCHANGED <<fstage, rbuf, eof, err, yielded, used, told>>

ReadEof ==
    /\ fstage = "read" /\ MayRead /\ yielded = StreamLen
    /\ eof' = TRUE
    /\ fstage' = "offer" /\ idle' = FALSE
    /\ UNCHANGED <<rbuf, err, yielded, used, told>>

ReadFails ==
    /\ fstage = "read" /\ MayRead
    /\ err' = TRUE
    /\ fstage' = "offer" /\ idle' = FALSE
    /\ UNCHANGED <<rbuf, eof, yielded, used, told>>

(* Mutants: end of file is told as soon as it is met; end of file is       *)
(* offered like data, all 0 bytes of it.                                   *)
HasDataAtEof == DataCount(rbuf) > 0 /\ ~err /\ ~eof

HasDataOrEof == (DataCount(rbuf) > 0 \/ eof) /\ ~err

HasData == DataCount(rbuf) > 0 /\ ~err

(* The callback gets all that is unread, and uses the first n bytes of it; *)
(* what it has not used is offered again with what is read behind it.      *)
Offer ==
    /\ fstage = "offer" /\ HasData
    /\ \E n \in 0..DataCount(rbuf) :
          /\ used' = used \o Load(rbuf, n)
          /\ rbuf' = CommitRead(rbuf, n)
          /\ idle' = (DataCount(rbuf) > 0 /\ n = 0)
    /\ fstage' = "read"
    /\ UNCHANGED <<eof, err, yielded, told>>

(* A negative answer ends the event and frees its data.                    *)
OfferRefused ==
    /\ fstage = "offer" /\ HasData
    /\ fstage' = "done" /\ told' = Append(told, "refused")
    /\ UNCHANGED <<rbuf, eof, err, yielded, used, idle>>

(* The callback is told of an error and of the end of the file; EV_FIN.    *)
Finish ==
    /\ fstage = "offer" /\ ~HasData
    /\ told' = told \o (IF err THEN <<"err">> ELSE <<>>) \o (IF eof THEN <<"eof">> ELSE <<>>)
    /\ fstage' = "done"
    /\ UNCHANGED <<rbuf, eof, err, yielded, used, idle>>

Turn ==
    \/ OpenFails \/ OpenSucceeds
    \/ ReadSkipped \/ ReadSome \/ ReadInterrupted \/ ReadEof \/ ReadFails
    \/ Offer \/ OfferRefused \/ Finish

(* The loop's handlers run on.                                             *)
FileFairness == WF_fileVars(Turn)

FileSpec == FileInit /\ [][Turn]_fileVars /\ FileFairness

-----------------------------------------------------------------------------
(* Properties                                                              *)

(* Every variable has its type.                                            *)
FileTypeOK ==
    /\ fstage \in {"open", "read", "offer", "done"} /\ rbuf \in RingType
    /\ {eof, err, idle} \subseteq BOOLEAN /\ yielded \in 0..StreamLen
    /\ used \in Seq(Byte) /\ told \in Seq({"eof", "err", "refused"})

(* What the callback uses is the file from its start, in order, and what   *)
(* it will be offered next is just what it has left, however reads and     *)
(* partial uses are mixed; and the end of the file is told once and last,  *)
(* when all of it has been used.                                           *)
FileKept ==
    /\ used \o Load(rbuf, DataCount(rbuf)) = [i \in 1..yielded |-> i]
    /\ Len(told) = IF fstage = "done" THEN 1 ELSE 0
    /\ told = <<"eof">> => Len(used) = StreamLen

(* The event ends, by end of file, error or refusal, unless turns without  *)
(* progress go on for ever: the callback keeps using nothing of what it is *)
(* offered, or errno stays EINTR.                                          *)
ReadEnds == <>(fstage = "done") \/ []<>idle
=============================================================================
