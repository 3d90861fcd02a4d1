------------------------------- MODULE Signals -------------------------------
(***************************************************************************)
(* The signal events of src/fevent_loop/_ev_events/_signal.c, for one      *)
(* signal number: es_data[signal], the handler s_handler that may          *)
(* interrupt any thread and writes a byte to the registration's pipe, and  *)
(* on_sigev, which the loop runs when the pipe can be read.                *)
(*                                                                         *)
(* The loop is taken at what EventLoop promises: the callbacks of a        *)
(* descriptor are serial, and a descriptor whose callback returned EV_FIN  *)
(* is out of the tree and of epoll before its item is freed.  A step is a  *)
(* system call or an access to es_data.                                    *)
(***************************************************************************)
EXTENDS Naturals, FiniteSets

CONSTANTS
    Regs,       \* registrations: what ev_sig_data_create may return
    Mute,       \* those whose sig_cb is NULL
    Threads,    \* threads that a signal may interrupt
    Adders,     \* bound: threads that are in add_signal_ev at a time
    PipeSize,   \* the bytes a pipe holds
    NULL

SignalsAssumption ==
    /\ Adders \in Nat /\ PipeSize \in Nat \ {0}
    /\ IsFiniteSet(Regs) /\ NULL \notin Regs /\ Mute \subseteq Regs

VARIABLES
    es_data,    \* es_data[signal]
    caught,     \* the disposition of the signal is s_handler
    stage,      \* where each registration is
    bytes,      \* in its pipe
    frame,      \* per thread: the registration its s_handler is about to write for
    due,        \* history: a signal came since the callback was last called
    broken      \* a freed registration has been used: undefined from here

vars == <<es_data, caught, stage, bytes, frame, due, broken>>

(* "free" is unallocated.  A registration is "made" before es_data is set, *)
(* "set" before the handler is, "caught" before the loop has it.  Watched  *)
(* ones go through "drain" and "call".  On its way out a registration      *)
(* loses its write end, its place in es_data, and its memory.  "stuck" is  *)
(* what the loop has refused without freeing it.                           *)
Adding   == {"made", "set", "caught"}
InLoop   == {"watched", "drain", "call"}
Leaving  == {"close", "clear", "release"}
Stages   == {"free", "stuck"} \cup Adding \cup InLoop \cup Leaving
At(r, s) == ~broken /\ stage[r] = s
Go(r, s) == stage' = [stage EXCEPT ![r] = s]

Init ==
    /\ es_data = NULL /\ caught = FALSE
    /\ stage = [r \in Regs |-> "free"]
    /\ bytes = [r \in Regs |-> 0]
    /\ frame = [t \in Threads |-> NULL]
    /\ due = {} /\ broken = FALSE

-----------------------------------------------------------------------------
(* add_signal_ev.  The check of es_data is not under wfd_mtx.              *)

Make(r) ==
    /\ At(r, "free")
    /\ Cardinality({q \in Regs : stage[q] \in Adding}) < Adders
    /\ es_data = NULL
    /\ Go(r, "made")
    /\ bytes' = [bytes EXCEPT ![r] = 0]
    /\ UNCHANGED <<es_data, caught, frame, due, broken>>

(* catch_signal.  (Its sigaction fails for signals that nobody can catch.) *)
CatchSet(r) ==
    /\ At(r, "made")
    /\ es_data' = r
    /\ Go(r, "set")
    /\ UNCHANGED <<caught, bytes, frame, due, broken>>

CatchRegister(r) ==
    /\ At(r, "set")
    /\ caught' = TRUE
    /\ Go(r, "caught")
    /\ UNCHANGED <<es_data, bytes, frame, due, broken>>

(* EV_CTL_ADD.  If epoll refuses the pipe, the item is freed; a wrong      *)
(* priority is refused before there is an item, and nothing is freed.      *)
Watch(r) ==
    /\ At(r, "caught")
    /\ \/ Go(r, "watched") /\ UNCHANGED due
       \/ Go(r, "close") /\ due' = due \ {r}
       \/ Go(r, "stuck") /\ due' = due \ {r}
    /\ UNCHANGED <<es_data, caught, bytes, frame, broken>>

-----------------------------------------------------------------------------
(* s_handler: read es_data, then write a byte.  The signal is blocked in   *)
(* the thread meanwhile.  With the default disposition no handler runs,    *)
(* and without a registration it changes nothing.                          *)

SignalArrives(t) ==
    /\ ~broken /\ caught
    /\ frame[t] = NULL /\ es_data # NULL
    /\ frame' = [frame EXCEPT ![t] = es_data]
    /\ due' = IF stage[es_data] \in Adding \cup InLoop THEN due \cup {es_data} ELSE due
    /\ UNCHANGED <<es_data, caught, stage, bytes, broken>>

(* A full pipe is no error.  After close the number wfd is nobody's.       *)
HandlerWrites(t) ==
    /\ ~broken /\ frame[t] # NULL
    /\ LET r == frame[t] IN
       /\ broken' = (stage[r] = "free")
       /\ bytes' = IF stage[r] \in {"free", "clear", "release"} \/ bytes[r] = PipeSize
                   THEN bytes ELSE [bytes EXCEPT ![r] = @ + 1]
    /\ frame' = [frame EXCEPT ![t] = NULL]
    /\ UNCHANGED <<es_data, caught, stage, due>>

-----------------------------------------------------------------------------
(* The loop and on_sigev.                                                  *)

Report(r) ==
    /\ At(r, "watched") /\ bytes[r] > 0
    /\ Go(r, "drain")
    /\ UNCHANGED <<es_data, caught, bytes, frame, due, broken>>

(* Read byte by byte until there is none; then call sig_cb.  (The read     *)
(* cannot fail: the pipe does not block and is open until EV_FIN.)         *)
DrainByte(r) ==
    /\ At(r, "drain") /\ bytes[r] > 0
    /\ bytes' = [bytes EXCEPT ![r] = @ - 1]
    /\ UNCHANGED <<es_data, caught, stage, frame, due, broken>>

DrainedCall(r) ==
    /\ At(r, "drain") /\ bytes[r] = 0 /\ r \notin Mute
    /\ due' = due \ {r}
    /\ Go(r, "call")
    /\ UNCHANGED <<es_data, caught, bytes, frame, broken>>

(* Without a sig_cb the first signal is the last: EV_FIN, no DEFAULT_SIG.  *)
DrainedMute(r) ==
    /\ At(r, "drain") /\ bytes[r] = 0 /\ r \in Mute
    /\ due' = due \ {r}
    /\ Go(r, "close")
    /\ UNCHANGED <<es_data, caught, bytes, frame, broken>>

(* Mutants: the pipe is emptied after the callback has been called; the    *)
(* callback's answer is returned, which means no event to watch for.       *)
CallReturnsUnwatched(r) ==
    /\ At(r, "call")
    /\ \/ Go(r, "stuck") /\ UNCHANGED <<caught, due>>
       \/ Go(r, "close") /\ caught' = FALSE /\ due' = due \ {r}
    /\ UNCHANGED <<es_data, bytes, frame, broken>>

CallReturnsDrain(r) ==
    /\ At(r, "call")
    /\ \/ /\ Go(r, "watched")
          /\ bytes' = [bytes EXCEPT ![r] = 0]
          /\ UNCHANGED <<caught, due>>
       \/ /\ Go(r, "close")
          /\ caught' = FALSE
          /\ due' = due \ {r}
          /\ UNCHANGED bytes
    /\ UNCHANGED <<es_data, frame, broken>>

(* Nonzero: watch on.  Zero: DEFAULT_SIG, then EV_FIN.                     *)
CallReturns(r) ==
    /\ At(r, "call")
    /\ \/ Go(r, "watched") /\ UNCHANGED <<caught, due>>
       \/ Go(r, "close") /\ caught' = FALSE /\ due' = due \ {r}
    /\ UNCHANGED <<es_data, bytes, frame, broken>>

(* ev_monitor_free frees the items of what is watched, without DEFAULT_SIG.*)
MonitorFree ==
    /\ ~broken
    /\ \A r \in Regs : stage[r] \in {"free", "watched", "stuck"}
    /\ \E r \in Regs : stage[r] = "watched"
    /\ stage' = [r \in Regs |-> IF stage[r] = "watched" THEN "close" ELSE stage[r]]
    /\ due' = {}
    /\ UNCHANGED <<es_data, caught, bytes, frame, broken>>

(* ev_sig_data_free: close wfd, es_data[signal] = NULL, free.              *)
CloseWfd(r) ==
    /\ At(r, "close")
    /\ Go(r, "clear")
    /\ UNCHANGED <<es_data, caught, bytes, frame, due, broken>>

ClearData(r) ==
    /\ At(r, "clear")
    /\ es_data' = NULL
    /\ Go(r, "release")
    /\ UNCHANGED <<caught, bytes, frame, due, broken>>

(* Mutant: DEFAULT_SIG (again) when the rest is done.                      *)
ReleaseDefault(r) ==
    /\ At(r, "release")
    /\ Go(r, "free")
    /\ caught' = FALSE
    /\ UNCHANGED <<es_data, bytes, frame, due, broken>>

Release(r) ==
    /\ At(r, "release")
    /\ Go(r, "free")
    /\ UNCHANGED <<es_data, caught, bytes, frame, due, broken>>

-----------------------------------------------------------------------------
LoopStep(r) ==
    Report(r) \/ DrainByte(r) \/ DrainedCall(r) \/ DrainedMute(r) \/ CallReturns(r)

Next ==
    \/ \E r \in Regs :
          \/ Make(r) \/ CatchSet(r) \/ CatchRegister(r) \/ Watch(r)
          \/ LoopStep(r)
          \/ CloseWfd(r) \/ ClearData(r) \/ Release(r)
    \/ \E t \in Threads : SignalArrives(t) \/ HandlerWrites(t)
    \/ MonitorFree

(* Threads that are in add_signal_ev, in s_handler or in on_sigev run on;  *)
(* callbacks return, which EventLoop's fairness is about too.              *)
Fairness ==
    /\ \A r \in Regs :
          /\ WF_vars(CatchSet(r)) /\ WF_vars(CatchRegister(r)) /\ WF_vars(Watch(r))
          /\ WF_vars(LoopStep(r))
    /\ \A t \in Threads : WF_vars(HandlerWrites(t))

Spec == Init /\ [][Next]_vars /\ Fairness

-----------------------------------------------------------------------------
(* Properties                                                              *)

(* While an event is watched, its signal is caught and goes to its pipe:   *)
(* the event that ends resets the disposition before it gives es_data up,  *)
(* so that it cannot take the handler of its successor away.  (As long as  *)
(* registrations are made one at a time.)                                  *)
WatchedMeansCaught ==
    \A r \in Regs : stage[r] \in {"watched", "drain"} => es_data = r /\ caught

(* A signal that has arrived is not lost: until its callback is called, or *)
(* its event ends, a byte is in the pipe, or about to be, or on_sigev is   *)
(* reading it.                                                             *)
SignalsNotLost ==
    \A r \in due :
        \/ bytes[r] > 0 \/ stage[r] = "drain"
        \/ \E t \in Threads : frame[t] = r

(* ... and that happens, unless signals keep arriving for ever.            *)
(* (Only those that come so fast that on_sigev never finds the pipe empty  *)
(* could keep it from the call; this excuses the slower ones too.)         *)
SignalCalled ==
    \A r \in Regs :
        \/ (r \in due /\ ~broken) ~> (r \notin due \/ broken)
        \/ []<>(\E t \in Threads : frame[t] # NULL)
=============================================================================
