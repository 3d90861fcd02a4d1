-------------------------------- MODULE Timers --------------------------------
(***************************************************************************)
(* The timer events of src/fevent_loop/_ev_events/_timeout.c: a timerfd    *)
(* per event, which on_timeout reads before it calls tm_cb and disarms     *)
(* when it is done.                                                        *)
(*                                                                         *)
(* The loop is taken at what EventLoop promises: a readable descriptor is  *)
(* reported, its callbacks are serial, and it is watched again when they   *)
(* have returned.  Time passes in ticks, between any two steps.            *)
(***************************************************************************)
EXTENDS Integers

CONSTANTS
    Timers,
    Delay,      \* the delay of each timer, in ticks
    IsInterval, \* which of them are intervals
    HasCallback,\* which of them have a tm_cb
    Limit       \* bound: expirations and credit are counted up to here

TimersAssumption ==
    /\ Delay \in [Timers -> Nat]
    /\ IsInterval \in [Timers -> BOOLEAN] /\ HasCallback \in [Timers -> BOOLEAN]
    /\ Limit \in Nat \ {0} /\ \A k \in Timers : 2 * Delay[k] <= Limit

VARIABLES
    tstage,      \* where each timer event is
    left,       \* timerfd: ticks until the next expiration, 0 when disarmed
    interval,   \* timerfd: it_interval
    expired,    \* timerfd: expirations that have not been read
    credit      \* history: ticks since it was set, less Delay for each call

timerVars == <<tstage, left, interval, expired, credit>>

TimerAt(k, s) == tstage[k] = s
TimerGo(k, s) == tstage' = [tstage EXCEPT ![k] = s]

TimerInit ==
    /\ tstage = [k \in Timers |-> "none"]
    /\ left = [k \in Timers |-> 0] /\ interval = left /\ expired = left /\ credit = left

(* get_itimerspec.  (Mutant: it_interval is never set.)                    *)
ItimerspecOnce(k) == [value |-> Delay[k], interval |-> 0]

Itimerspec(k) == [value |-> Delay[k], interval |-> IF IsInterval[k] THEN Delay[k] ELSE 0]

(* timerfd_settime also forgets the expirations.  (The code does not look  *)
(* at its result: a timerfd that is open takes these times.)               *)
SetTime(k, its) ==
    /\ left' = [left EXCEPT ![k] = its.value]
    /\ interval' = [interval EXCEPT ![k] = its.interval]
    /\ expired' = [expired EXCEPT ![k] = 0]

(* add_timeout_ev: the timer runs before the loop watches it.  The loop    *)
(* frees what epoll refuses, and not what has a wrong priority.            *)
Set(k) ==
    /\ TimerAt(k, "none")
    /\ SetTime(k, Itimerspec(k))
    /\ TimerGo(k, "set")
    /\ credit' = [credit EXCEPT ![k] = 0]

WatchTimer(k) ==
    /\ TimerAt(k, "set")
    /\ TimerGo(k, "watched") \/ TimerGo(k, "free") \/ TimerGo(k, "lost")
    /\ UNCHANGED <<left, interval, expired, credit>>

ReportTimer(k) ==
    /\ TimerAt(k, "watched") /\ expired[k] > 0
    /\ TimerGo(k, "read")
    /\ UNCHANGED <<left, interval, expired, credit>>

(* on_timeout reads the timer before it calls back.  (Mutant: it does not.)*)
CallUnread(k) ==
    /\ TimerAt(k, "read") /\ HasCallback[k]
    /\ TimerGo(k, "call")
    /\ credit' = [credit EXCEPT ![k] = @ - Delay[k]]
    /\ UNCHANGED <<left, interval, expired>>

ReadAndCall(k) ==
    /\ TimerAt(k, "read") /\ HasCallback[k]
    /\ expired' = [expired EXCEPT ![k] = 0]
    /\ TimerGo(k, "call")
    /\ credit' = [credit EXCEPT ![k] = @ - Delay[k]]
    /\ UNCHANGED <<left, interval>>

(* Without a tm_cb an expiration ends the timer, which is still running.   *)
ReadUncalled(k) ==
    /\ TimerAt(k, "read") /\ ~HasCallback[k]
    /\ expired' = [expired EXCEPT ![k] = 0]
    /\ TimerGo(k, "free")
    /\ UNCHANGED <<left, interval, credit>>

(* An interval whose callback returns nonzero goes on; every other timer   *)
(* is disarmed, and EV_FIN closes it.                                      *)
TimerReturns(k) ==
    /\ TimerAt(k, "call")
    /\ \/ /\ IsInterval[k]
          /\ TimerGo(k, "watched")
          /\ UNCHANGED <<left, interval, expired>>
       \/ /\ SetTime(k, [value |-> 0, interval |-> 0])
          /\ TimerGo(k, "free")
    /\ UNCHANGED credit

(* ev_watch_item_free: free the data, close the timer, in either order.    *)
Free(k) ==
    /\ TimerAt(k, "free")
    /\ TimerGo(k, "none")
    /\ SetTime(k, [value |-> 0, interval |-> 0])
    /\ credit' = [credit EXCEPT ![k] = 0]

Capped(n) == IF n > Limit THEN Limit ELSE n

Tick ==
    /\ \E k \in Timers : tstage[k] # "none"
    /\ left' = [k \in Timers |-> IF left[k] > 1 THEN left[k] - 1
                                 ELSE IF left[k] = 1 THEN interval[k] ELSE 0]
    /\ expired' = [k \in Timers |-> IF left[k] = 1 THEN Capped(expired[k] + 1) ELSE expired[k]]
    /\ credit' = [k \in Timers |-> IF tstage[k] = "none" THEN 0 ELSE Capped(credit[k] + 1)]
    /\ UNCHANGED <<tstage, interval>>

EventStep(k) ==
    ReportTimer(k) \/ ReadAndCall(k) \/ ReadUncalled(k) \/ TimerReturns(k) \/ Free(k)

TimerNext == Tick \/ \E k \in Timers : Set(k) \/ WatchTimer(k) \/ EventStep(k)

(* Time passes, and the loop and its callbacks run.                        *)
TimerFairness ==
    /\ WF_timerVars(Tick)
    /\ \A k \in Timers : WF_timerVars(WatchTimer(k)) /\ WF_timerVars(EventStep(k))

TimerSpec == TimerInit /\ [][TimerNext]_timerVars /\ TimerFairness

-----------------------------------------------------------------------------
(* Properties                                                              *)

(* ev_handler_register.h: delay is the expire time.  However the ticks     *)
(* fall between the expiration, the read and the callback, the n-th call   *)
(* of a callback comes no earlier than n delays after the timer was set.   *)
TimerNotEarly == \A k \in Timers : credit[k] >= 0

(* A timer with a delay calls back, and an interval again and again until  *)
(* its callback ends it.  (A delay of 0 disarms the timer: its callback is *)
(* never called.)                                                          *)
TimerCalled ==
    \A k \in Timers : Delay[k] > 0 /\ HasCallback[k] =>
        tstage[k] = "watched" ~> tstage[k] = "call"
=============================================================================
