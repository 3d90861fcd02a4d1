------------------------------ MODULE MCSources ------------------------------
(***************************************************************************)
(* What feeds the event loop, and the buffered reads beside it, for TLC.   *)
(* The four modules share nothing; a behaviour is one of one of them, and  *)
(* mode says which.                                                        *)
(***************************************************************************)
EXTENDS Signals, Timers, FsRead, BufferedIo

VARIABLE mode

sourceVars == <<mode, vars, timerVars, fileVars, ioVars>>

MCDelay == [interval |-> 2, once |-> 1, uncalled |-> 1]
MCTimers == DOMAIN MCDelay
MCIsInterval == [k \in MCTimers |-> k # "once"]
MCHasCallback == [k \in MCTimers |-> k # "uncalled"]

ASSUME SignalsAssumption /\ TimersAssumption /\ FileAssumption /\ IoAssumption

Modes == {"signals", "timers", "files", "buffered"}
MCInit == mode \in Modes /\ Init /\ TimerInit /\ FileInit /\ IoInit

(* Bounds: of each, two of the three are there at a time.  (They only keep *)
(* Make and Set from being taken, which nothing is fair to.)               *)
TwoEvents == \E r \in Regs : stage[r] = "free"
TwoTimers == \E k \in MCTimers : tstage[k] = "none"

MCNext ==
    \/ mode = "signals" /\ Next /\ TwoEvents' /\ UNCHANGED <<mode, timerVars, fileVars, ioVars>>
    \/ mode = "timers" /\ TimerNext /\ TwoTimers' /\ UNCHANGED <<mode, vars, fileVars, ioVars>>
    \/ mode = "files" /\ Turn /\ UNCHANGED <<mode, vars, timerVars, ioVars>>
    \/ mode = "buffered" /\ IoNext /\ UNCHANGED <<mode, vars, timerVars, fileVars>>

(* Nothing that signals or timers are fair to is enabled before they start.*)
MCSpec ==
    /\ MCInit /\ [][MCNext]_sourceVars
    /\ Fairness /\ TimerFairness
    /\ (mode = "files" => FileFairness)

-----------------------------------------------------------------------------
(* Properties, beside those of the four modules.                           *)

(* fs_read ends, unless its turns make no progress for ever.               *)
FileReadEnds == mode = "files" => ReadEnds
=============================================================================
