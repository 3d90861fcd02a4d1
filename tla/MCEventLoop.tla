------------------------------ MODULE MCEventLoop ------------------------------
(* Instances of EventLoop for TLC.                                         *)
EXTENDS EventLoop, TLC

CONSTANTS f1, f2, a1

Symmetric == Permutations(Handlers)

(* f1 is the most urgent; an async event queues with f2, or after f1.      *)
MCPrio == [x \in Sources |-> IF x = f1 THEN 0 ELSE 1]
MCAsyncFd == [a \in Asyncs |-> CHOOSE fd \in Fds : \A g \in Fds : Prio[g] <= Prio[fd]]
MCPrioLast == [x \in Sources |-> Lowest]

MCRead == {"EV_READ"}
MCReadWrite == {"EV_READ", "EV_WRITE"}

(* What callbacks return.                                                  *)
ReturnSame == {{"EV_READ"}, {"EV_FIN"}}
ReturnSwitch == {{"EV_READ"}, {"EV_WRITE"}}
ReturnNone == {{"EV_READ"}, {}}
AsyncAgain == {{"EV_ASYNC"}, {"EV_ASYNC", "EV_FIN"}}
AsyncEnds == {{"EV_ASYNC", "EV_FIN"}}
=============================================================================
