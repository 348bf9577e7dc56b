----------------------------- MODULE MCEventLoop ------------------------------
(* Model checking of EventLoop: the constants that a .cfg cannot spell.      *)
EXTENDS EventLoop

\* thread_main: connections at once, the timers of the thread later.
ConnectAndCheck == <<0, 2>>
===============================================================================
