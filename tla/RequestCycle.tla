------------------------------ MODULE RequestCycle ------------------------------
(***************************************************************************)
(* What a connection promises its peer: it sends a batch of Pipeline       *)
(* requests only when every response of the previous batch has arrived,    *)
(* and gives a batch up only together with its socket.                     *)
(***************************************************************************)
EXTENDS Naturals

CONSTANTS Conns, Pipeline

VARIABLE owed   \* responses the peer still owes, per connection

Init == owed = [c \in Conns |-> 0]

Begin(c) ==
    /\ owed[c] = 0
    /\ owed' = [owed EXCEPT ![c] = Pipeline]

Complete(c) ==
    /\ owed[c] > 0
    /\ owed' = [owed EXCEPT ![c] = @ - 1]

\* The socket is replaced: nothing is owed on the new one.
Abort(c) == owed' = [owed EXCEPT ![c] = 0]

Next == \E c \in Conns : Begin(c) \/ Complete(c) \/ Abort(c)

Spec == Init /\ [][Next]_owed
===============================================================================
