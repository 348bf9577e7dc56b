------------------------------- MODULE MCReport -------------------------------
(* Model checking of Report: the constants that a .cfg cannot spell.           *)
EXTENDS Report

\* A latency in each bucket, one corrected.
FewResponses == {[corrected |-> 13, actual |-> 6], [corrected |-> 5, actual |-> 5],
                 [corrected |-> 1, actual |-> 1]}

TwoHeaders == {[url |-> "u1", runtime_us |-> 1, requests |-> 2],
               [url |-> "u2", runtime_us |-> 2, requests |-> 1]}
===============================================================================
