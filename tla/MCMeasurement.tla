----------------------------- MODULE MCMeasurement -----------------------------
(* Model checking of Measurement: the constants that a .cfg cannot spell.      *)
EXTENDS Measurement

\* A latency in each bucket, one corrected, and one that leaves the mean at 0.
FewResponses == {[corrected |-> 13, actual |-> 6], [corrected |-> 0, actual |-> 0]}
===============================================================================
