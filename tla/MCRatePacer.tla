----------------------------- MODULE MCRatePacer ------------------------------
(* Model checking of RatePacer: the constants are bound in the .cfg files.   *)
EXTENDS RatePacer
===============================================================================
