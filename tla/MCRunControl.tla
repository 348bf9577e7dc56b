----------------------------- MODULE MCRunControl -----------------------------
(* Model checking of RunControl: the constants are bound in the .cfg files.  *)
EXTENDS RunControl
===============================================================================
