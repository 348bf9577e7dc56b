----------------------------- MODULE MCConnection -----------------------------
(* Model checking of Connection: the constants are bound in the .cfg files.  *)
EXTENDS Connection
===============================================================================
