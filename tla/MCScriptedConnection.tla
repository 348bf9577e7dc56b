------------------------- MODULE MCScriptedConnection -------------------------
(* Model checking of ScriptedConnection: constants are bound in the .cfg files. *)
EXTENDS ScriptedConnection
===============================================================================
