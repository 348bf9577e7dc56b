---------------------------- MODULE MCPollBackends ----------------------------
(* Model values for PollBackends. *)
EXTENDS PollBackends
===============================================================================
