------------------------------ MODULE MCFdTable ------------------------------
(* Model values for FdTable: two threads, one of them with two connections. *)
(* Handles are only compared, so that they are interchangeable.             *)
EXTENDS FdTable, TLC

CONSTANTS t1, t2, c1, c2, c3, s1, s2, s3
OneAndTwo == (c1 :> t1) @@ (c2 :> t2) @@ (c3 :> t2)
AnyHandle == Permutations(Sockets)
===============================================================================
