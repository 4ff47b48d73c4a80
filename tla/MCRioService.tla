---------------------------- MODULE MCRioService ----------------------------
(***************************************************************************)
(* RioService.tla for TLC.  What two connections and three calls could do  *)
(* together is divided into cases: the reuse of a number, and the life of  *)
(* one connection.                                                         *)
(***************************************************************************)
EXTENDS RioService

ReuseOrLife == {[conns |-> 2, calls |-> 1, data |-> 1], [conns |-> 1, calls |-> 3, data |-> 2]}
=============================================================================
