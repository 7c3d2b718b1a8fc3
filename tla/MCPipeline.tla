----------------------------- MODULE MCPipeline -----------------------------
(* Pipeline with two relays, the rows of two transactions and two topics.   *)
EXTENDS Pipeline

CONSTANTS o1, o2, r1, r2

MCMessage == Relays!Written

=============================================================================
