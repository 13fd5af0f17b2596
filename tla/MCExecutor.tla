----------------------------- MODULE MCExecutor -----------------------------
(* Model-checking instance of Executor: two tickets compete for the one   *)
(* place of the registry, each with up to two units of device work.       *)
EXTENDS Executor
=============================================================================
