--------------------------- MODULE MCAgentSession ---------------------------
(***************************************************************************)
(* The instances of AgentSession that TLC checks: each names what may go   *)
(* wrong in it.  The bounds are given in the .cfg files.                   *)
(***************************************************************************)
EXTENDS AgentSession

\* Everything that can happen to a connection on which no prompt is sent
LifecycleDisturbances ==
    {"reject", "mismatch", "failed_tail", "store", "write", "prepare", "spawn",
     "exit", "channel", "garbage", "extension", "deadline"}

\* Lost, late and negative answers to prompt, clear_queue and abort
TurnDisturbances == {"reject", "silent", "write", "deadline"}

\* Model errors, retries, silence and the end of the process during a turn
RetryDisturbances ==
    {"retry", "model_error", "inactivity", "exit", "reject", "deadline"}

\* Everything the liveness properties survive
SettlingDisturbances == {"reject", "write", "exit", "garbage", "deadline"}

\* A process that may never start
SpawnDisturbances == {"spawn"}

\* A process that may end by itself
ExitDisturbances == {"exit"}

NoDisturbance == {}
=============================================================================
