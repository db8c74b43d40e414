-------------------------- MODULE SessionContract --------------------------
(***************************************************************************)
(* What the agent session promises its user, whatever Pi does:             *)
(*   - a connection becomes ready for prompts only while it is opening,    *)
(*     once, and never again after it has failed or was asked to stop;     *)
(*   - a prompt is written only on a ready connection, one at a time;      *)
(*   - once the outcome of a command is unknown no prompt is written until *)
(*     a new connection was opened, for the block is lifted by nothing     *)
(*     else.                                                               *)
(***************************************************************************)
EXTENDS Naturals

VARIABLES
    link,      \* "down", "opening", "ready", "closing"
    blocked,   \* the outcome of some command is unknown
    prompts    \* prompts written on this connection

vars == <<link, blocked, prompts>>

Init == link = "down" /\ blocked = FALSE /\ prompts = 0

Open ==
    /\ link = "down"
    /\ link' = "opening"
    /\ UNCHANGED <<blocked, prompts>>

BecomeReady ==
    /\ link = "opening"
    /\ ~blocked
    /\ link' = "ready"
    /\ UNCHANGED <<blocked, prompts>>

WritePrompt ==
    /\ link = "ready"
    /\ ~blocked
    /\ prompts' = prompts + 1
    /\ UNCHANGED <<link, blocked>>

OutcomeUnknown ==
    /\ link \in {"ready", "closing"}
    /\ blocked' = TRUE
    /\ UNCHANGED <<link, prompts>>

BeginClosing ==
    /\ link \in {"opening", "ready"}
    /\ link' = "closing"
    /\ UNCHANGED <<blocked, prompts>>

Close ==
    /\ link # "down"
    /\ link' = "down"
    /\ blocked' = FALSE
    /\ prompts' = 0

Next == Open \/ BecomeReady \/ WritePrompt \/ OutcomeUnknown \/ BeginClosing \/ Close

Spec == Init /\ [][Next]_vars
=============================================================================
