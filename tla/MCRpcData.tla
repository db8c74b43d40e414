------------------------------ MODULE MCRpcData ------------------------------
(* The bytes Pi writes and the session it keeps, on small instances.  The   *)
(* two share no state, so a behaviour is about one of them.                 *)
EXTENDS JsonlDecoder, SessionBranch

vars == <<decoderVars, branchVars>>

Init == DecoderInit /\ BranchInit

Next ==
    \/ BranchInit /\ DecoderNext /\ UNCHANGED branchVars
    \/ DecoderInit /\ BranchNext /\ UNCHANGED decoderVars

Spec == Init /\ [][Next]_vars
=============================================================================
