----------------------------- MODULE MCWorkspace -----------------------------
(* The workspace browser and preview on a small instance.                   *)
EXTENDS Workspace

(* Two names; the first sorts before the second.                            *)
SmallDirents == {(1 :> "directory") @@ (2 :> "file")}
MCNoPath == <<>>
=============================================================================
