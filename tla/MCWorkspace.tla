----------------------------- MODULE MCWorkspace -----------------------------
(* Small instances of Workspace for TLC. *)
EXTENDS Workspace, TLC

\* Two languages with their starter codes.
Starters == ("CPP" :> "cpp") @@ ("JAVA" :> "")
=============================================================================
