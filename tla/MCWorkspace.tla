---------------------------- MODULE MCWorkspace ----------------------------
(***************************************************************************)
(* Two files: 2 is a top module that instantiates the one of 1; the linter *)
(* warns about 2 when 1 has the wide interface.                            *)
(***************************************************************************)
EXTENDS Workspace, TLC

CONSTANTS narrow, tidy, wide, bad

MCTexts == {narrow, tidy, wide, bad}
MCSignature == narrow :> 1 @@ tidy :> 1 @@ wide :> 2 @@ bad :> 0
MCDisks == {[f \in Files |-> narrow], [f \in Files |-> IF f = 1 THEN bad ELSE narrow]}
MCWarns(d, f) == f = 2 /\ d[1] = wide
=============================================================================
