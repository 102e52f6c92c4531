------------------------------ MODULE MCServer ------------------------------
(***************************************************************************)
(* Instances of Server for TLC: clients whose requests take branches of the*)
(* dispatch that differ in what they touch; between them they do all that  *)
(* a client may do.                                                        *)
(***************************************************************************)
EXTENDS Server, TLC

CONSTANTS c1, c2, c3

MCBranch == (c1 :> "served") @@ (c2 :> "wrongMethod") @@ (c3 :> "badMethod")

MCConduct == (c1 :> {"whole"}) @@ (c2 :> {"half", "reset"}) @@ (c3 :> {"close"})
=============================================================================
