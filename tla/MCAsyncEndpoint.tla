-------------------------- MODULE MCAsyncEndpoint --------------------------
(***************************************************************************)
(* Instances of AsyncEndpoint for TLC: endpoints that await twice and once,*)
(* and one that never awaits.                                              *)
(***************************************************************************)
EXTENDS AsyncEndpoint, TLC

CONSTANTS r1, r2, r3

(* r1 and r2 differ in what their flags may hold, r3 never awaits. *)
AwaitsSome == (r1 :> 2) @@ (r2 :> 2) @@ (r3 :> 0)
FreshSome == (r1 :> BOOLEAN) @@ (r2 :> {FALSE}) @@ (r3 :> BOOLEAN)

AwaitsAll == (r1 :> 2) @@ (r2 :> 1) @@ (r3 :> 1)
FreshFalse == [r \in Requests |-> {FALSE}]
FreshAny == [r \in Requests |-> BOOLEAN]
=============================================================================
