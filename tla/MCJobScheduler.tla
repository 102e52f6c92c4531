-------------------------- MODULE MCJobScheduler --------------------------
(***************************************************************************)
(* Instances of JobScheduler for TLC: two workers, two pushers, queues of  *)
(* two jobs at the level of user jobs, and a resuming job above.      *)
(***************************************************************************)
EXTENDS JobScheduler, TLC

CONSTANTS j1, j2, j3, j4

(* j1 to j3 compete for one bounded level; j4 overtakes them. *)
MCPriority == (j1 :> 2) @@ (j2 :> 2) @@ (j3 :> 2) @@ (j4 :> 5)
=============================================================================
