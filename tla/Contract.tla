------------------------------ MODULE Contract ------------------------------
(***************************************************************************)
(* What a platform client's Deploy and Delete leave behind                 *)
(* (src/internal/deploy/deploy.go, Client), told apart the way discovery   *)
(* and verify do: nothing is there, something that has to be redeployed    *)
(* (no worker yet, another version, another relay key), or the worker this *)
(* gateway ships.  Module Platforms shows that the three clients keep it;  *)
(* module Fleet builds its remotes from it.                                *)
(***************************************************************************)
Lives == {"none", "stale", "current"}

\* Deploy answered nil.  Where a worker of the same version ran before, with
\* another relay key, it may be the one that still answers.
AfterDeploy(life) == {"current"} \cup (IF life = "stale" THEN {"stale"} ELSE {})

\* Deploy failed after any of its calls: a project may have been created and
\* left empty, and the new worker may be live all the same.
FailedDeploy(life) == IF life = "none" THEN Lives ELSE {life, "current"}

AfterDelete == {"none"}

\* Delete failed before or after it reached the platform.
FailedDelete(life) == {life, "none"}
=============================================================================
