------------------------------ MODULE MCRunner ------------------------------
(* Instances of Runner for TLC: an api that depends on a database. *)
EXTENDS RunnerProps, TLC

CONSTANTS db, api

MCDependsOn == (db :> {}) @@ (api :> {db})

(* The database is not watched; the api is restarted at most once. *)
MCPolicy == (db :> "never") @@ (api :> "on-failure")
MCMaxRetries == (db :> 0) @@ (api :> 1)
(* The other way round: the database is watched, the api is not. *)
MCWatchedDatabase == (db :> "always") @@ (api :> "never")
MCDatabaseRetries == (db :> 1) @@ (api :> 0)

MCTwoRetries == (db :> 0) @@ (api :> 2)

(* The Start calls are alike; only safety is checked with the symmetry. *)
StartSymmetry == Permutations(StartCalls)

=============================================================================
