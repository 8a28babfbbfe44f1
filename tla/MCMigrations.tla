---------------------------- MODULE MCMigrations ----------------------------
(* Constants of the small instance of Migrations.                          *)
EXTENDS Migrations, TLC

CONSTANTS old, new1, new2

Rollout == (old :> 2) @@ (new1 :> 3) @@ (new2 :> 3)

=============================================================================
