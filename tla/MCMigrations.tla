---------------------------- MODULE MCMigrations ----------------------------
(* Histories of Migrations with rows in the tables that migrations rewrite. *)
EXTENDS Migrations
=============================================================================
