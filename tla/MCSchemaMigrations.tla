-------------------------- MODULE MCSchemaMigrations --------------------------
(* Values of the constants of SchemaMigrations for TLC.                       *)
EXTENDS SchemaMigrations

CONSTANTS m1, m2, m3
===============================================================================
