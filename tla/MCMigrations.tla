----------------------------- MODULE MCMigrations ------------------------------
(* Three of the seven files, one for each thing that a repeated first statement
   does: 000004 (CREATE TABLE IF NOT EXISTS), 000006 and 000003.              *)
EXTENDS Migrations
MCFiles == <<2, 2, 3>>
MCRepeated == <<"may raise", "passes", "raises">>
===============================================================================
