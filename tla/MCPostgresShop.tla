----------------------------- MODULE MCPostgresShop -----------------------------
(* The instances of PostgresShop that TLC checks are made of MCShop's sets. *)
EXTENDS PostgresShop, MCShop
=============================================================================
