----------------------------- MODULE MCRedisShop -----------------------------
(* The instances of RedisShop that TLC checks are made of MCShop's sets. *)
EXTENDS RedisShop, MCShop
=============================================================================
