--------------------------- MODULE MCRedisStorage ---------------------------
(***************************************************************************)
(* A small instance of RedisStorage.                                       *)
(***************************************************************************)
EXTENDS RedisStorage
=============================================================================
