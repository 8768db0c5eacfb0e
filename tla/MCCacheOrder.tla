---------------------------- MODULE MCCacheOrder ----------------------------
(* A small instance of CacheOrder for TLC.                                  *)
EXTENDS CacheOrder
=============================================================================
