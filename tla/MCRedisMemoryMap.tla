-------------------------- MODULE MCRedisMemoryMap --------------------------
(***************************************************************************)
(* Instances of RedisMemoryMap for TLC: two keys, so that commands of      *)
(* different keys share the queue, two sets of each, and one or two        *)
(* crashes, enough for a command to fail after an earlier one failed.      *)
(***************************************************************************)
EXTENDS RedisMemoryMap

CONSTANTS k1, k2

MCKey == {k1, k2}
=============================================================================
