---------------------- MODULE MCRedisExpirationBuffer ----------------------
(***************************************************************************)
(* Instances of RedisExpirationBuffer for TLC.                             *)
(***************************************************************************)
EXTENDS RedisExpirationBuffer, TLC

CONSTANTS t1, t2, v1, v2

BothThreads == {t1, t2}
OneThread == {t1}
MCValue == {v1, v2}

(* Threads and values are interchangeable. *)
Symmetric == Permutations({t1, t2}) \cup Permutations(MCValue)
=============================================================================
