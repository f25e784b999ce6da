---------------------- MODULE MCNativeExpirationBuffer ----------------------
(***************************************************************************)
(* Instances of NativeExpirationBuffer for TLC: two threads that add and   *)
(* two that get, one of them both, so that an add can come between any two *)
(* steps of another add or of a get; a clock that runs past TTL.           *)
(***************************************************************************)
EXTENDS NativeExpirationBuffer
=============================================================================
