--------------------------- MODULE MCMqttPublisher ---------------------------
(***************************************************************************)
(* Instance of MqttPublisher for TLC: a queue that one message overfills.  *)
(***************************************************************************)
EXTENDS MqttPublisher
=============================================================================
