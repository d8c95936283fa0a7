----------------------------- MODULE MCMqttReplay -----------------------------
(* A small instance of MqttReplay for TLC. *)
EXTENDS MqttReplay
=============================================================================
