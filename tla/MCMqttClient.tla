---------------------------- MODULE MCMqttClient ----------------------------
(***************************************************************************)
(* A client with two packet ids, so that they wrap, and a keep-alive of    *)
(* two ticks, so that silence of one and a half of it lies between two     *)
(* timeouts.                                                               *)
(***************************************************************************)
EXTENDS MqttClient

=============================================================================
