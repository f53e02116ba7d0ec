---------------------------- MODULE MCOutputMqtt ----------------------------
(* The MQTT Output Adapter on small instances.                             *)
EXTENDS OutputMqtt
=============================================================================
