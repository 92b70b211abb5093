----------------------------- MODULE MCMqttBridge -----------------------------
(***************************************************************************)
(* MqttBridge for TLC: all commands are for one device.                    *)
(***************************************************************************)
EXTENDS MqttBridge

MCTarget == [c \in Commands |-> CHOOSE d \in Devices : TRUE]
===============================================================================
