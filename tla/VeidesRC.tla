------------------------------ MODULE VeidesRC ------------------------------
(***************************************************************************)
(* The return codes of the SDK (veides_rc.h) and the codes of the Paho     *)
(* MQTT library that the SDK compares them with or passes on.  Both live   *)
(* in one C int and both use 0 for success.                                *)
(***************************************************************************)
EXTENDS Integers

VEIDES_RC_SUCCESS           == 0
VEIDES_RC_NOMEM             == 10001
VEIDES_RC_INVALID_HANDLE    == 10010
VEIDES_RC_INVALID_PROPERTY  == 10020
VEIDES_RC_NULL_PARAM        == 10030
VEIDES_RC_NOT_CONNECTED     == 10050
VEIDES_RC_TIMEOUT           == 10060
VEIDES_RC_HANDLER_NOT_FOUND == 10070

MQTTASYNC_SUCCESS      == 0
MQTTASYNC_FAILURE      == -1
MQTTASYNC_DISCONNECTED == -3
=============================================================================
