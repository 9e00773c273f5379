----------------------------- MODULE StateTypes -----------------------------
(***************************************************************************)
(* The enumerations, transition tables and retry policies that the two     *)
(* firmwares share (esp32-c5/src/system/StateTypes.hpp).  The tables are   *)
(* functions from a state to the set of states it may be left for.         *)
(***************************************************************************)
EXTENDS Naturals

ConnectionStates ==
    {"OFFLINE", "WIFI_CONNECTING", "WIFI_CONNECTED", "WS_CONNECTING",
     "WS_AUTHENTICATING", "ONLINE", "RECONNECTING", "BLE_PROVISIONING",
     "BLE_CONNECTED", "WS_ERROR"}

FailReasons ==
    {"NONE", "WIFI_NOT_FOUND", "WIFI_AUTH_FAIL", "WIFI_TIMEOUT", "DHCP_FAIL",
     "SERVER_UNREACHABLE", "WS_HANDSHAKE_FAIL", "AUTH_REJECTED"}

InteractionStates ==
    {"IDLE", "TRIGGERED", "LISTENING", "PROCESSING", "SPEAKING", "CANCELLING"}

OtaStates ==
    {"IDLE", "CHECKING", "AVAILABLE", "DOWNLOADING", "VERIFYING", "FLASHING",
     "REBOOTING", "FAILED"}

-----------------------------------------------------------------------------
(* Transition tables.                                                      *)

ConnectionNext ==
    [OFFLINE           |-> {"WIFI_CONNECTING", "BLE_PROVISIONING"},
     WIFI_CONNECTING   |-> {"WIFI_CONNECTED", "OFFLINE", "BLE_PROVISIONING",
                            "RECONNECTING"},
     WIFI_CONNECTED    |-> {"WS_CONNECTING", "OFFLINE"},
     WS_CONNECTING     |-> {"WS_AUTHENTICATING", "WS_ERROR", "RECONNECTING"},
     WS_AUTHENTICATING |-> {"ONLINE", "WS_ERROR", "RECONNECTING",
                            "BLE_PROVISIONING"},
     ONLINE            |-> {"RECONNECTING", "WS_ERROR"},
     RECONNECTING      |-> {"WS_CONNECTING", "WIFI_CONNECTING", "OFFLINE",
                            "BLE_PROVISIONING"},
     WS_ERROR          |-> {"RECONNECTING", "OFFLINE", "WIFI_CONNECTING"},
     BLE_PROVISIONING  |-> {"BLE_CONNECTED", "WIFI_CONNECTING"},
     BLE_CONNECTED     |-> {"WIFI_CONNECTING", "BLE_PROVISIONING"}]

isValidConnectionTransition(from, to) == to \in ConnectionNext[from]

InteractionNext ==
    [IDLE       |-> {"TRIGGERED", "LISTENING"},
     TRIGGERED  |-> {"LISTENING", "IDLE"},
     LISTENING  |-> {"PROCESSING", "CANCELLING", "IDLE"},
     PROCESSING |-> {"SPEAKING", "IDLE", "LISTENING"},
     SPEAKING   |-> {"IDLE", "CANCELLING", "LISTENING"},
     CANCELLING |-> {"IDLE"}]

isValidInteractionTransition(from, to) == to \in InteractionNext[from]

OtaNext ==
    [IDLE        |-> {"CHECKING", "DOWNLOADING"},
     CHECKING    |-> {"AVAILABLE", "DOWNLOADING", "IDLE"},
     AVAILABLE   |-> {"DOWNLOADING", "IDLE"},
     DOWNLOADING |-> {"VERIFYING", "FAILED"},
     VERIFYING   |-> {"FLASHING", "FAILED"},
     FLASHING    |-> {"REBOOTING", "FAILED"},
     REBOOTING   |-> {},
     FAILED      |-> {"IDLE", "CHECKING", "DOWNLOADING"}]

(* Mutated form: a failed update cannot be started again.                  *)
isValidOtaTransitionNoRetry(from, to) ==
    from # "FAILED" /\ to \in OtaNext[from]

isValidOtaTransition(from, to) == to \in OtaNext[from]

-----------------------------------------------------------------------------
(* Retry policies: how often a failure is retried and where the device     *)
(* goes when the retries are spent.  Delays only pace the retries and are  *)
(* left out.  AUTH_TIMEOUT, DNS_FAIL, INTERNET_CHECK_FAIL and TLS_ERROR    *)
(* are never produced by the code and are left out too; NONE takes the     *)
(* default entry.                                                          *)

MaxRetries ==
    [NONE |-> 3, WIFI_NOT_FOUND |-> 3, WIFI_AUTH_FAIL |-> 0,
     WIFI_TIMEOUT |-> 3, DHCP_FAIL |-> 3, SERVER_UNREACHABLE |-> 10,
     WS_HANDSHAKE_FAIL |-> 5, AUTH_REJECTED |-> 0]

FallbackToBle ==
    {"WIFI_NOT_FOUND", "WIFI_AUTH_FAIL", "WIFI_TIMEOUT", "DHCP_FAIL",
     "AUTH_REJECTED"}
=============================================================================
