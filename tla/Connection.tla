----------------------------- MODULE Connection -----------------------------
(***************************************************************************)
(* The C5's path to the cloud: NetworkManager's connection task walking    *)
(* WiFi -> WebSocket -> auth -> ONLINE, the WiFi and WebSocket event       *)
(* handlers that run beside it, and the copy of the state that             *)
(* StateManager keeps for everyone else and only updates along its own     *)
(* transition table.                                                       *)
(*                                                                         *)
(* One action per pass of the task's loop, split where the task sleeps or  *)
(* blocks and an event handler may run in between.  Delays are abstracted: *)
(* a bounded wait either sees what it waits for or expires.                *)
(***************************************************************************)
EXTENDS StateTypes

CONSTANTS
    OnlineReconnectCycleCap,  \* ONLINE_RECONNECT_CYCLE_CAP: 6 in the code
    MaxNetChanges             \* bound: how often the radio and the server turn
                              \* from answering to failing and back

ASSUME CapAssumption == OnlineReconnectCycleCap \in 1..10
ASSUME NetChangesAssumption == MaxNetChanges \in Nat

VARIABLES
    \* NetworkManager
    conn_state, last_fail, reconnect_attempts, was_online,
    wifi_credentials_exist, device_token_exists, awaiting_provision,
    ws_auth_failed,
    step,                     \* where the task is inside the current state
    fail_reason,              \* the reason it will report after disconnect(),
                              \* NONE but while it waits there
    \* StateManager; and has the controller been told to start BLE, whose
    \* links write the state, too?
    sm_conn, sm_fail, ble,
    late,                     \* history: a link's write came when the task had
                              \* left provisioning, and it has not joined since
    \* WifiService: the station's link, its flag and its sticky reason
    link, wifi_connected, last_disconnect_reason,
    \* WebSocketClient
    client, ws_connected, authenticated, auth_rejected,
    \* environment: do the access point and the server answer, and does the
    \* server accept the token?  configured: has setCredentials() run since
    \* boot?  (the shipped S3 never sends the WIFI_CONFIG that leads to it)
    good, net_changes, token_valid, configured

nmVars   == <<conn_state, last_fail, reconnect_attempts, was_online,
              wifi_credentials_exist, device_token_exists,
              awaiting_provision, ws_auth_failed, step, fail_reason>>
smVars   == <<sm_conn, sm_fail, ble, late>>
wifiVars == <<link, wifi_connected, last_disconnect_reason>>
wsVars   == <<client, ws_connected, authenticated, auth_rejected>>
envVars  == <<good, net_changes, token_valid, configured>>
vars     == <<nmVars, smVars, wifiVars, wsVars, envVars>>

Reasons == {"none", "no_ap", "auth", "other"}
Steps   == {"top", "waiting", "announced", "authenticated", "closing",
            "scanning"}

(* The flags, apart from what ranges over a set of names or numbers.       *)
FlagsOK ==
    /\ was_online \in BOOLEAN /\ wifi_credentials_exist \in BOOLEAN
    /\ device_token_exists \in BOOLEAN /\ awaiting_provision \in BOOLEAN
    /\ ws_auth_failed \in BOOLEAN /\ wifi_connected \in BOOLEAN
    /\ ws_connected \in BOOLEAN /\ authenticated \in BOOLEAN
    /\ auth_rejected \in BOOLEAN
    /\ good \in BOOLEAN /\ token_valid \in BOOLEAN /\ configured \in BOOLEAN
    /\ ble \in BOOLEAN /\ late \in BOOLEAN

RangesOK ==
    /\ conn_state \in ConnectionStates \ {"WS_ERROR", "BLE_CONNECTED"}
    /\ sm_conn \in ConnectionStates
    /\ last_fail \in FailReasons /\ fail_reason \in FailReasons
    /\ sm_fail \in FailReasons
    /\ reconnect_attempts \in 0..255
    /\ step \in Steps
    /\ link \in {"off", "joining", "associated", "up"}
    /\ last_disconnect_reason \in Reasons
    /\ client \in {"none", "starting", "up", "dead"}
    /\ net_changes \in 0..MaxNetChanges

(* The values the variables take; the task itself never enters             *)
(* BLE_CONNECTED, which the links of a phone write, or WS_ERROR.           *)
TypeOK == FlagsOK /\ RangesOK

(* Boot: credentials and token come from NVS and may each be missing.      *)
Init ==
    /\ conn_state = "OFFLINE" /\ sm_conn = "OFFLINE"
    /\ last_fail = "NONE" /\ fail_reason = "NONE" /\ sm_fail = "NONE"
    /\ ble = FALSE /\ late = FALSE
    /\ reconnect_attempts = 0 /\ was_online = FALSE
    /\ wifi_credentials_exist \in BOOLEAN
    /\ device_token_exists \in BOOLEAN
    /\ awaiting_provision = FALSE /\ ws_auth_failed = FALSE
    /\ step = "top"
    /\ link = "off" /\ wifi_connected = FALSE
    /\ last_disconnect_reason = "none"
    /\ client = "none" /\ ws_connected = FALSE
    /\ authenticated = FALSE /\ auth_rejected = FALSE
    /\ good \in BOOLEAN /\ net_changes = 0 /\ token_valid \in BOOLEAN
    /\ configured = FALSE

-----------------------------------------------------------------------------
(* StateManager::setConnectionState: an invalid transition is refused and  *)
(* leaves the shared state as it was; the state it has is kept, with the   *)
(* reason first given.  Told of provisioning the controller starts BLE;    *)
(* told of another state it stops it, but when, or whether the message is  *)
(* lost (Provisioning), is open, so a phone may still link from then on.   *)
setConnectionState(to, reason) ==
    IF isValidConnectionTransition(sm_conn, to)
      THEN /\ sm_conn' = to /\ sm_fail' = reason
           /\ ble' = (ble \/ to = "BLE_PROVISIONING")
      ELSE UNCHANGED <<sm_conn, sm_fail, ble>>

(* NetworkManager::transition: the task's own state always moves.  A join  *)
(* is accepted whatever a link wrote.                                      *)
transition(to, reason) ==
    /\ conn_state' = to
    /\ last_fail' = reason
    /\ setConnectionState(to, reason)
    /\ late' = (late /\ to # "WIFI_CONNECTING")

(* classifyWifiFailure: the last disconnect reason wins over association.  *)
classifyWifiFailure ==
    CASE last_disconnect_reason = "no_ap" -> "WIFI_NOT_FOUND"
      [] last_disconnect_reason = "auth"  -> "WIFI_AUTH_FAIL"
      [] OTHER -> IF link \in {"associated", "up"} THEN "DHCP_FAIL"
                                                   ELSE "WIFI_TIMEOUT"

(* connectWithCredentials: the old link is left and one join is tried.     *)
(* Leaving a live link raises a disconnect event; the event task outranks  *)
(* the connection task, which sleeps next, so it is handled here.          *)
connectWithCredentials ==
    /\ link' = "joining"
    /\ wifi_connected' = FALSE
    /\ last_disconnect_reason' = IF link \in {"associated", "up"}
                                 THEN "other" ELSE last_disconnect_reason

-----------------------------------------------------------------------------
(* The connection task.                                                    *)

(* Mutated form: forgets the token.                                        *)
canJoinWithoutToken == wifi_credentials_exist

canJoin == wifi_credentials_exist /\ device_token_exists

OfflineToWifi ==
    /\ conn_state = "OFFLINE"
    /\ canJoin
    /\ transition("WIFI_CONNECTING", "NONE")
    /\ connectWithCredentials
    /\ UNCHANGED <<reconnect_attempts, was_online, wifi_credentials_exist,
                   device_token_exists, awaiting_provision, ws_auth_failed,
                   step, fail_reason, wsVars, envVars>>

OfflineToBle ==
    /\ conn_state = "OFFLINE"
    /\ ~canJoin
    /\ transition("BLE_PROVISIONING", "NONE")
    /\ UNCHANGED <<reconnect_attempts, was_online, wifi_credentials_exist,
                   device_token_exists, awaiting_provision, ws_auth_failed,
                   step, fail_reason, wifiVars, wsVars,
                   envVars>>

WifiUp ==
    /\ conn_state = "WIFI_CONNECTING" /\ step = "top"
    /\ wifi_connected
    /\ transition("WIFI_CONNECTED", "NONE")
    /\ UNCHANGED <<reconnect_attempts, was_online, wifi_credentials_exist,
                   device_token_exists, awaiting_provision, ws_auth_failed,
                   step, fail_reason, wifiVars, wsVars,
                   envVars>>

(* The 10 s / 30 s window closes without an address.  A join in progress   *)
(* beats the window while the access point answers.                        *)
windowOver ==
    /\ conn_state = "WIFI_CONNECTING" /\ step = "top"
    /\ ~wifi_connected
    /\ ~good \/ link = "off"

WifiWindowOver ==
    /\ windowOver /\ was_online
    /\ transition("RECONNECTING", classifyWifiFailure)
    /\ UNCHANGED <<reconnect_attempts, was_online, wifi_credentials_exist,
                   device_token_exists, awaiting_provision, ws_auth_failed,
                   step, fail_reason, wifiVars, wsVars, envVars>>

(* Never online yet: scanForProvisioning blocks for seconds first, and the *)
(* failure is only classified after it.                                    *)
WifiScan ==
    /\ windowOver /\ ~was_online
    /\ step' = "scanning"
    /\ UNCHANGED <<conn_state, last_fail, reconnect_attempts, was_online,
                   wifi_credentials_exist, device_token_exists,
                   awaiting_provision, ws_auth_failed, fail_reason, smVars,
                   wifiVars, wsVars, envVars>>

WifiToBle ==
    /\ step = "scanning"
    /\ transition("BLE_PROVISIONING", classifyWifiFailure)
    /\ step' = "top"
    /\ UNCHANGED <<reconnect_attempts, was_online, wifi_credentials_exist,
                   device_token_exists, awaiting_provision, ws_auth_failed,
                   fail_reason, wifiVars, wsVars, envVars>>

WifiToWs ==
    /\ conn_state = "WIFI_CONNECTED"
    /\ transition("WS_CONNECTING", "NONE")
    /\ UNCHANGED <<reconnect_attempts, was_online, wifi_credentials_exist,
                   device_token_exists, awaiting_provision, ws_auth_failed,
                   step, fail_reason, wifiVars, wsVars,
                   envVars>>

(* ws_->connect() returns an error: no client is left behind.              *)
WsConnectFails ==
    /\ conn_state = "WS_CONNECTING" /\ step = "top"
    /\ ~good
    /\ transition("RECONNECTING", "SERVER_UNREACHABLE")
    /\ ws_auth_failed' = FALSE
    /\ client' = "none" /\ ws_connected' = FALSE
    /\ authenticated' = FALSE /\ auth_rejected' = FALSE
    /\ UNCHANGED <<reconnect_attempts, was_online, wifi_credentials_exist,
                   device_token_exists, awaiting_provision, step,
                   fail_reason, wifiVars, envVars>>

WsConnect ==
    /\ conn_state = "WS_CONNECTING" /\ step = "top"
    /\ step' = "waiting"
    /\ ws_auth_failed' = FALSE
    /\ client' = "starting" /\ ws_connected' = FALSE
    /\ authenticated' = FALSE /\ auth_rejected' = FALSE
    /\ UNCHANGED <<conn_state, last_fail, reconnect_attempts, was_online,
                   wifi_credentials_exist, device_token_exists,
                   awaiting_provision, fail_reason, smVars, wifiVars,
                   envVars>>

(* The poll first sees the socket up: the auth message is on its way.      *)
WsAnnounce ==
    /\ conn_state = "WS_CONNECTING" /\ step = "waiting"
    /\ ws_connected /\ ~authenticated /\ ~ws_auth_failed
    /\ transition("WS_AUTHENTICATING", "NONE")
    /\ step' = "announced"
    /\ UNCHANGED <<reconnect_attempts, was_online, wifi_credentials_exist,
                   device_token_exists, awaiting_provision, ws_auth_failed,
                   fail_reason, wifiVars, wsVars, envVars>>

(* Mutated form: the skipped state is not announced.                       *)
WsLateOnline ==
    /\ conn_state = "WS_CONNECTING" /\ step = "waiting"
    /\ authenticated
    /\ transition("ONLINE", "NONE")
    /\ reconnect_attempts' = 0 /\ was_online' = TRUE
    /\ step' = "top"
    /\ UNCHANGED <<wifi_credentials_exist, device_token_exists,
                   awaiting_provision, ws_auth_failed, fail_reason,
                   wifiVars, wsVars, envVars>>

(* Auth completed before the poll ever saw the socket up: the skipped      *)
(* state is announced all the same.                                        *)
WsLateAnnounce ==
    /\ conn_state = "WS_CONNECTING" /\ step = "waiting"
    /\ authenticated
    /\ transition("WS_AUTHENTICATING", "NONE")
    /\ step' = "authenticated"
    /\ UNCHANGED <<reconnect_attempts, was_online, wifi_credentials_exist,
                   device_token_exists, awaiting_provision, ws_auth_failed,
                   fail_reason, wifiVars, wsVars, envVars>>

WsOnline ==
    /\ conn_state = "WS_AUTHENTICATING"
    /\ \/ step = "announced" /\ authenticated
       \/ step = "authenticated"
    /\ transition("ONLINE", "NONE")
    /\ reconnect_attempts' = 0
    /\ was_online' = TRUE
    /\ step' = "top"
    /\ UNCHANGED <<wifi_credentials_exist, device_token_exists,
                   awaiting_provision, ws_auth_failed, fail_reason,
                   wifiVars, wsVars, envVars>>

(* Mutated form: a refused token is taken for a handshake that failed.     *)
closeReasonAlwaysHandshake == "WS_HANDSHAKE_FAIL"

closeReason == IF auth_rejected THEN "AUTH_REJECTED" ELSE "WS_HANDSHAKE_FAIL"

(* The wait ends without auth: refused, dropped, or 15 s are over.  The    *)
(* reason is read before disconnect(), which takes several 100 ms.         *)
WsWaitOver ==
    /\ step \in {"waiting", "announced"}
    /\ conn_state \in {"WS_CONNECTING", "WS_AUTHENTICATING"}
    /\ ~authenticated
    /\ \/ ws_auth_failed
       \/ step = "announced" /\ ~ws_connected
       \/ ~good
    /\ fail_reason' = closeReason
    /\ step' = "closing"
    /\ UNCHANGED <<conn_state, last_fail, reconnect_attempts, was_online,
                   wifi_credentials_exist, device_token_exists,
                   awaiting_provision, ws_auth_failed, smVars, wifiVars,
                   wsVars, envVars>>

WsClose ==
    /\ step = "closing"
    /\ client' = "none" /\ ws_connected' = FALSE /\ authenticated' = FALSE
    /\ transition("RECONNECTING", fail_reason)
    /\ step' = "top" /\ fail_reason' = "NONE"
    /\ UNCHANGED <<reconnect_attempts, was_online, wifi_credentials_exist,
                   device_token_exists, awaiting_provision, ws_auth_failed,
                   auth_rejected, wifiVars, envVars>>

OnlineLost ==
    /\ conn_state = "ONLINE"
    /\ ~(ws_connected /\ authenticated)
    /\ transition("RECONNECTING", "NONE")
    /\ UNCHANGED <<reconnect_attempts, was_online, wifi_credentials_exist,
                   device_token_exists, awaiting_provision, ws_auth_failed,
                   step, fail_reason, wifiVars, wsVars, envVars>>

-----------------------------------------------------------------------------
(* RECONNECTING: retry, fall back to provisioning, or go offline.          *)

(* was_online_ as the branch sees it: released after enough failed cycles. *)
stillOnlineBefore ==
    was_online /\ reconnect_attempts < OnlineReconnectCycleCap

(* Mutated form: one retry too many.                                       *)
mayRetryOnceMore ==
    /\ MaxRetries[last_fail] > 0
    /\ stillOnlineBefore \/ reconnect_attempts <= MaxRetries[last_fail]

mayRetry ==
    /\ MaxRetries[last_fail] > 0
    /\ stillOnlineBefore \/ reconnect_attempts < MaxRetries[last_fail]

Retry ==
    /\ conn_state = "RECONNECTING"
    /\ mayRetry
    /\ was_online' = stillOnlineBefore
    /\ reconnect_attempts' = (reconnect_attempts + 1) % 256
    /\ \/ /\ wifi_connected
          /\ transition("WS_CONNECTING", "NONE")
          /\ UNCHANGED wifiVars
       \/ /\ ~wifi_connected
          /\ transition("WIFI_CONNECTING", "NONE")
          /\ connectWithCredentials
    /\ UNCHANGED <<wifi_credentials_exist, device_token_exists,
                   awaiting_provision, ws_auth_failed, step, fail_reason,
                   wsVars, envVars>>

FallBackToBle ==
    /\ conn_state = "RECONNECTING"
    /\ ~mayRetry /\ last_fail \in FallbackToBle
    /\ reconnect_attempts' = 0
    /\ was_online' = FALSE
    /\ transition("BLE_PROVISIONING", last_fail)
    /\ UNCHANGED <<wifi_credentials_exist, device_token_exists,
                   awaiting_provision, ws_auth_failed, step, fail_reason,
                   wifiVars, wsVars, envVars>>

GoOffline ==
    /\ conn_state = "RECONNECTING"
    /\ ~mayRetry /\ last_fail \notin FallbackToBle
    /\ was_online' = stillOnlineBefore
    /\ reconnect_attempts' = 0
    /\ transition("OFFLINE", "NONE")
    /\ UNCHANGED <<wifi_credentials_exist, device_token_exists,
                   awaiting_provision, ws_auth_failed, step, fail_reason,
                   wifiVars, wsVars, envVars>>

-----------------------------------------------------------------------------
(* BLE_PROVISIONING: the task arms its flag and waits for setCredentials   *)
(* to clear it; the phone's COMMIT and RESTART reboot the device instead.  *)

BleArm ==
    /\ conn_state = "BLE_PROVISIONING" /\ step = "top"
    /\ awaiting_provision' = TRUE
    /\ step' = "waiting"
    /\ UNCHANGED <<conn_state, last_fail, reconnect_attempts, was_online,
                   wifi_credentials_exist, device_token_exists,
                   ws_auth_failed, fail_reason, smVars, wifiVars, wsVars,
                   envVars>>

BleReleased ==
    /\ conn_state = "BLE_PROVISIONING" /\ step = "waiting"
    /\ ~awaiting_provision
    /\ step' = "top"
    /\ \/ /\ wifi_credentials_exist
          /\ transition("WIFI_CONNECTING", "NONE")
          /\ connectWithCredentials
       \/ /\ ~wifi_credentials_exist
          /\ UNCHANGED <<conn_state, last_fail, smVars, wifiVars>>
    /\ UNCHANGED <<reconnect_attempts, was_online, wifi_credentials_exist,
                   device_token_exists, awaiting_provision, ws_auth_failed,
                   fail_reason, wsVars, envVars>>

(* UART WIFI_CONFIG: setCredentials runs on the UART task at any time.     *)
setCredentials ==
    /\ wifi_credentials_exist' \in BOOLEAN
    /\ awaiting_provision' = FALSE
    /\ configured' = TRUE
    /\ UNCHANGED <<conn_state, last_fail, reconnect_attempts, was_online,
                   device_token_exists, ws_auth_failed, step, fail_reason,
                   good, net_changes, token_valid, smVars, wifiVars, wsVars>>

(* onConnectionChange, on NimBLE's host task: a phone's link that comes or  *)
(* goes is written into the shared state, wherever the connection task is  *)
(* by then.  A link whose coming was refused may go at any time, so which  *)
(* phone is linked need not be known.                                      *)
LinkChanges(to) ==
    /\ ble
    /\ setConnectionState(to, "NONE")
    /\ late' = (late \/ (conn_state # "BLE_PROVISIONING" /\ sm_conn' = to))
    /\ UNCHANGED <<nmVars, wifiVars, wsVars, envVars>>

(* COMMIT stores SSID, password and perhaps a token; RESTART reboots.      *)
Reprovision ==
    /\ ble
    /\ conn_state' = "OFFLINE" /\ sm_conn' = "OFFLINE"
    /\ last_fail' = "NONE" /\ fail_reason' = "NONE" /\ sm_fail' = "NONE"
    /\ ble' = FALSE /\ late' = FALSE
    /\ reconnect_attempts' = 0 /\ was_online' = FALSE
    /\ wifi_credentials_exist' = TRUE
    /\ device_token_exists' \in {device_token_exists, TRUE}
    /\ awaiting_provision' = FALSE /\ ws_auth_failed' = FALSE
    /\ step' = "top"
    /\ link' = "off" /\ wifi_connected' = FALSE
    /\ last_disconnect_reason' = "none"
    /\ client' = "none" /\ ws_connected' = FALSE
    /\ authenticated' = FALSE /\ auth_rejected' = FALSE
    /\ token_valid' \in BOOLEAN
    /\ configured' = FALSE
    /\ UNCHANGED <<good, net_changes>>

-----------------------------------------------------------------------------
(* WifiService event handlers.                                             *)

WifiAssociated ==
    /\ link = "joining"
    /\ link' = "associated"
    /\ UNCHANGED <<wifi_connected, last_disconnect_reason,
                   nmVars, smVars, wsVars, envVars>>

GotIp ==
    /\ link = "associated"
    /\ link' = "up"
    /\ wifi_connected' = TRUE
    /\ UNCHANGED <<last_disconnect_reason, nmVars, smVars,
                   wsVars, envVars>>

(* The access point refuses or drops the station.  Nothing rejoins here.   *)
WifiDropped ==
    /\ ~good
    /\ link # "off"
    /\ link' = "off"
    /\ wifi_connected' = FALSE
    /\ last_disconnect_reason' \in
          (IF link = "joining" THEN {"no_ap", "auth", "other"}
                               ELSE {"auth", "other"})
    /\ UNCHANGED <<nmVars, smVars, wsVars, envVars>>

-----------------------------------------------------------------------------
(* WebSocketClient event handlers, on the websocket task.                  *)

(* CONNECTED; sending the auth message may fail, which fails the auth.     *)
WsUp ==
    /\ client = "starting" /\ link = "up"
    /\ client' = "up"
    /\ ws_connected' = TRUE
    /\ authenticated' = FALSE
    /\ ws_auth_failed' \in {ws_auth_failed, ws_auth_failed \/ ~good}
    /\ UNCHANGED <<auth_rejected, conn_state, last_fail, reconnect_attempts,
                   was_online, wifi_credentials_exist, device_token_exists,
                   awaiting_provision, step, fail_reason, smVars, wifiVars,
                   envVars>>

(* auth_result with status ok.                                             *)
AuthOk ==
    /\ client = "up" /\ ~authenticated /\ ~auth_rejected
    /\ token_valid /\ device_token_exists
    /\ authenticated' = TRUE
    /\ ws_auth_failed' = FALSE
    /\ UNCHANGED <<client, ws_connected, auth_rejected, conn_state, last_fail,
                   reconnect_attempts, was_online, wifi_credentials_exist,
                   device_token_exists, awaiting_provision, step,
                   fail_reason, smVars, wifiVars, envVars>>

(* auth_result with any other status.                                      *)
AuthRejected ==
    /\ client = "up" /\ ~authenticated /\ ~auth_rejected
    /\ ~(token_valid /\ device_token_exists)
    /\ auth_rejected' = TRUE
    /\ ws_auth_failed' = TRUE
    /\ UNCHANGED <<client, ws_connected, authenticated, conn_state, last_fail,
                   reconnect_attempts, was_online, wifi_credentials_exist,
                   device_token_exists, awaiting_provision, step,
                   fail_reason, smVars, wifiVars, envVars>>

(* CLOSED, DISCONNECTED and ERROR: the link or the server is gone, or the  *)
(* server closes a session it has refused or whose token was revoked.      *)
WsDropped ==
    /\ client \in {"starting", "up"}
    /\ \/ ~good \/ link # "up" \/ auth_rejected
       \/ authenticated /\ ~token_valid
    /\ client' = "dead"
    /\ ws_connected' = FALSE
    /\ authenticated' = FALSE
    /\ ws_auth_failed' = TRUE
    /\ UNCHANGED <<auth_rejected, conn_state, last_fail, reconnect_attempts,
                   was_online, wifi_credentials_exist, device_token_exists,
                   awaiting_provision, step, fail_reason, smVars, wifiVars,
                   envVars>>

-----------------------------------------------------------------------------
(* Environment.                                                            *)

NetChange ==
    /\ net_changes < MaxNetChanges
    /\ net_changes' = net_changes + 1
    /\ good' = ~good
    /\ UNCHANGED <<token_valid, configured, nmVars, smVars, wifiVars, wsVars>>

RevokeToken ==
    /\ token_valid
    /\ token_valid' = FALSE
    /\ UNCHANGED <<good, net_changes, configured, nmVars, smVars, wifiVars,
                   wsVars>>

-----------------------------------------------------------------------------
ConnectionTask ==
    \/ OfflineToWifi \/ OfflineToBle \/ WifiUp \/ WifiWindowOver \/ WifiScan
    \/ WifiToBle \/ WifiToWs
    \/ WsConnectFails \/ WsConnect \/ WsAnnounce \/ WsLateAnnounce \/ WsOnline
    \/ WsWaitOver \/ WsClose \/ OnlineLost
    \/ Retry \/ FallBackToBle \/ GoOffline \/ BleArm \/ BleReleased

Events ==
    \/ WifiAssociated \/ GotIp \/ WifiDropped
    \/ WsUp \/ AuthOk \/ AuthRejected \/ WsDropped

Next ==
    ConnectionTask \/ Events \/ setCredentials
    \/ LinkChanges("BLE_CONNECTED") \/ LinkChanges("BLE_PROVISIONING")
    \/ Reprovision
    \/ NetChange \/ RevokeToken

(* The task is scheduled and every wait in it is bounded, so it is weakly  *)
(* fair; an access point and a server that answer do so in the end; a      *)
(* socket without a link dies by keep-alive.                               *)
Fairness ==
    /\ WF_vars(ConnectionTask)
    /\ WF_vars(good /\ (WifiAssociated \/ GotIp))
    /\ WF_vars(good /\ (WsUp \/ AuthOk \/ AuthRejected))
    /\ WF_vars(link # "up" /\ WsDropped)

Spec     == Init /\ [][Next]_vars
FairSpec == Spec /\ Fairness

-----------------------------------------------------------------------------
(* Safety.                                                                 *)

(* NetworkManager::transition logs "always a bug" when the table refuses a *)
(* step, because the screen is stale from then on.  The two copies of the  *)
(* state, and the reasons shown with them, part for a phone's link only:   *)
(* in provisioning it is shown, and the reason is gone from then on; when  *)
(* the task has left provisioning, what the link writes then stays, steps  *)
(* of the task being refused, until the task next joins the network.       *)
copiesAgree == sm_conn = conn_state /\ sm_fail = last_fail

linkShown ==
    /\ sm_conn \in {"BLE_PROVISIONING", "BLE_CONNECTED"}
    /\ sm_fail = "NONE"
    /\ conn_state = "BLE_PROVISIONING" \/ late

SmAgrees == copiesAgree \/ linkShown

(* A device without a token never tries to reach the server: it stays in   *)
(* provisioning instead of looping through a handshake that must fail,     *)
(* unless setCredentials() has released it from there.                     *)
NoJoinWithoutToken ==
    conn_state \in {"WIFI_CONNECTING", "WS_CONNECTING", "ONLINE"}
        => device_token_exists \/ configured

(* The retry budget: the uint8_t counter stays far from its wrap, a device *)
(* that still counts as "was online" has not spent its cycles, and every   *)
(* fresh start from OFFLINE has its full budget.                           *)
RetryBudget ==
    /\ reconnect_attempts <= 10
    /\ was_online => reconnect_attempts <= OnlineReconnectCycleCap
    /\ conn_state = "OFFLINE" => reconnect_attempts = 0

-----------------------------------------------------------------------------
(* Liveness.                                                               *)

(* No outage keeps the device in the reconnect loop for ever: it comes     *)
(* back online, starts over from OFFLINE, or asks to be provisioned.       *)
NoRetryTrap == []<>(conn_state \in {"ONLINE", "OFFLINE", "BLE_PROVISIONING"})

(* Once the access point and the server answer for good, the device is     *)
(* online or, if its credentials or token are useless, in provisioning.    *)
Recovers == <>[]good => <>[](conn_state \in {"ONLINE", "BLE_PROVISIONING"})
                        \/ []<>(conn_state = "BLE_PROVISIONING")

(* An outage comes to an end: the task neither retries for ever nor stays  *)
(* down when the network is good again.                                    *)
OutageEnds == NoRetryTrap /\ Recovers
=============================================================================
