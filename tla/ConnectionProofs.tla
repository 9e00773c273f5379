-------------------------- MODULE ConnectionProofs --------------------------
(***************************************************************************)
(* Proofs about being online, and saying so.                               *)
(*                                                                         *)
(* Connection: safety of the connection task for every retry cap up to the *)
(* largest retry budget, whatever WIFI_CONFIG does.                        *)
(*                                                                         *)
(* Screen, in the last part: the screen tells what everybody has been told *)
(* of, for any windows, idle time and number of changes.                   *)
(***************************************************************************)
EXTENDS Connection, Screen, TLAPS

(* Where the task may be inside a state of the machine.  The transition    *)
(* table only accepts each step because of this.                           *)
StepOK ==
    /\ step = "waiting" => conn_state \in {"WS_CONNECTING", "BLE_PROVISIONING"}
    /\ step \in {"announced", "authenticated"} => conn_state = "WS_AUTHENTICATING"
    /\ step = "closing" => conn_state \in {"WS_CONNECTING", "WS_AUTHENTICATING"}
    /\ step = "scanning" => conn_state = "WIFI_CONNECTING"
    /\ conn_state = "WS_AUTHENTICATING" => step # "top"

(* Without WIFI_CONFIG nothing but a reboot leaves provisioning, and the   *)
(* token is there in every state past it.                                  *)
TokenOK ==
    ~configured =>
        /\ conn_state = "BLE_PROVISIONING" /\ step = "waiting"
               => awaiting_provision
        /\ conn_state \notin {"OFFLINE", "BLE_PROVISIONING"}
               => device_token_exists

(* What a link wrote too late is what others see until the next join.      *)
LateOK == late => sm_conn \in {"BLE_PROVISIONING", "BLE_CONNECTED"}

IInv == TypeOK /\ SmAgrees /\ LateOK /\ RetryBudget /\ StepOK /\ TokenOK

USE CapAssumption, NetChangesAssumption

LEMMA InitIInv == Init => IInv
  <1> SUFFICES ASSUME Init PROVE IInv
    OBVIOUS
  <1>1. FlagsOK
    BY Zenon DEF Init, FlagsOK
  <1>2. RangesOK
    BY DEF Init, RangesOK, ConnectionStates, FailReasons, Steps, Reasons
  <1>3. SmAgrees /\ LateOK /\ RetryBudget /\ StepOK /\ TokenOK
    BY DEF Init, SmAgrees, copiesAgree, LateOK, RetryBudget, StepOK, TokenOK
  <1>4. QED
    BY <1>1, <1>2, <1>3 DEF IInv, TypeOK

(* Every reason the task reports is one the policy table knows.            *)
LEMMA ClassifyType == classifyWifiFailure \in FailReasons
  BY DEF classifyWifiFailure, FailReasons

(* No policy allows more than ten retries.                                 *)
LEMMA MaxRetriesType == \A r \in FailReasons : MaxRetries[r] \in 0..10
  BY DEF MaxRetries, FailReasons

(* A stutter leaves the flags.                                             *)
LEMMA FlagsStay == FlagsOK /\ UNCHANGED vars => FlagsOK'
  <1> SUFFICES ASSUME FlagsOK, UNCHANGED vars PROVE FlagsOK'
    OBVIOUS
  <1>1. /\ UNCHANGED <<was_online, wifi_credentials_exist, device_token_exists>>
        /\ UNCHANGED <<awaiting_provision, ws_auth_failed, wifi_connected>>
    BY SMT DEF vars, nmVars, wifiVars
  <1>2. /\ UNCHANGED <<ws_connected, authenticated, auth_rejected>>
        /\ UNCHANGED <<good, token_valid, configured, ble, late>>
    BY SMT DEF vars, wsVars, envVars, smVars
  <1>3. QED
    BY <1>1, <1>2, SMT DEF FlagsOK

(* The flags stay Boolean, whatever the step.                              *)
LEMMA NextFlagsOK == FlagsOK /\ [Next]_vars => FlagsOK'
  <1> SUFFICES ASSUME FlagsOK, [Next]_vars PROVE FlagsOK'
    OBVIOUS
  <1> USE ZenonT(90) DEF FlagsOK, transition, setConnectionState,
                         nmVars, smVars, wifiVars, wsVars, envVars
  <1>1. CASE OfflineToWifi
    BY <1>1 DEF OfflineToWifi, connectWithCredentials
  <1>2. CASE OfflineToBle
    BY <1>2 DEF OfflineToBle, canJoin
  <1>3. CASE WifiUp
    BY <1>3 DEF WifiUp
  <1>4. CASE WifiWindowOver
    BY <1>4 DEF WifiWindowOver
  <1>5. CASE WifiScan
    BY <1>5 DEF WifiScan
  <1>6. CASE WifiToBle
    BY <1>6 DEF WifiToBle
  <1>7. CASE WifiToWs
    BY <1>7 DEF WifiToWs
  <1>8. CASE WsConnectFails
    BY <1>8 DEF WsConnectFails
  <1>9. CASE WsConnect
    BY <1>9 DEF WsConnect
  <1>10. CASE WsAnnounce
    BY <1>10 DEF WsAnnounce
  <1>11. CASE WsLateAnnounce
    BY <1>11 DEF WsLateAnnounce
  <1>12. CASE WsOnline
    BY <1>12 DEF WsOnline
  <1>13. CASE WsWaitOver
    BY <1>13 DEF WsWaitOver, closeReason
  <1>14. CASE WsClose
    BY <1>14 DEF WsClose
  <1>15. CASE OnlineLost
    BY <1>15 DEF OnlineLost
  <1>16. CASE Retry
    BY <1>16 DEF Retry, connectWithCredentials, stillOnlineBefore
  <1>17. CASE FallBackToBle
    BY <1>17 DEF FallBackToBle
  <1>18. CASE GoOffline
    BY <1>18 DEF GoOffline, stillOnlineBefore
  <1>19. CASE BleArm
    BY <1>19 DEF BleArm
  <1>20. CASE BleReleased
    BY <1>20 DEF BleReleased, connectWithCredentials
  <1>21. CASE WifiAssociated
    BY <1>21 DEF WifiAssociated
  <1>22. CASE GotIp
    BY <1>22 DEF GotIp
  <1>23. CASE WifiDropped
    BY <1>23 DEF WifiDropped
  <1>24. CASE WsUp
    BY <1>24 DEF WsUp
  <1>25. CASE AuthOk
    BY <1>25 DEF AuthOk
  <1>26. CASE AuthRejected
    BY <1>26 DEF AuthRejected
  <1>27. CASE WsDropped
    BY <1>27 DEF WsDropped
  <1>28. CASE setCredentials
    BY <1>28 DEF setCredentials
  <1>29. CASE Reprovision
    BY <1>29 DEF Reprovision
  <1>34. ASSUME NEW to, LinkChanges(to) PROVE FlagsOK'
    BY <1>34 DEF LinkChanges, setConnectionState
  <1>30. CASE NetChange
    BY <1>30 DEF NetChange
  <1>31. CASE RevokeToken
    BY <1>31 DEF RevokeToken
  <1>32. CASE UNCHANGED vars
    BY <1>32, FlagsStay
  <1>33. QED
    BY <1>1, <1>2, <1>3, <1>4, <1>5, <1>6, <1>7, <1>8, <1>9,
       <1>10, <1>11, <1>12, <1>13, <1>14, <1>15, <1>16, <1>17, <1>18,
       <1>19, <1>20, <1>21, <1>22, <1>23, <1>24, <1>25, <1>26, <1>27,
       <1>28, <1>29, <1>30, <1>31, <1>32, <1>34
    DEF Next, ConnectionTask, Events

(* The steps of the task that the transition table must allow.             *)
LEMMA TableAllows ==
    /\ \A s \in {"WIFI_CONNECTING", "BLE_PROVISIONING"} :
           isValidConnectionTransition("OFFLINE", s)
    /\ \A s \in {"WIFI_CONNECTED", "RECONNECTING", "BLE_PROVISIONING"} :
           isValidConnectionTransition("WIFI_CONNECTING", s)
    /\ isValidConnectionTransition("WIFI_CONNECTED", "WS_CONNECTING")
    /\ \A s \in {"WS_AUTHENTICATING", "RECONNECTING"} :
           isValidConnectionTransition("WS_CONNECTING", s)
    /\ \A s \in {"ONLINE", "RECONNECTING"} :
           isValidConnectionTransition("WS_AUTHENTICATING", s)
    /\ isValidConnectionTransition("ONLINE", "RECONNECTING")
    /\ \A s \in {"WIFI_CONNECTING", "WS_CONNECTING", "OFFLINE",
                   "BLE_PROVISIONING"} :
           isValidConnectionTransition("RECONNECTING", s)
    /\ isValidConnectionTransition("BLE_PROVISIONING", "WIFI_CONNECTING")
  BY DEF isValidConnectionTransition, ConnectionNext

(* The task has moved, and the copy of its state with it, but for a link's *)
(* late write.                                                             *)
Moved(to, reason) ==
    /\ conn_state' = to /\ last_fail' = reason
    /\ SmAgrees' /\ LateOK'
    /\ sm_conn' \in {sm_conn, to} /\ sm_fail' \in {sm_fail, reason}

(* A step the table allows the task is taken by the copy, too; if a link's *)
(* write stands in the way it stays, except in the way of a join.          *)
LEMMA TransitionAgrees ==
    ASSUME NEW to, NEW reason, SmAgrees, LateOK,
           conn_state # "BLE_CONNECTED", to # "BLE_CONNECTED",
           isValidConnectionTransition(conn_state, to),
           transition(to, reason)
    PROVE  Moved(to, reason)
  <1> USE DEF SmAgrees, copiesAgree, linkShown, LateOK
  <1>1. /\ conn_state' = to /\ last_fail' = reason
        /\ late' <=> late /\ to # "WIFI_CONNECTING"
        /\ sm_conn' = (IF to \in ConnectionNext[sm_conn] THEN to ELSE sm_conn)
        /\ sm_fail' = (IF to \in ConnectionNext[sm_conn] THEN reason
                                                        ELSE sm_fail)
    BY DEF transition, setConnectionState, isValidConnectionTransition
  <1>2. to \in ConnectionNext[conn_state]
    BY DEF isValidConnectionTransition
  <1>3. /\ ConnectionNext["BLE_PROVISIONING"]
               = {"BLE_CONNECTED", "WIFI_CONNECTING"}
        /\ ConnectionNext["BLE_CONNECTED"]
               = {"WIFI_CONNECTING", "BLE_PROVISIONING"}
    BY DEF ConnectionNext
  <1>4. CASE copiesAgree
    BY <1>1, <1>2, <1>3, <1>4 DEF Moved
  <1>5. CASE linkShown
    <2>1. conn_state = "BLE_PROVISIONING" => to = "WIFI_CONNECTING"
      BY <1>2, <1>3
    <2>2. CASE to = "WIFI_CONNECTING"
      BY <1>1, <1>3, <1>5, <2>2 DEF Moved
    <2>3. CASE to # "WIFI_CONNECTING"
      BY <1>1, <1>3, <1>5, <2>1, <2>3 DEF Moved
    <2>4. QED
      BY <2>2, <2>3
  <1>6. QED
    BY <1>4, <1>5

(* A step that leaves both copies alone.                                   *)
LEMMA CopiesKept ==
    ASSUME SmAgrees, LateOK, UNCHANGED <<conn_state, last_fail, smVars>>
    PROVE  SmAgrees' /\ LateOK'
  BY DEF SmAgrees, copiesAgree, linkShown, LateOK, smVars

LEMMA TaskStep == IInv /\ FlagsOK' /\ ConnectionTask => IInv'
  <1> SUFFICES ASSUME IInv, FlagsOK', ConnectionTask PROVE IInv'
    OBVIOUS
  <1> USE DEF IInv, TypeOK, RangesOK, RetryBudget, StepOK, TokenOK,
              ConnectionStates, FailReasons, Steps, Reasons,
              nmVars, smVars, wifiVars, wsVars, envVars
  <1>1. CASE OfflineToWifi
    <2>1. Moved("WIFI_CONNECTING", "NONE")
      BY <1>1, TransitionAgrees, TableAllows DEF OfflineToWifi, canJoin
    <2>2. QED
      BY <1>1, <2>1 DEF OfflineToWifi, canJoin, Moved, connectWithCredentials
  <1>2. CASE OfflineToBle
    <2>1. Moved("BLE_PROVISIONING", "NONE")
      BY <1>2, TransitionAgrees, TableAllows DEF OfflineToBle, canJoin
    <2>2. QED
      BY <1>2, <2>1 DEF OfflineToBle, canJoin, Moved
  <1>3. CASE WifiUp
    <2>1. Moved("WIFI_CONNECTED", "NONE")
      BY <1>3, TransitionAgrees, TableAllows DEF WifiUp
    <2>2. QED
      BY <1>3, <2>1 DEF WifiUp, Moved
  <1>4. CASE WifiWindowOver
    <2>1. Moved("RECONNECTING", classifyWifiFailure)
      BY <1>4, TransitionAgrees, TableAllows DEF WifiWindowOver, windowOver
    <2>2. QED
      BY <1>4, <2>1, ClassifyType DEF WifiWindowOver, windowOver, Moved
  <1>5. CASE WifiScan
    BY <1>5, CopiesKept DEF WifiScan, windowOver
  <1>6. CASE WifiToBle
    <2>1. Moved("BLE_PROVISIONING", classifyWifiFailure)
      BY <1>6, TransitionAgrees, TableAllows DEF WifiToBle
    <2>2. QED
      BY <1>6, <2>1, ClassifyType DEF WifiToBle, Moved
  <1>7. CASE WifiToWs
    <2>1. Moved("WS_CONNECTING", "NONE")
      BY <1>7, TransitionAgrees, TableAllows DEF WifiToWs
    <2>2. QED
      BY <1>7, <2>1 DEF WifiToWs, Moved
  <1>8. CASE WsConnectFails
    <2>1. Moved("RECONNECTING", "SERVER_UNREACHABLE")
      BY <1>8, TransitionAgrees, TableAllows DEF WsConnectFails
    <2>2. QED
      BY <1>8, <2>1 DEF WsConnectFails, Moved
  <1>9. CASE WsConnect
    BY <1>9, CopiesKept DEF WsConnect
  <1>10. CASE WsAnnounce
    <2>1. Moved("WS_AUTHENTICATING", "NONE")
      BY <1>10, TransitionAgrees, TableAllows DEF WsAnnounce
    <2>2. QED
      BY <1>10, <2>1 DEF WsAnnounce, Moved
  <1>11. CASE WsLateAnnounce
    <2>1. Moved("WS_AUTHENTICATING", "NONE")
      BY <1>11, TransitionAgrees, TableAllows DEF WsLateAnnounce
    <2>2. QED
      BY <1>11, <2>1 DEF WsLateAnnounce, Moved
  <1>12. CASE WsOnline
    <2>1. Moved("ONLINE", "NONE")
      BY <1>12, TransitionAgrees, TableAllows DEF WsOnline
    <2>2. QED
      BY <1>12, <2>1 DEF WsOnline, Moved
  <1>13. CASE WsWaitOver
    BY <1>13, CopiesKept DEF WsWaitOver, closeReason
  <1>14. CASE WsClose
    <2>1. Moved("RECONNECTING", fail_reason)
      BY <1>14, TransitionAgrees, TableAllows DEF WsClose
    <2>2. QED
      BY <1>14, <2>1 DEF WsClose, Moved
  <1>15. CASE OnlineLost
    <2>1. Moved("RECONNECTING", "NONE")
      BY <1>15, TransitionAgrees, TableAllows DEF OnlineLost
    <2>2. QED
      BY <1>15, <2>1 DEF OnlineLost, Moved
  <1>16. CASE Retry
    <2> DEFINE to == IF wifi_connected THEN "WS_CONNECTING"
                                      ELSE "WIFI_CONNECTING"
    <2>1. Moved(to, "NONE")
      BY <1>16, TransitionAgrees, TableAllows DEF Retry
    <2>2. MaxRetries[last_fail] \in 0..10
      BY MaxRetriesType
    <2>3. reconnect_attempts < 10
      BY <1>16, <2>2 DEF Retry, mayRetry, stillOnlineBefore
    <2>4. reconnect_attempts' = reconnect_attempts + 1
      BY <1>16, <2>3 DEF Retry
    <2>5. was_online' => stillOnlineBefore
      BY <1>16, Zenon DEF Retry
    <2>6. RetryBudget'
      BY <2>1, <2>3, <2>4, <2>5 DEF Moved, stillOnlineBefore
    <2>7. step' = step /\ link' \in {link, "joining"}
          /\ last_disconnect_reason' \in {last_disconnect_reason, "other"}
      BY <1>16 DEF Retry, connectWithCredentials
    <2>8. RangesOK'
      BY <1>16, <2>1, <2>3, <2>4, <2>7 DEF Retry, Moved
    <2>9. (StepOK /\ TokenOK)'
      BY <1>16, <2>1 DEF Retry, Moved
    <2>10. QED
      BY <2>1, <2>6, <2>8, <2>9 DEF Moved
  <1>17. CASE FallBackToBle
    <2>1. Moved("BLE_PROVISIONING", last_fail)
      BY <1>17, TransitionAgrees, TableAllows DEF FallBackToBle
    <2>2. QED
      BY <1>17, <2>1 DEF FallBackToBle, Moved
  <1>18. CASE GoOffline
    <2>1. Moved("OFFLINE", "NONE")
      BY <1>18, TransitionAgrees, TableAllows DEF GoOffline
    <2>2. QED
      BY <1>18, <2>1 DEF GoOffline, Moved, stillOnlineBefore
  <1>19. CASE BleArm
    BY <1>19, CopiesKept DEF BleArm
  <1>20. CASE BleReleased
    <2>1. CASE wifi_credentials_exist
      <3>1. Moved("WIFI_CONNECTING", "NONE")
        BY <1>20, <2>1, TransitionAgrees, TableAllows DEF BleReleased
      <3>2. QED
        BY <1>20, <2>1, <3>1 DEF BleReleased, Moved, connectWithCredentials
    <2>2. CASE ~wifi_credentials_exist
      BY <1>20, <2>2, CopiesKept DEF BleReleased
    <2>3. QED
      BY <2>1, <2>2
  <1>21. QED
    BY <1>1, <1>2, <1>3, <1>4, <1>5, <1>6, <1>7, <1>8, <1>9,
       <1>10, <1>11, <1>12, <1>13, <1>14, <1>15, <1>16, <1>17, <1>18,
       <1>19, <1>20
    DEF ConnectionTask

(* The event handlers touch neither copy of the state nor the counters.    *)
LEMMA EventStep == IInv /\ FlagsOK' /\ Events => IInv'
  <1> SUFFICES ASSUME IInv, FlagsOK', Events PROVE IInv'
    OBVIOUS
  <1>0. SmAgrees' /\ LateOK'
    BY CopiesKept DEF IInv, Events, WifiAssociated, GotIp, WifiDropped, WsUp,
       AuthOk, AuthRejected, WsDropped, nmVars
  <1> USE <1>0 DEF IInv, TypeOK, RangesOK, RetryBudget, StepOK, TokenOK,
              Reasons, nmVars, smVars, wifiVars, wsVars, envVars
  <1>1. CASE WifiAssociated
    BY <1>1 DEF WifiAssociated
  <1>2. CASE GotIp
    BY <1>2 DEF GotIp
  <1>3. CASE WifiDropped
    BY <1>3 DEF WifiDropped
  <1>4. CASE WsUp
    BY <1>4 DEF WsUp
  <1>5. CASE AuthOk
    BY <1>5 DEF AuthOk
  <1>6. CASE AuthRejected
    BY <1>6 DEF AuthRejected
  <1>7. CASE WsDropped
    BY <1>7 DEF WsDropped
  <1>8. QED
    BY <1>1, <1>2, <1>3, <1>4, <1>5, <1>6, <1>7 DEF Events

(* A phone's link is shown for provisioning, and is late otherwise.        *)
LEMMA LinkStep ==
    ASSUME IInv, FlagsOK', NEW to \in {"BLE_PROVISIONING", "BLE_CONNECTED"},
           LinkChanges(to)
    PROVE  IInv'
  <1>1. /\ sm_conn' = (IF to \in ConnectionNext[sm_conn] THEN to ELSE sm_conn)
        /\ sm_fail' = (IF to \in ConnectionNext[sm_conn] THEN "NONE"
                                                        ELSE sm_fail)
        /\ late' <=> late \/ (conn_state # "BLE_PROVISIONING" /\ sm_conn' = to)
        /\ UNCHANGED <<nmVars, wifiVars, wsVars, envVars>>
    BY DEF LinkChanges, setConnectionState, isValidConnectionTransition
  <1>2. UNCHANGED <<conn_state, last_fail>>
    BY <1>1 DEF nmVars
  <1>3. conn_state # "BLE_CONNECTED"
    BY DEF IInv, TypeOK, RangesOK
  <1>4. SmAgrees' /\ LateOK'
    <2> USE DEF IInv, SmAgrees, copiesAgree, linkShown, LateOK
    <2>1. CASE to \in ConnectionNext[sm_conn]
      BY <1>1, <1>2, <2>1
    <2>2. CASE to \notin ConnectionNext[sm_conn]
      BY <1>1, <1>2, <1>3, <2>2
    <2>3. QED
      BY <2>1, <2>2
  <1>5. sm_conn' \in ConnectionStates /\ sm_fail' \in FailReasons
    BY <1>1 DEF IInv, TypeOK, RangesOK, ConnectionStates, FailReasons
  <1>6. QED
    BY <1>1, <1>4, <1>5 DEF IInv, TypeOK, RangesOK, RetryBudget, StepOK, TokenOK,
       nmVars, wifiVars, wsVars, envVars

LEMMA NextIInv == IInv /\ [Next]_vars => IInv'
  <1> SUFFICES ASSUME IInv, [Next]_vars PROVE IInv'
    OBVIOUS
  <1>0. FlagsOK'
    BY NextFlagsOK DEF IInv, TypeOK
  <1>1. CASE ConnectionTask
    BY <1>0, <1>1, TaskStep
  <1>2. CASE Events
    BY <1>0, <1>2, EventStep
  <1>3. ASSUME NEW to \in {"BLE_PROVISIONING", "BLE_CONNECTED"},
               LinkChanges(to)
        PROVE  IInv'
    BY <1>0, <1>3, LinkStep
  <1> USE DEF IInv, TypeOK, RangesOK, RetryBudget, StepOK, TokenOK,
              nmVars, smVars, wifiVars, wsVars, envVars
  <1>4. CASE setCredentials
    BY <1>0, <1>4, CopiesKept DEF setCredentials
  <1>5. CASE Reprovision
    BY <1>0, <1>5 DEF Reprovision, ConnectionStates, FailReasons, Steps, Reasons,
       SmAgrees, copiesAgree, LateOK
  <1>6. CASE NetChange
    BY <1>0, <1>6, CopiesKept DEF NetChange
  <1>7. CASE RevokeToken
    BY <1>0, <1>7, CopiesKept DEF RevokeToken
  <1>8. CASE UNCHANGED vars
    BY <1>0, <1>8, CopiesKept DEF vars
  <1>9. QED
    BY <1>1, <1>2, <1>3, <1>4, <1>5, <1>6, <1>7, <1>8 DEF Next

LEMMA IInvAlways == Spec => []IInv
  BY InitIInv, NextIInv, PTL DEF Spec

(* Every value stays in its range; the uint8_t counter in particular.      *)
THEOREM TypeCorrect == Spec => []TypeOK
  <1>1. IInv => TypeOK
    BY DEF IInv
  <1>2. QED
    BY <1>1, IInvAlways, PTL

(* StateManager refuses no step of the connection task, except what a link *)
(* wrote after provisioning is in its way, and then until the task next    *)
(* joins the network (NetworkManager::transition, onConnectionChange).     *)
THEOREM SmAlwaysAgrees == Spec => []SmAgrees
  <1>1. IInv => SmAgrees
    BY DEF IInv
  <1>2. QED
    BY <1>1, IInvAlways, PTL

(* The retry counter is bounded by the largest policy, the "was online"    *)
(* mode by its cap, and every start from OFFLINE has a full budget.        *)
THEOREM RetriesBounded == Spec => []RetryBudget
  <1>1. IInv => RetryBudget
    BY DEF IInv
  <1>2. QED
    BY <1>1, IInvAlways, PTL

(* Without setCredentials() a device that has no token never leaves        *)
(* provisioning for the network.                                           *)
THEOREM TokenBeforeJoin == Spec => []NoJoinWithoutToken
  <1>1. IInv => NoJoinWithoutToken
    BY DEF IInv, TokenOK, NoJoinWithoutToken
  <1>2. QED
    BY <1>1, IInvAlways, PTL

-----------------------------------------------------------------------------
(* What the S3's screen shows of the connection and of the turn.           *)
FrameLoop == Draw \/ exitScene \/ Rotate \/ tickIdle
OtherSwap == playBootSequence \/ deviceCommand \/ captureStart
                 \/ captureEnd

(* Nobody has a change to show before the boot animation ends.             *)
NothingToTell ==
    /\ booting_ <=> boot = "animation"
    /\ booting_ => \A t \in Tasks : pending[t] = Quiet

(* Unless one setter has overtaken another, the one callback to come shows *)
(* the state as it is.                                                     *)
Latest(kind) == IF kind = "conn" THEN conn ELSE inter
NewestToCome ==
    \A k \in Kinds : ~overtaken[k] =>
        \A t \in Tasks : pending[t].kind = k =>
            /\ pending[t].value = Latest(k)
            /\ \A u \in Tasks \ {t} : pending[u].kind # k

(* A network scene that came between two frames has no window, and the     *)
(* display task is not about to act on an older scene's.                   *)
BetweenFrames == shown_by = "conn" /\ ~torn
SceneHeld ==
    BetweenFrames /\ current \in Conns
        => ~holding_ /\ ~idle_active_ /\ frame = "rest"

(* It is the scene of the state everybody has been told of.                *)
SceneUp ==
    BetweenFrames /\ Told("conn") /\ conn # "ONLINE" => current = conn

(* Content that is not about to end has frames left.                       *)
TimeLeft == frame # "expiring" => elapsed_ms_ < HoldFrames

ScreenInv ==
    /\ ScreenTypeOK /\ TimeLeft /\ NothingToTell /\ NewestToCome
    /\ SceneHeld /\ SceneUp /\ MicShown /\ FaceOfTurn

(* A swap of the scene keeps the scene's fields in their ranges.           *)
LEMMA SwapTyped ==
    ASSUME ScreenTypeOK,
           \/ Shown
           \/ \E c \in Faces \cup (Conns \ {"ONLINE"}),
                 sticky \in BOOLEAN, who \in {"conn", "other"} :
                    showScene(c, sticky, who)
    PROVE  /\ current' \in Faces \cup (Conns \ {"ONLINE"})
           /\ holding_' \in BOOLEAN /\ idle_active_' \in BOOLEAN
           /\ elapsed_ms_' \in {0, elapsed_ms_}
           /\ torn' \in BOOLEAN /\ shown_by' \in {"conn", "other"}
<1>1. CASE Shown
    BY <1>1 DEF Shown, ScreenTypeOK
<1>2. CASE \E c \in Faces \cup (Conns \ {"ONLINE"}),
              sticky \in BOOLEAN, who \in {"conn", "other"} :
                 showScene(c, sticky, who)
    BY <1>2, Zenon DEF showScene
<1>. QED
    BY <1>1, <1>2

(* What a callback to come holds.                                          *)
LEMMA PendingTyped ==
    ASSUME ScreenTypeOK, NEW t \in Tasks
    PROVE  /\ pending[t].kind = "conn" => pending[t].value \in Conns
           /\ pending[t].kind = "inter" => pending[t].value \in Inters
           /\ pending[t] # Quiet => pending[t].kind \in Kinds
           /\ Quiet.kind \notin Kinds
<1>1. pending[t] \in {Quiet} \cup [kind : {"conn"}, value : Conns]
                         \cup [kind : {"inter"}, value : Inters]
    BY DEF ScreenTypeOK
<1>2. CASE pending[t] = Quiet
    BY <1>2 DEF Quiet, Kinds
<1>3. CASE pending[t] \in [kind : {"conn"}, value : Conns]
    BY <1>3 DEF Quiet, Kinds
<1>4. CASE pending[t] \in [kind : {"inter"}, value : Inters]
    BY <1>4 DEF Quiet, Kinds
<1>. QED
    BY <1>1, <1>2, <1>3, <1>4

(* A callback swaps the scene for the value its setter left, or leaves it  *)
(* alone; it never runs during the boot animation.                         *)
LEMMA CallbackShows ==
    ASSUME ScreenInv, NEW t \in Tasks, Callback(t)
    PROVE  /\ ~booting_ /\ pending[t].kind \in Kinds
           /\ pending[t].kind = "conn" =>
                /\ mic_listening_' = mic_listening_
                /\ \/ /\ pending[t].value = "ONLINE"
                      /\ showScene("normal", FALSE, "conn")
                   \/ /\ pending[t].value \in Conns \ {"ONLINE"}
                      /\ showScene(pending[t].value, TRUE, "conn")
           /\ pending[t].kind = "inter" =>
                /\ mic_listening_' = (pending[t].value = "LISTENING")
                /\ \/ pending[t].value = "SPEAKING" /\ Shown
                   \/ /\ pending[t].value = "LISTENING"
                      /\ showScene("listening", TRUE, "other")
                   \/ /\ pending[t].value = "PROCESSING"
                      /\ showScene("thinking", TRUE, "other")
                   \/ /\ pending[t].value = "IDLE"
                      /\ showScene("normal", FALSE, "other")
<1>1. pending[t] # Quiet
    BY DEF Callback
<1>2. ~booting_
    BY <1>1 DEF ScreenInv, NothingToTell
<1>3. /\ pending[t].kind \in Kinds
      /\ pending[t].kind = "conn" => pending[t].value \in Conns
      /\ pending[t].kind = "inter" => pending[t].value \in Inters
    BY <1>1, PendingTyped DEF ScreenInv
<1>4. ASSUME pending[t].kind = "conn"
      PROVE  /\ mic_listening_' = mic_listening_
             /\ handleConnectivity(pending[t].value)
    BY <1>4 DEF Callback
<1>5. ASSUME pending[t].kind = "inter"
      PROVE  handleInteraction(pending[t].value)
    BY <1>5 DEF Callback
<1>6. ASSUME pending[t].kind = "conn"
      PROVE  \/ /\ pending[t].value = "ONLINE"
                /\ showScene("normal", FALSE, "conn")
             \/ /\ pending[t].value \in Conns \ {"ONLINE"}
                /\ showScene(pending[t].value, TRUE, "conn")
    BY <1>2, <1>3, <1>4, <1>6, Zenon DEF handleConnectivity
<1>7. ASSUME pending[t].kind = "inter"
      PROVE  /\ mic_listening_' = (pending[t].value = "LISTENING")
             /\ \/ pending[t].value = "SPEAKING" /\ Shown
                \/ /\ pending[t].value = "LISTENING"
                   /\ showScene("listening", TRUE, "other")
                \/ /\ pending[t].value = "PROCESSING"
                   /\ showScene("thinking", TRUE, "other")
                \/ /\ pending[t].value = "IDLE"
                   /\ showScene("normal", FALSE, "other")
    BY <1>2, <1>5, <1>7, Zenon DEF handleInteraction
<1>. QED
    BY <1>2, <1>3, <1>4, <1>6, <1>7

(* The screen's variables keep their types.                                *)
LEMMA ScreenTyped ==
    ASSUME ScreenInv, [ScreenNext]_screenVars
    PROVE  ScreenTypeOK' /\ TimeLeft'
<1> USE DEF ScreenTypeOK, stateVars, tellVars, dispVars,
            sceneVars, Faces, Conns, Inters
<1>0. ScreenTypeOK /\ TimeLeft
    BY DEF ScreenInv
<1> USE HoldFramesAssumption DEF TimeLeft
<1>1. CASE FrameLoop
  <2>1. CASE Rotate
      BY <1>0, <2>1 DEF Rotate, Shown
  <2>4. CASE Draw
    <3>1. /\ elapsed_ms_' \in 0..HoldFrames
          /\ elapsed_ms_' = HoldFrames \/ elapsed_ms_' < HoldFrames
        BY <1>0, <2>4 DEF Draw
    <3>. QED
        BY <1>0, <2>4, <3>1 DEF Draw
  <2>2. CASE exitScene
    <3>1. holding_' \in BOOLEAN /\ idle_active_' \in BOOLEAN
        BY <2>2, Zenon DEF exitScene
    <3>. QED
        BY <1>0, <2>2, <3>1 DEF exitScene
  <2>3. CASE tickIdle
      BY <1>0, <2>3 DEF tickIdle
  <2>. QED
      BY <1>1, <2>1, <2>2, <2>3, <2>4 DEF FrameLoop
<1>2. ASSUME NEW t \in Tasks, Callback(t)
      PROVE  ScreenTypeOK' /\ TimeLeft'
  <2>1. /\ current' \in Faces \cup (Conns \ {"ONLINE"})
        /\ holding_' \in BOOLEAN /\ idle_active_' \in BOOLEAN
        /\ elapsed_ms_' \in {0, elapsed_ms_}
        /\ torn' \in BOOLEAN /\ shown_by' \in {"conn", "other"}
      BY <1>0, <1>2, CallbackShows, SwapTyped DEF Kinds
  <2>2. mic_listening_' \in BOOLEAN
      BY <1>0, <1>2, CallbackShows DEF Kinds
  <2>3. pending' = [pending EXCEPT ![t] = Quiet]
      BY <1>2 DEF Callback
  <2>. QED
      BY <1>0, <1>2, <2>1, <2>2, <2>3 DEF Callback
<1>3. ASSUME NEW t \in Tasks, NEW k \in Kinds,
             NEW v \in IF k = "conn" THEN Conns ELSE Inters,
             Tell(t, k, v)
      PROVE  /\ pending' \in [Tasks -> {Quiet}
                        \cup [kind : {"conn"}, value : Conns]
                        \cup [kind : {"inter"}, value : Inters]]
             /\ overtaken' \in [Kinds -> BOOLEAN]
    BY <1>0, <1>3 DEF Tell, Kinds
<1>4. ASSUME NEW s \in Conns, S3setConnectionState(s)
      PROVE  ScreenTypeOK' /\ TimeLeft'
    BY <1>0, <1>3, <1>4
    DEF S3setConnectionState, Tasks, Kinds
<1>5. ASSUME NEW t \in {"uart", "ctrl", "audio"}, NEW s \in Inters,
             setInteractionState(t, s)
      PROVE  ScreenTypeOK' /\ TimeLeft'
    BY <1>0, <1>3, <1>5
    DEF setInteractionState, Tasks, Kinds
<1>6. ASSUME NEW t \in {"uart", "main"}, setRunning(t)
      PROVE  ScreenTypeOK' /\ TimeLeft'
  <2>1. boot' \in {"animation", "start", "done"} /\ running' \in BOOLEAN
      BY <1>0, <1>6, Zenon DEF setRunning
  <2>2. CASE running
      BY <1>0, <1>6, <2>1, <2>2 DEF setRunning
  <2>3. CASE ~running
      BY <1>0, <1>3, <1>6, <2>1, <2>3
      DEF setRunning, Tasks, Kinds
  <2>. QED
      BY <2>2, <2>3
<1>7. CASE OtherSwap
  <2>1. \E c \in Faces, sticky \in BOOLEAN :
            showScene(c, sticky, "other")
      BY <1>7, Zenon DEF OtherSwap, playBootSequence, deviceCommand,
                         captureStart, captureEnd
  <2>2. /\ current' \in Faces \cup (Conns \ {"ONLINE"})
        /\ holding_' \in BOOLEAN /\ idle_active_' \in BOOLEAN
        /\ elapsed_ms_' \in {0, elapsed_ms_}
        /\ torn' \in BOOLEAN /\ shown_by' \in {"conn", "other"}
      BY <1>0, <2>1, SwapTyped
  <2>3. /\ boot' \in {"animation", "start", "done"}
        /\ cam' \in {"idle", "sending"}
        /\ booting_' \in BOOLEAN /\ mic_listening_' \in BOOLEAN
        /\ capturing_' \in BOOLEAN
      BY <1>0, <1>7, Zenon
      DEF OtherSwap, playBootSequence, deviceCommand,
          captureStart, captureEnd
  <2>4. UNCHANGED <<conn, inter, running, pending, overtaken, frame>>
      BY <1>7, Zenon
      DEF OtherSwap, playBootSequence, deviceCommand,
          captureStart, captureEnd
  <2>5. elapsed_ms_' \in 0..HoldFrames
      BY <1>0, <2>2
  <2>6. frame' # "expiring" => elapsed_ms_' < HoldFrames
      BY <1>0, <2>2, <2>4
  <2>. QED
      BY <1>0, <2>2, <2>3, <2>4, <2>5, <2>6
<1>8. CASE UNCHANGED screenVars
    BY <1>0, <1>8 DEF screenVars
<1>. QED
    BY <1>1, <1>2, <1>4, <1>5, <1>6, <1>7, <1>8
    DEF ScreenNext, FrameLoop, OtherSwap

(* A callback to come is added to a task that has none, for the state it   *)
(* has just set.                                                           *)
LEMMA TellLeaves ==
    ASSUME ScreenInv, NEW t \in Tasks, NEW k \in Kinds, NEW v,
           pending[t] = Quiet, Tell(t, k, v), v = Latest(k)',
           \A l \in Kinds \ {k} : Latest(l)' = Latest(l)
    PROVE  /\ NewestToCome'
           /\ \E u \in Tasks : pending'[u].kind = k
           /\ \A l \in Kinds \ {k} : Told(l)' <=> Told(l)
<1>1. /\ pending \in [Tasks -> [kind : {"none", "conn", "inter"},
                          value : {"none"} \cup Conns \cup Inters]]
      /\ overtaken \in [Kinds -> BOOLEAN]
    BY DEF ScreenInv, ScreenTypeOK, Quiet
<1>2. /\ pending'[t] = [kind |-> k, value |-> v]
      /\ \A u \in Tasks \ {t} : pending'[u] = pending[u]
      /\ overtaken'[k] <=> \E u \in Tasks \ {t} : pending[u].kind = k
      /\ \A l \in Kinds \ {k} : overtaken'[l] = overtaken[l]
    BY <1>1 DEF Tell
<1>3. pending[t].kind \notin Kinds
    BY DEF Quiet, Kinds
<1>4. ASSUME NEW l \in Kinds, ~overtaken'[l],
             NEW u \in Tasks, pending'[u].kind = l
      PROVE  /\ pending'[u].value = Latest(l)'
             /\ \A w \in Tasks \ {u} : pending'[w].kind # l
  <2>1. CASE l = k
    <3>1. u = t
        BY <1>2, <1>4, <2>1
    <3>. QED
        BY <1>2, <1>4, <2>1, <3>1
  <2>2. CASE l # k
    <3>1. u # t /\ pending[u].kind = l /\ ~overtaken[l]
        BY <1>2, <1>4, <2>2
    <3>2. /\ pending[u].value = Latest(l)
          /\ \A w \in Tasks \ {u} : pending[w].kind # l
        BY <3>1, <1>4 DEF ScreenInv, NewestToCome
    <3>3. Latest(l)' = Latest(l)
        BY <2>2
    <3>. QED
        BY <1>2, <1>4, <2>2, <3>1, <3>2, <3>3
  <2>. QED
      BY <2>1, <2>2
<1>5. NewestToCome'
    BY <1>4 DEF NewestToCome
<1>6. \E u \in Tasks : pending'[u].kind = k
    BY <1>2
<1>7. \A l \in Kinds \ {k} : Told(l)' <=> Told(l)
    BY <1>2, <1>3 DEF Told
<1>. QED
    BY <1>5, <1>6, <1>7

(* A step that neither sets a state nor tells of one.                      *)
LEMMA TellsNothing ==
    ASSUME ScreenInv, UNCHANGED <<conn, inter, pending, overtaken>>
    PROVE  /\ NewestToCome'
           /\ \A k \in Kinds : Told(k)' <=> Told(k)
    BY DEF ScreenInv, NewestToCome, Latest, Told

(* The scene's part of the invariant, from what a step does to it.         *)
LEMMA SwappedElsewhere ==
    ASSUME ScreenInv, shown_by' = "other", UNCHANGED <<conn, inter, pending,
               overtaken, mic_listening_>>,
           \/ current' \in {"normal", "emotion", "scene", "camera"}
           \/ holding_'
    PROVE  SceneHeld' /\ SceneUp' /\ MicShown' /\ FaceOfTurn'
<1>1. ~BetweenFrames'
    BY DEF BetweenFrames
<1>2. Told("inter")' <=> Told("inter")
    BY DEF Told
<1>. QED
    BY <1>1, <1>2 DEF ScreenInv, SceneHeld, SceneUp, MicShown,
                      FaceOfTurn

(* Each callback shows the newest state, or somebody has not been told.    *)
LEMMA CallbackKeeps ==
    ASSUME ScreenInv, NEW t \in Tasks, Callback(t)
    PROVE  /\ NothingToTell' /\ NewestToCome'
           /\ SceneHeld' /\ SceneUp' /\ MicShown' /\ FaceOfTurn'
<1> DEFINE v == pending[t].value
<1>1. /\ pending' = [pending EXCEPT ![t] = Quiet]
      /\ UNCHANGED <<overtaken, conn, inter, booting_, frame, boot>>
    BY DEF Callback, stateVars
<1>2. /\ pending'[t] = Quiet
      /\ \A u \in Tasks \ {t} : pending'[u] = pending[u]
    BY <1>1 DEF ScreenInv, ScreenTypeOK
<1>3. Quiet.kind \notin Kinds
    BY DEF Quiet, Kinds
<1>4. ~booting_ /\ pending[t].kind \in Kinds
    BY CallbackShows
<1>5. NothingToTell'
    BY <1>1, <1>4 DEF ScreenInv, NothingToTell
<1>6. \A k \in Kinds : Latest(k)' = Latest(k)
    BY <1>1 DEF Latest
<1>7. NewestToCome'
    BY <1>1, <1>2, <1>3, <1>6 DEF ScreenInv, NewestToCome
<1>8. \A k \in Kinds : /\ pending[t].kind = k /\ Told(k)'
                           => v = Latest(k)
                       /\ pending[t].kind # k
                           => (Told(k)' <=> Told(k))
    BY <1>1, <1>2, <1>3 DEF ScreenInv, NewestToCome, Told
<1> HIDE DEF v
<1>9. CASE pending[t].kind = "conn"
  <2>1. /\ mic_listening_' = mic_listening_
        /\ \/ v = "ONLINE" /\ showScene("normal", FALSE, "conn")
           \/ /\ v \in Conns \ {"ONLINE"}
              /\ showScene(v, TRUE, "conn")
      BY <1>9, CallbackShows DEF v
  <2>2. /\ current' = IF v = "ONLINE" THEN "normal" ELSE v
        /\ v \in Conns
        /\ v # "ONLINE" => ~holding_'
        /\ ~idle_active_' /\ shown_by' = "conn"
        /\ torn' = (frame # "rest")
      BY <2>1 DEF showScene, Conns
  <2>3. Told("conn")' => v = conn
      BY <1>8, <1>9 DEF Latest, Kinds
  <2>4. Told("inter")' <=> Told("inter")
      BY <1>8, <1>9 DEF Kinds
  <2>5. SceneHeld'
      BY <1>1, <2>2 DEF SceneHeld, BetweenFrames, Conns
  <2>6. SceneUp'
      BY <1>1, <2>2, <2>3 DEF SceneUp
  <2>7. MicShown'
      BY <1>1, <2>1, <2>4 DEF ScreenInv, MicShown
  <2>8. FaceOfTurn'
      BY <2>2 DEF FaceOfTurn, Conns
  <2>. QED
      BY <1>5, <1>7, <2>5, <2>6, <2>7, <2>8
<1>10. CASE pending[t].kind = "inter"
  <2>1. /\ mic_listening_' = (v = "LISTENING")
        /\ \/ v = "SPEAKING" /\ Shown
           \/ v = "LISTENING" /\ showScene("listening", TRUE, "other")
           \/ v = "PROCESSING" /\ showScene("thinking", TRUE, "other")
           \/ v = "IDLE" /\ showScene("normal", FALSE, "other")
      BY <1>10, CallbackShows DEF v
  <2>2. Told("inter")' => v = inter
      BY <1>8, <1>10 DEF Latest, Kinds
  <2>3. Told("conn")' <=> Told("conn")
      BY <1>8, <1>10 DEF Kinds
  <2>4. MicShown'
      BY <1>1, <2>1, <2>2 DEF MicShown
  <2>5. CASE v = "SPEAKING" /\ Shown
    <3>1. UNCHANGED <<current, holding_, idle_active_, torn, shown_by>>
        BY <2>5 DEF Shown
    <3>2. SceneHeld' /\ SceneUp'
        BY <1>1, <2>3, <3>1 DEF ScreenInv, SceneHeld, SceneUp, BetweenFrames
    <3>3. FaceOfTurn'
        BY <1>1, <2>2, <2>5 DEF FaceOfTurn
    <3>. QED
        BY <1>5, <1>7, <2>4, <3>2, <3>3
  <2>6. ASSUME NEW c \in {"listening", "thinking", "normal"},
               NEW sticky \in BOOLEAN, showScene(c, sticky, "other"),
               c = "listening" => v = "LISTENING",
               c = "thinking" => v = "PROCESSING"
        PROVE  SceneHeld' /\ SceneUp' /\ FaceOfTurn'
    <3>1. current' = c /\ shown_by' = "other"
        BY <2>6 DEF showScene
    <3>2. SceneHeld' /\ SceneUp'
        BY <3>1 DEF SceneHeld, SceneUp, BetweenFrames
    <3>3. FaceOfTurn'
        BY <1>1, <2>2, <2>6, <3>1 DEF FaceOfTurn
    <3>. QED
        BY <3>2, <3>3
  <2>. QED
      BY <1>5, <1>7, <2>1, <2>4, <2>5, <2>6
<1>. QED
    BY <1>4, <1>9, <1>10 DEF Kinds

(* A setter leaves the screen for its callback to change.                  *)
LEMMA SetterKeeps ==
    ASSUME ScreenInv,
           UNCHANGED <<booting_, mic_listening_, sceneVars>>,
           ~booting_, boot' # "animation",
           NEW t \in Tasks, NEW k \in Kinds, NEW v,
           pending[t] = Quiet, Tell(t, k, v), v = Latest(k)',
           k = "conn" => inter' = inter, k = "inter" => conn' = conn
    PROVE  /\ NothingToTell' /\ NewestToCome'
           /\ SceneHeld' /\ SceneUp' /\ MicShown' /\ FaceOfTurn'
<1>1. \A l \in Kinds \ {k} : Latest(l)' = Latest(l)
    BY DEF Latest, Kinds
<1>2. /\ NewestToCome' /\ ~Told(k)'
      /\ \A l \in Kinds \ {k} : Told(l)' <=> Told(l)
  <2>1. \E u \in Tasks : pending'[u].kind = k
      BY <1>1, TellLeaves
  <2>2. ~Told(k)'
      BY <2>1 DEF Told
  <2>. QED
      BY <1>1, <2>2, TellLeaves
<1>3. NothingToTell'
    BY DEF NothingToTell
<1>4. UNCHANGED <<current, holding_, idle_active_, frame, torn, shown_by>>
    BY DEF sceneVars
<1>5. SceneHeld'
    BY <1>4 DEF ScreenInv, SceneHeld, BetweenFrames
<1>6. SceneUp'
    BY <1>2, <1>4 DEF ScreenInv, SceneUp, BetweenFrames, Kinds
<1>7. MicShown' /\ FaceOfTurn'
    BY <1>2, <1>4 DEF ScreenInv, MicShown, FaceOfTurn, Kinds
<1>. QED
    BY <1>2, <1>3, <1>5, <1>6, <1>7

(* Every step of the tasks, the camera and the frame loop.                 *)
LEMMA ScreenStep == ScreenInv /\ [ScreenNext]_screenVars => ScreenInv'
<1> DEFINE Rest == /\ NothingToTell' /\ NewestToCome'
                   /\ SceneHeld' /\ SceneUp' /\ MicShown' /\ FaceOfTurn'
<1> SUFFICES ASSUME ScreenInv, [ScreenNext]_screenVars PROVE Rest
    BY ScreenTyped DEF ScreenInv
<1>1. CASE FrameLoop
  <2>1. UNCHANGED <<conn, inter, pending, overtaken, booting_, boot,
                    mic_listening_, torn, shown_by>>
      BY <1>1 DEF FrameLoop, Draw, exitScene, Rotate,
                  tickIdle, Shown, stateVars, tellVars,
                  dispVars
  <2>2. /\ NothingToTell' /\ NewestToCome'
        /\ \A k \in Kinds : Told(k)' <=> Told(k)
      BY <2>1, TellsNothing DEF ScreenInv, NothingToTell
  <2>3. \/ current' = current /\ holding_' = holding_
        \/ current' \in {"normal", "emotion"} /\ frame # "rest"
        \/ current' \in {"normal", "emotion"} /\ idle_active_
      BY <1>1 DEF FrameLoop, Draw, exitScene, Rotate,
                  tickIdle, Shown
  <2>4. BetweenFrames /\ current \in Conns => FALSE
      BY <1>1 DEF ScreenInv, SceneHeld, FrameLoop, Draw, exitScene,
                  Rotate, tickIdle, endsOnItsOwn, PlaysOnce, Conns
  <2>5. SceneHeld'
      BY <2>1, <2>3, <2>4 DEF SceneHeld, BetweenFrames, Conns
  <2>6. SceneUp'
    <3>1. BetweenFrames /\ Told("conn") /\ conn # "ONLINE" => FALSE
        BY <2>4 DEF ScreenInv, SceneUp, ScreenTypeOK
    <3>. QED
        BY <2>1, <2>2, <3>1 DEF SceneUp, BetweenFrames, Kinds
  <2>7. MicShown' /\ FaceOfTurn'
      BY <2>1, <2>2, <2>3
      DEF ScreenInv, MicShown, FaceOfTurn, Kinds
  <2>. QED
      BY <2>2, <2>5, <2>6, <2>7
<1>2. ASSUME NEW t \in Tasks, Callback(t)
      PROVE  Rest
    BY <1>2, CallbackKeeps
<1>3. ASSUME NEW s \in Conns, S3setConnectionState(s)
      PROVE  Rest
  <2>1. /\ Tell("uart", "conn", s) /\ conn' = s /\ inter' = inter
        /\ boot # "animation" /\ pending["uart"] = Quiet
        /\ UNCHANGED <<booting_, mic_listening_, sceneVars, boot>>
      BY <1>3 DEF S3setConnectionState, mayAct, dispVars
  <2>2. ~booting_ /\ boot' # "animation"
      BY <2>1 DEF ScreenInv, NothingToTell
  <2>3. "uart" \in Tasks /\ "conn" \in Kinds /\ s = Latest("conn")'
      BY <2>1 DEF Tasks, Kinds, Latest
  <2>. QED
      BY <2>1, <2>2, <2>3, SetterKeeps
<1>4. ASSUME NEW t \in {"uart", "ctrl", "audio"}, NEW s \in Inters,
             setInteractionState(t, s)
      PROVE  Rest
  <2>1. /\ Tell(t, "inter", s) /\ inter' = s /\ conn' = conn
        /\ boot # "animation" /\ pending[t] = Quiet
        /\ UNCHANGED <<booting_, mic_listening_, sceneVars, boot>>
      BY <1>4 DEF setInteractionState, mayAct, dispVars
  <2>2. ~booting_ /\ boot' # "animation"
      BY <2>1 DEF ScreenInv, NothingToTell
  <2>3. t \in Tasks /\ "inter" \in Kinds /\ s = Latest("inter")'
      BY <2>1 DEF Tasks, Kinds, Latest
  <2>. QED
      BY <2>1, <2>2, <2>3, SetterKeeps
<1>5. ASSUME NEW t \in {"uart", "main"}, setRunning(t)
      PROVE  Rest
  <2>1. /\ boot = "start" /\ boot' # "animation" /\ pending[t] = Quiet
        /\ UNCHANGED <<conn, inter, booting_, mic_listening_, sceneVars>>
      BY <1>5 DEF setRunning, dispVars
  <2>2. ~booting_
      BY <2>1 DEF ScreenInv, NothingToTell
  <2>3. CASE running
    <3>1. UNCHANGED <<pending, overtaken>>
        BY <1>5, <2>3 DEF setRunning, tellVars
    <3>2. NewestToCome' /\ \A k \in Kinds : Told(k)' <=> Told(k)
        BY <2>1, <3>1, TellsNothing
    <3>3. NothingToTell'
        BY <2>1, <2>2 DEF NothingToTell
    <3>4. SceneHeld' /\ SceneUp' /\ MicShown' /\ FaceOfTurn'
        BY <2>1, <3>2
        DEF ScreenInv, SceneHeld, SceneUp, MicShown, FaceOfTurn,
            BetweenFrames, sceneVars, Kinds
    <3>. QED
        BY <3>2, <3>3, <3>4
  <2>4. CASE ~running
    <3>1. Tell(t, "conn", conn)
        BY <1>5, <2>4 DEF setRunning
    <3>2. t \in Tasks /\ "conn" \in Kinds /\ conn = Latest("conn")'
        BY <2>1 DEF Tasks, Kinds, Latest
    <3>. QED
        BY <2>1, <2>2, <3>1, <3>2, SetterKeeps
  <2>. QED
      BY <2>3, <2>4
<1>6. CASE OtherSwap
  <2>1. /\ \/ current' \in {"normal", "emotion", "scene", "camera"}
           \/ holding_'
        /\ shown_by' = "other"
        /\ UNCHANGED <<conn, inter, pending, overtaken, mic_listening_>>
      BY <1>6 DEF OtherSwap, playBootSequence, deviceCommand,
                  captureStart, captureEnd, showScene,
                  stateVars, tellVars, dispVars
  <2>2. NothingToTell'
    <3>1. \/ ~booting_' /\ boot' # "animation"
          \/ booting_' = booting_ /\ boot' = boot
        BY <1>6, Zenon
        DEF OtherSwap, playBootSequence, deviceCommand,
            captureStart, captureEnd, dispVars
    <3>. QED
        BY <2>1, <3>1 DEF ScreenInv, NothingToTell
  <2>. QED
      BY <2>1, <2>2, SwappedElsewhere, TellsNothing
<1>7. CASE UNCHANGED screenVars
  <2>1. UNCHANGED <<conn, inter, pending, overtaken, booting_, boot, current,
                    mic_listening_, holding_, idle_active_, frame, torn,
                    shown_by>>
      BY <1>7 DEF screenVars, stateVars, tellVars, dispVars,
                  sceneVars
  <2>2. NewestToCome' /\ \A k \in Kinds : Told(k)' <=> Told(k)
      BY <2>1, TellsNothing
  <2>. QED
      BY <2>1, <2>2
      DEF ScreenInv, NothingToTell, SceneHeld, SceneUp, MicShown,
          FaceOfTurn, BetweenFrames, Kinds
<1> HIDE DEF Rest
<1>. QED
    BY <1>1, <1>2, <1>3, <1>4, <1>5, <1>6, <1>7
    DEF ScreenNext, FrameLoop, OtherSwap

(* The power-on scene.                                                     *)
LEMMA ScreenStarts == ScreenInit => ScreenInv
<1> SUFFICES ASSUME ScreenInit PROVE ScreenInv
    OBVIOUS
<1>1. elapsed_ms_ \in 0..HoldFrames
    BY HoldFramesAssumption DEF ScreenInit
<1>2. ScreenTypeOK
    BY <1>1 DEF ScreenInit, ScreenTypeOK, Conns, Inters, Faces
<1>3. \A t \in Tasks : pending[t] = Quiet
    BY DEF ScreenInit
<1>4. NothingToTell
    BY <1>3 DEF ScreenInit, NothingToTell
<1>5. NewestToCome
    BY <1>3 DEF NewestToCome, Quiet, Kinds
<1>6. TimeLeft
    BY HoldFramesAssumption DEF ScreenInit, TimeLeft
<1>7. SceneHeld /\ SceneUp /\ MicShown /\ FaceOfTurn
    BY Zenon DEF ScreenInit, SceneHeld, SceneUp, MicShown, FaceOfTurn,
           BetweenFrames, Conns
<1>. QED
    BY <1>2, <1>4, <1>5, <1>6, <1>7 DEF ScreenInv

LEMMA ScreenAlways == ScreenSpec => []ScreenInv
    BY ScreenStarts, ScreenStep, PTL DEF ScreenSpec

(* A robot that is not online says so until something else is shown: no    *)
(* frame of the display task takes the network scene away.                 *)
THEOREM NetworkSceneHolds == ScreenSpec => []NetworkSceneStays
<1>1. ScreenInv => NetworkSceneStays
  <2> SUFFICES ASSUME ScreenInv, Told("conn"), conn # "ONLINE",
                      shown_by = "conn", ~torn
               PROVE  current = conn /\ ~holding_ /\ ~idle_active_
      BY DEF NetworkSceneStays
  <2>1. current = conn
      BY DEF ScreenInv, SceneUp, BetweenFrames
  <2>2. current \in Conns
      BY <2>1 DEF ScreenInv, ScreenTypeOK
  <2>. QED
      BY <2>1, <2>2 DEF ScreenInv, SceneHeld, BetweenFrames
<1>. QED
    BY <1>1, ScreenAlways, PTL

(* The microphone's icon and the turn's faces are those of the state that  *)
(* everybody has been told of, whichever tasks set it.                     *)
THEOREM TurnAlwaysShown == ScreenSpec => []TurnShown
<1>1. ScreenInv => TurnShown
    BY DEF ScreenInv, TurnShown
<1>. QED
    BY <1>1, ScreenAlways, PTL
=============================================================================
