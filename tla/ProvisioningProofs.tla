------------------------- MODULE ProvisioningProofs -------------------------
(***************************************************************************)
(* What provisioning guarantees for any number of links, WIFI_CONFIGs and  *)
(* faults, and any budget of PINs.  The parts of the invariant are about   *)
(* different variables and are kept one by one.                            *)
(***************************************************************************)
EXTENDS Provisioning, TLAPS

(* Wrong PINs are what pin_attempts_ counts, and the lock goes on in time. *)
Counted ==
    /\ guesses = pin_attempts
    /\ ~pin_locked => pin_attempts < MaxPinAttempts

(* access_level_ is of this link, and so is a token that is still good.    *)
Earned == /\ level >= 1 => unlocked
          /\ token = "valid" => ~spent

(* What was acknowledged is in NVS, or still to be written from temp_cfg_. *)
Kept ==
    \A f \in Fields :
        promised[f] # "none" =>
            IF host = "wifi" \/ host = f THEN promised[f] = temp_cfg[f]
                                         ELSE promised[f] = nvs[f]

(* Before the connection task runs there is no provisioning; and only in   *)
(* provisioning does it wait.                                              *)
BootOK ==
    /\ nm = "STOPPED" => sm = "OFFLINE" /\ queue = <<>> /\ ~adv /\ phone = "none"
    /\ waiting => nm = "BLE_PROVISIONING"

(* What a link wrote too late is what others see until the next join.      *)
LateOK == late => sm \in {"BLE_PROVISIONING", "BLE_CONNECTED"}

IInv == TypeOK /\ Counted /\ Earned /\ Kept /\ BootOK /\ SmFollows /\ LateOK

-----------------------------------------------------------------------------
USE ProvisioningBounds

(* The bounds of ProvisioningBounds one by one.                            *)
LEMMA Budgets == /\ MaxPinAttempts \in Nat \ {0} /\ QueueRoom \in Nat \ {0}
                 /\ MaxLinks \in Nat /\ MaxConfigs \in Nat /\ MaxFaults \in Nat
  OBVIOUS

(* At boot nobody has guessed, and NVS is what is in RAM.                  *)
LEMMA InitIInv == Init => IInv
  <1> SUFFICES ASSUME Init PROVE IInv
    OBVIOUS
  <1>1. nvs \in [Fields -> Writers] /\ temp_cfg \in [Fields -> Writers]
    BY DEF Init, Fields, Writers, Empty
  <1>2. FlagsOK
    BY Zenon DEF Init, FlagsOK
  <1>3. RangesOK
    BY <1>1, Budgets DEF Init, RangesOK, NmStates, Fields, Writers, Empty
  <1>4. Counted /\ Earned /\ BootOK /\ SmFollows /\ LateOK
    BY Budgets DEF Init, Counted, Earned, BootOK, SmFollows, LateOK
  <1>5. Kept
    BY DEF Init, Kept, Empty
  <1>6. QED
    BY <1>2, <1>3, <1>4, <1>5 DEF IInv, TypeOK

-----------------------------------------------------------------------------
(* Whether the message found room is known.                                *)
LEMMA ToldFlags ==
    ASSUME dropped \in BOOLEAN, NEW to, setConnectionState(to)
    PROVE  dropped' \in BOOLEAN
  <1>1. room \in BOOLEAN
    BY DEF room
  <1>2. QED
    BY <1>1 DEF setConnectionState

(* The flags stay flags.                                                   *)
LEMMA NextFlagsOK == FlagsOK /\ [Next]_vars => FlagsOK'
  <1> SUFFICES ASSUME FlagsOK, [Next]_vars PROVE FlagsOK'
    OBVIOUS
  <1> USE Zenon DEF FlagsOK, taskVars, smVars, ctlVars, linkVars, pinVars,
                    admVars, savVars, past
  <1>1. CASE startNetwork
    BY <1>1 DEF startNetwork
  <1>2. CASE BleArm
    BY <1>2 DEF BleArm
  <1>3. CASE BleReleased
    <2>1. late' \in BOOLEAN /\ dropped' \in BOOLEAN
      BY <1>3, ToldFlags DEF BleReleased, transition
    <2>2. QED
      BY <1>3, <2>1 DEF BleReleased, transition
  <1>4. ASSUME NEW to \in NmStates, Walk(to) PROVE FlagsOK'
    <2>1. late' \in BOOLEAN /\ dropped' \in BOOLEAN
      BY <1>4, ToldFlags DEF Walk, transition
    <2>2. QED
      BY <1>4, <2>1 DEF Walk, transition
  <1>5. CASE startBleProvisioning
    BY <1>5 DEF startBleProvisioning, advertise
  <1>6. CASE stopBleProvisioning
    BY <1>6 DEF stopBleProvisioning
  <1>7. CASE deinit
    BY <1>7 DEF deinit
  <1>8. CASE Save
    BY <1>8 DEF Save
  <1>9. CASE executeCommand \/ PowerFails
    BY <1>9 DEF executeCommand, PowerFails, booted
  <1>10. CASE RightPin \/ LockoutOver
    BY <1>10 DEF RightPin, LockoutOver
  <1>11. CASE WrongPin
    <2>1. budgetSpent(pin_attempts') \in BOOLEAN
      BY SMT DEF budgetSpent
    <2>2. pin_locked' \in BOOLEAN
      BY <1>11, <2>1 DEF WrongPin
    <2>3. QED
      BY <1>11, <2>2 DEF WrongPin
  <1>12. CASE GetToken \/ AdminAuth
    BY <1>12 DEF GetToken, AdminAuth
  <1>13. CASE COMMIT \/ COMMAND
    BY <1>13, SMTT(30) DEF COMMIT, COMMAND
  <1>14. ASSUME NEW f \in Fields, WriteField(f) PROVE FlagsOK'
    BY <1>14 DEF WriteField
  <1>15. CASE CONNECT
    <2>1. spent' \in BOOLEAN /\ dropped' \in BOOLEAN
      BY <1>15, ToldFlags DEF CONNECT
    <2>2. QED
      BY <1>15, <2>1 DEF CONNECT
  <1>16. CASE DISCONNECT
    <2>1. late' \in BOOLEAN /\ dropped' \in BOOLEAN
      BY <1>16, ToldFlags DEF DISCONNECT
    <2>2. QED
      BY <1>16, <2>1 DEF DISCONNECT, advertise
  <1>17. CASE WIFI_CONFIG \/ setCredentials
    BY <1>17, ZenonT(30) DEF WIFI_CONFIG, setCredentials
  <1>18. CASE UNCHANGED vars
    BY <1>18 DEF vars
  <1>19. QED
    BY <1>1, <1>2, <1>3, <1>4, <1>5, <1>6, <1>7, <1>8, <1>9, <1>10, <1>11, <1>12,
       <1>13, <1>14, <1>15, <1>16, <1>17, <1>18
       DEF Next, Controller, Host, Gatt

-----------------------------------------------------------------------------
(* The PIN: every action but these leaves its counters alone.              *)
LEMMA NextCounted ==
    ASSUME pin_attempts \in 0..MaxPinAttempts, Counted, [Next]_vars
    PROVE  pin_attempts' \in 0..MaxPinAttempts /\ Counted'
  <1> USE Budgets DEF Counted
  <1>1. CASE RightPin
    BY <1>1 DEF RightPin
  <1>2. CASE LockoutOver
    BY <1>2 DEF LockoutOver
  <1>3. CASE WrongPin
    <2>1. pin_locked' <=> pin_attempts' >= MaxPinAttempts
      BY <1>3, Zenon DEF WrongPin, budgetSpent
    <2>2. pin_attempts < MaxPinAttempts /\ pin_attempts' = pin_attempts + 1
          /\ guesses' = pin_attempts'
      BY <1>3 DEF WrongPin
    <2>3. QED
      BY <2>1, <2>2
  <1>4. CASE executeCommand \/ PowerFails
    BY <1>4 DEF executeCommand, PowerFails, booted
  <1>5. CASE CONNECT
    BY <1>5 DEF CONNECT, attemptsKept
  <1>6. CASE DISCONNECT \/ GetToken \/ AdminAuth \/ COMMIT \/ COMMAND \/ Save
    BY <1>6 DEF DISCONNECT, GetToken, AdminAuth, COMMIT, COMMAND, Save, pinVars
  <1>7. ASSUME NEW f \in Fields, WriteField(f)
        PROVE  UNCHANGED pinVars
    BY <1>7 DEF WriteField, pinVars
  <1>8. ASSUME NEW to \in NmStates, Walk(to)
        PROVE  UNCHANGED pinVars
    BY <1>8 DEF Walk, pinVars
  <1>9. CASE startNetwork \/ BleArm \/ BleReleased \/ Controller
    BY <1>9 DEF startNetwork, BleArm, BleReleased, Controller,
       startBleProvisioning, stopBleProvisioning, deinit, pinVars
  <1>10. CASE WIFI_CONFIG \/ setCredentials
    BY <1>10 DEF WIFI_CONFIG, setCredentials, pinVars
  <1>11. CASE UNCHANGED vars
    BY <1>11 DEF vars, pinVars
  <1>12. QED
    BY <1>1, <1>2, <1>3, <1>4, <1>5, <1>6, <1>7, <1>8, <1>9, <1>10, <1>11
       DEF Next, Host, Gatt, pinVars

(* The link: a level is earned on it, and is gone with it.                 *)
LEMMA NextEarned ==
    ASSUME level \in 0..2, token \in {"none", "valid", "void"}, Earned, [Next]_vars
    PROVE  level' \in 0..2 /\ token' \in {"none", "valid", "void"} /\ Earned'
  <1> USE DEF Earned
  <1>1. CASE RightPin
    BY <1>1 DEF RightPin, admVars
  <1>2. CASE GetToken
    BY <1>2 DEF GetToken, linkVars
  <1>3. CASE AdminAuth
    BY <1>3 DEF AdminAuth, tokenUsed
  <1>4. CASE executeCommand \/ PowerFails
    BY <1>4 DEF executeCommand, PowerFails, booted
  <1>5. CASE CONNECT
    <2>1. level' = 0 /\ token' \in {"none", "void"}
      BY <1>5 DEF CONNECT, freshLevel
    <2>2. QED
      BY <2>1
  <1>6. CASE DISCONNECT
    BY <1>6 DEF DISCONNECT, freshLevel, admVars
  <1>7. CASE WrongPin \/ LockoutOver \/ COMMIT \/ COMMAND \/ Save
    BY <1>7 DEF WrongPin, LockoutOver, COMMIT, COMMAND, Save, linkVars, admVars
  <1>8. ASSUME NEW f \in Fields, WriteField(f)
        PROVE  UNCHANGED <<linkVars, admVars>>
    BY <1>8 DEF WriteField
  <1>9. ASSUME NEW to \in NmStates, Walk(to)
        PROVE  UNCHANGED <<linkVars, admVars>>
    BY <1>9 DEF Walk
  <1>10. CASE startNetwork \/ BleArm \/ BleReleased \/ Controller
    BY <1>10 DEF startNetwork, BleArm, BleReleased, Controller,
       startBleProvisioning, stopBleProvisioning, deinit, linkVars, admVars
  <1>11. CASE WIFI_CONFIG \/ setCredentials
    BY <1>11 DEF WIFI_CONFIG, setCredentials, linkVars, admVars
  <1>12. CASE UNCHANGED vars
    BY <1>12 DEF vars, linkVars, admVars
  <1>13. QED
    BY <1>1, <1>2, <1>3, <1>4, <1>5, <1>6, <1>7, <1>8, <1>9, <1>10, <1>11, <1>12
       DEF Next, Host, Gatt, linkVars, admVars

-----------------------------------------------------------------------------
(* The settings.                                                           *)
settingsOK ==
    /\ ram \in [Fields -> Writers] /\ temp_cfg \in [Fields -> Writers]
    /\ nvs \in [Fields -> Writers] /\ promised \in [Fields -> Writers]
    /\ host \in {"idle", "RESTART", "FACTORY_RESET"} \union Fields

(* A staged configuration that was reset has no field.                     *)
LEMMA EmptyOK == Empty \in [Fields -> Writers] /\ \A f \in Fields : Empty[f] = "none"
  BY DEF Empty, Writers

(* A restart reads what NVS has, and promises nothing.                     *)
LEMMA BootedKept ==
    ASSUME NEW s \in [Fields -> Writers], booted(s)
    PROVE  settingsOK' /\ Kept'
  <1>1. temp_cfg' \in [Fields -> Writers]
    BY EmptyOK DEF booted
  <1>2. QED
    BY <1>1, EmptyOK DEF booted, settingsOK, Kept

(* No step drops a field that was acknowledged.                            *)
LEMMA NextKept ==
    ASSUME settingsOK, Kept, [Next]_vars
    PROVE  settingsOK' /\ Kept'
  <1>1. CASE COMMIT
    BY <1>1 DEF COMMIT, settingsOK, Kept, Fields, taskVars
  <1>2. CASE Save
    <2>1. /\ host \in Fields /\ host' = nextField(host)
          /\ UNCHANGED <<ram, temp_cfg>>
      BY <1>2 DEF Save, taskVars
    <2>2. host' \in {"idle"} \union Fields
      BY <2>1 DEF nextField, Fields
    <2>3. CASE promised' = Empty /\ UNCHANGED nvs
      BY <2>1, <2>2, <2>3, EmptyOK DEF settingsOK, Kept
    <2>4. CASE /\ nvs' = IF temp_cfg[host] = "none" THEN nvs
                         ELSE [nvs EXCEPT ![host] = temp_cfg[host]]
               /\ UNCHANGED promised
      <3>1. /\ nvs' \in [Fields -> Writers]
            /\ temp_cfg[host] # "none" => nvs'[host] = temp_cfg[host]
            /\ \A f \in Fields : f # host => nvs'[f] = nvs[f]
        BY <2>1, <2>4 DEF settingsOK
      <3>2. CASE host = "wifi"
        BY <2>1, <2>4, <3>1, <3>2 DEF settingsOK, Kept, nextField, Fields
      <3>3. CASE host = "device_token"
        BY <2>1, <2>4, <3>1, <3>3 DEF settingsOK, Kept, nextField, Fields
      <3>4. QED
        BY <2>1, <3>2, <3>3 DEF Fields
    <2>5. QED
      BY <1>2, <2>3, <2>4 DEF Save
  <1>3. ASSUME NEW f \in Fields, WriteField(f)
        PROVE  settingsOK' /\ Kept'
    <2>1. /\ host = "idle" /\ temp_cfg' = [temp_cfg EXCEPT ![f] = "app"]
          /\ UNCHANGED <<ram, host, nvs, promised>>
      BY <1>3 DEF WriteField, serving, taskVars
    <2>2. QED
      BY <2>1 DEF settingsOK, Kept, Fields, Writers
  <1>4. CASE COMMAND
    <2>1. /\ host = "idle" /\ host' \in {"RESTART", "FACTORY_RESET"}
          /\ UNCHANGED <<ram, temp_cfg, nvs, promised>>
      BY <1>4 DEF COMMAND, serving, taskVars
    <2>2. QED
      BY <2>1 DEF settingsOK, Kept, Fields
  <1>5. CASE executeCommand
    BY <1>5, BootedKept, EmptyOK DEF executeCommand, settingsOK
  <1>6. CASE PowerFails
    BY <1>6, BootedKept, EmptyOK DEF PowerFails, settingsOK
  <1>7. CASE WIFI_CONFIG
    <2>1. /\ nvs' = [nvs EXCEPT !["wifi"] = "s3"] /\ promised' = Empty
          /\ UNCHANGED <<ram, temp_cfg, host>>
      BY <1>7 DEF WIFI_CONFIG, taskVars
    <2>2. QED
      BY <2>1, EmptyOK DEF settingsOK, Kept, Writers
  <1>8. CASE setCredentials
    BY <1>8 DEF setCredentials, savVars, settingsOK, Kept, Writers
  <1>9. CASE UNCHANGED <<ram, savVars>>
    BY <1>9 DEF savVars, settingsOK, Kept
  <1>10. ASSUME NEW to \in NmStates, Walk(to)
         PROVE  UNCHANGED <<ram, savVars>>
    BY <1>10 DEF Walk
  <1>11. ASSUME \/ startNetwork \/ BleArm \/ BleReleased \/ Controller
                \/ RightPin \/ WrongPin \/ LockoutOver \/ GetToken \/ AdminAuth
                \/ CONNECT \/ DISCONNECT \/ UNCHANGED vars
         PROVE  UNCHANGED <<ram, savVars>>
    BY <1>11 DEF startNetwork, BleArm, BleReleased, Controller,
       startBleProvisioning, stopBleProvisioning, deinit, RightPin, WrongPin,
       LockoutOver, GetToken, AdminAuth, CONNECT, DISCONNECT, taskVars, vars
  <1>12. QED
    BY <1>1, <1>2, <1>3, <1>4, <1>5, <1>6, <1>7, <1>8, <1>9, <1>10, <1>11
       DEF Next, Host, Gatt

-----------------------------------------------------------------------------
(* The connection state, on both sides.                                    *)
statesOK ==
    /\ nm \in NmStates \union {"STOPPED"} /\ sm \in NmStates \union {"BLE_CONNECTED"}
    /\ queue \in Seq(Messages) /\ Len(queue) <= QueueRoom
    /\ phone \in {"none", "linked"}

(* What StateManager does with a state it is told.                         *)
LEMMA SetState ==
    ASSUME statesOK, NEW to \in NmStates \union {"BLE_CONNECTED"},
           setConnectionState(to)
    PROVE  /\ sm' = (IF to \in ConnectionNext[sm] THEN to ELSE sm)
           /\ sm' \in NmStates \union {"BLE_CONNECTED"}
           /\ queue' \in Seq(Messages) /\ Len(queue') <= QueueRoom
  <1>1. message(to) \in Messages
    BY DEF message, Messages
  <1>2. CASE to \in ConnectionNext[sm]
    <2>1. /\ sm' = to
          /\ queue' = IF room THEN Append(queue, message(to)) ELSE queue
      BY <1>2 DEF setConnectionState, isValidConnectionTransition
    <2>2. CASE room
      BY <1>1, <1>2, <2>1, <2>2, Budgets DEF room, statesOK
    <2>3. CASE ~room
      BY <1>2, <2>1, <2>3 DEF statesOK
    <2>4. QED
      BY <2>2, <2>3
  <1>3. CASE to \notin ConnectionNext[sm]
    BY <1>3 DEF setConnectionState, isValidConnectionTransition, smVars, statesOK
  <1>4. QED
    BY <1>2, <1>3

(* The steps of the table this takes.                                      *)
LEMMA Table ==
    /\ \A s \in NmStates \union {"BLE_CONNECTED"} :
           "BLE_CONNECTED" \in ConnectionNext[s] => s = "BLE_PROVISIONING"
    /\ "BLE_PROVISIONING" \in ConnectionNext["BLE_CONNECTED"]
    /\ \A s \in {"BLE_PROVISIONING", "BLE_CONNECTED"} :
           /\ "WIFI_CONNECTING" \in ConnectionNext[s]
           /\ \A to \in ConnectionNext[s] :
                  to \in {"BLE_PROVISIONING", "BLE_CONNECTED", "WIFI_CONNECTING"}
  BY DEF ConnectionNext, NmStates

(* Every step of the connection task, of NimBLE and of the controller.     *)
LEMMA NextStates ==
    ASSUME statesOK, BootOK, SmFollows, LateOK, [Next]_vars
    PROVE  statesOK' /\ BootOK' /\ SmFollows' /\ LateOK'
  <1> USE DEF LateOK
  <1>1. ASSUME NEW s, booted(s)
        PROVE  statesOK' /\ BootOK' /\ SmFollows' /\ LateOK'
    BY <1>1, Budgets DEF booted, statesOK, BootOK, SmFollows, NmStates
  <1>2. CASE startNetwork
    BY <1>2 DEF startNetwork, statesOK, BootOK, SmFollows, NmStates, smVars,
       linkVars, past
  <1>3. ASSUME NEW to \in NmStates, Walk(to)
        PROVE  statesOK' /\ BootOK' /\ SmFollows' /\ LateOK'
    <2>1. /\ nm \notin {"STOPPED", "BLE_PROVISIONING"}
          /\ to \in ConnectionNext[nm]
          /\ nm' = to /\ setConnectionState(to)
          /\ late' <=> late /\ to # "WIFI_CONNECTING"
          /\ UNCHANGED <<waiting, phone>>
      BY <1>3 DEF Walk, transition, linkVars
    <2>2. /\ sm' = (IF to \in ConnectionNext[sm] THEN to ELSE sm)
          /\ statesOK'
      BY <2>1, SetState DEF statesOK
    <2>3. BootOK'
      BY <2>1 DEF BootOK, NmStates
    <2>4. SmFollows' /\ LateOK'
      <3>1. CASE sm = nm
        <4>1. ~late
          BY <2>1, <3>1 DEF statesOK, NmStates
        <4>2. QED
          BY <2>1, <2>2, <3>1, <4>1 DEF SmFollows
      <3>2. CASE late /\ sm \in {"BLE_PROVISIONING", "BLE_CONNECTED"}
        BY <2>1, <2>2, <3>2, Table DEF SmFollows
      <3>3. QED
        BY <2>1, <3>1, <3>2 DEF SmFollows
    <2>5. QED
      BY <2>2, <2>3, <2>4
  <1>4. CASE BleArm
    BY <1>4 DEF BleArm, statesOK, BootOK, SmFollows, smVars, linkVars, past
  <1>5. CASE BleReleased
    <2>1. /\ waiting
          /\ waiting' = FALSE /\ nm' = "WIFI_CONNECTING"
          /\ setConnectionState("WIFI_CONNECTING")
          /\ late' = FALSE
          /\ UNCHANGED phone
      BY <1>5 DEF BleReleased, transition, releasedTo, linkVars
    <2>2. /\ sm' = (IF "WIFI_CONNECTING" \in ConnectionNext[sm]
                      THEN "WIFI_CONNECTING" ELSE sm)
          /\ statesOK'
      BY <2>1, SetState DEF statesOK, NmStates
    <2>3. BootOK'
      BY <2>1 DEF BootOK
    <2>4. nm = "BLE_PROVISIONING"
      BY <2>1, Zenon DEF BootOK
    <2>5. SmFollows'
      BY <2>1, <2>2, <2>4, Table DEF SmFollows
    <2>6. QED
      BY <2>1, <2>2, <2>3, <2>5
  <1>6. CASE startBleProvisioning \/ stopBleProvisioning
    <2>1. /\ queue # <<>> /\ queue' = Tail(queue)
          /\ UNCHANGED <<nm, waiting, sm, phone, late>>
      BY <1>6 DEF startBleProvisioning, stopBleProvisioning, taskVars, linkVars, past
    <2>2. nm # "STOPPED"
      BY <2>1 DEF BootOK
    <2>3. QED
      BY <2>1, <2>2 DEF statesOK, BootOK, SmFollows
  <1>7. CASE CONNECT
    <2>1. /\ adv /\ phone' = "linked"
          /\ setConnectionState("BLE_CONNECTED")
          /\ UNCHANGED <<nm, waiting, late>>
      BY <1>7 DEF CONNECT, taskVars, past
    <2>2. nm # "STOPPED"
      BY <2>1, Zenon DEF BootOK
    <2>3. /\ sm' = (IF "BLE_CONNECTED" \in ConnectionNext[sm]
                      THEN "BLE_CONNECTED" ELSE sm)
          /\ statesOK'
      BY <2>1, SetState DEF statesOK
    <2>4. BootOK' /\ SmFollows' /\ LateOK'
      BY <2>1, <2>2, <2>3, Table DEF BootOK, SmFollows, statesOK
    <2>5. QED
      BY <2>3, <2>4
  <1>8. CASE DISCONNECT
    <2>1. /\ phone = "linked" /\ phone' = "none"
          /\ setConnectionState("BLE_PROVISIONING")
          /\ UNCHANGED <<nm, waiting>>
      BY <1>8 DEF DISCONNECT, taskVars
    <2>2. nm # "STOPPED"
      BY <2>1 DEF BootOK
    <2>3. late' <=> late \/ (nm # "BLE_PROVISIONING" /\ sm' = "BLE_PROVISIONING")
      BY <1>8, Zenon DEF DISCONNECT
    <2>4. /\ sm' = (IF "BLE_PROVISIONING" \in ConnectionNext[sm]
                      THEN "BLE_PROVISIONING" ELSE sm)
          /\ statesOK'
      BY <2>1, SetState DEF statesOK, NmStates
    <2>5. BootOK'
      BY <2>1, <2>2 DEF BootOK
    <2>6. SmFollows' /\ LateOK'
      BY <2>1, <2>2, <2>3, <2>4, Table DEF SmFollows
    <2>7. QED
      BY <2>4, <2>5, <2>6
  <1>9. CASE executeCommand \/ PowerFails
    BY <1>1, <1>9 DEF executeCommand, PowerFails
  <1>10. CASE UNCHANGED <<nm, waiting, sm, queue, adv, phone, late>>
    BY <1>10 DEF statesOK, BootOK, SmFollows
  <1>11. ASSUME NEW f \in Fields, WriteField(f)
         PROVE  UNCHANGED <<nm, waiting, sm, queue, adv, phone, late>>
    BY <1>11 DEF WriteField, taskVars, smVars, linkVars, past
  <1>12. ASSUME \/ deinit \/ Save \/ RightPin \/ WrongPin \/ LockoutOver
                \/ GetToken \/ AdminAuth \/ COMMIT \/ COMMAND
                \/ WIFI_CONFIG \/ setCredentials \/ UNCHANGED vars
         PROVE  UNCHANGED <<nm, waiting, sm, queue, adv, phone, late>>
    BY <1>12 DEF deinit, Save, RightPin, WrongPin, LockoutOver, GetToken,
       AdminAuth, COMMIT, COMMAND, WIFI_CONFIG, setCredentials,
       taskVars, smVars, linkVars, past, vars
  <1>13. QED
    BY <1>2, <1>3, <1>4, <1>5, <1>6, <1>7, <1>8, <1>9, <1>10, <1>11, <1>12
       DEF Next, Controller, Host, Gatt

-----------------------------------------------------------------------------
(* What is left of TypeOK.                                                 *)
restOK ==
    /\ ctl \in {"idle", "stopping"} /\ stack \in {"off", "up", "released", "broken"}
    /\ uart \in {"idle", "set"}
    /\ links \in 0..MaxLinks /\ configs \in 0..MaxConfigs /\ faults \in 0..MaxFaults

(* No step leaves the ranges of the queue and the counters.                *)
LEMMA NextRest == restOK /\ [Next]_vars => restOK'
  <1> SUFFICES ASSUME restOK, [Next]_vars PROVE restOK'
    OBVIOUS
  <1> USE Budgets DEF restOK
  <1>1. CASE startBleProvisioning
    BY <1>1 DEF startBleProvisioning, initialise, fault
  <1>2. CASE stopBleProvisioning
    BY <1>2 DEF stopBleProvisioning, bounds
  <1>3. CASE deinit
    BY <1>3 DEF deinit, bounds
  <1>4. CASE CONNECT
    BY <1>4 DEF CONNECT, ctlVars
  <1>5. CASE Save
    BY <1>5 DEF Save, fault, ctlVars
  <1>6. CASE executeCommand
    BY <1>6 DEF executeCommand, booted, bounds
  <1>7. CASE PowerFails
    BY <1>7 DEF PowerFails, booted, fault
  <1>8. CASE WIFI_CONFIG
    BY <1>8 DEF WIFI_CONFIG, ctlVars
  <1>9. CASE setCredentials
    BY <1>9 DEF setCredentials, ctlVars, bounds
  <1>10. ASSUME NEW f \in Fields, WriteField(f)
         PROVE  UNCHANGED <<ctl, stack, uart, links, configs, faults>>
    BY <1>10 DEF WriteField, ctlVars, bounds
  <1>11. ASSUME NEW to \in NmStates, Walk(to)
         PROVE  UNCHANGED <<ctl, stack, uart, links, configs, faults>>
    BY <1>11 DEF Walk, ctlVars, bounds
  <1>12. ASSUME \/ startNetwork \/ BleArm \/ BleReleased \/ RightPin \/ WrongPin
                \/ LockoutOver \/ GetToken \/ AdminAuth \/ COMMIT \/ COMMAND
                \/ DISCONNECT \/ UNCHANGED vars
         PROVE  UNCHANGED <<ctl, stack, uart, links, configs, faults>>
    BY <1>12 DEF startNetwork, BleArm, BleReleased, RightPin, WrongPin,
       LockoutOver, GetToken, AdminAuth, COMMIT, COMMAND, DISCONNECT,
       ctlVars, bounds, vars
  <1>13. QED
    BY <1>1, <1>2, <1>3, <1>4, <1>5, <1>6, <1>7, <1>8, <1>9, <1>10, <1>11, <1>12
       DEF Next, Controller, Host, Gatt

(* TypeOK in the parts the steps above are about.                          *)
LEMMA Parts ==
    RangesOK <=> /\ statesOK /\ settingsOK /\ restOK
                 /\ pin_attempts \in 0..MaxPinAttempts /\ guesses \in Nat
                 /\ level \in 0..2 /\ token \in {"none", "valid", "void"}
  BY DEF RangesOK, statesOK, settingsOK, restOK

(* The ranges, by the lemma that keeps each.                               *)
LEMMA PartsPrimed ==
    RangesOK' <=> /\ statesOK' /\ settingsOK' /\ restOK'
                  /\ pin_attempts' \in 0..MaxPinAttempts /\ guesses' \in Nat
                  /\ level' \in 0..2 /\ token' \in {"none", "valid", "void"}
  BY DEF RangesOK, statesOK, settingsOK, restOK

(* The parts of the invariant together.                                    *)
LEMMA Invariant == Spec => []IInv
  <1>1. IInv /\ [Next]_vars => IInv'
    <2> SUFFICES ASSUME IInv, [Next]_vars PROVE IInv'
      OBVIOUS
    <2>1. FlagsOK'
      BY NextFlagsOK DEF IInv, TypeOK
    <2>2. /\ statesOK /\ settingsOK /\ restOK
          /\ pin_attempts \in 0..MaxPinAttempts
          /\ level \in 0..2 /\ token \in {"none", "valid", "void"}
      BY Parts DEF IInv, TypeOK
    <2>3. pin_attempts' \in 0..MaxPinAttempts /\ Counted'
      BY <2>2, NextCounted DEF IInv
    <2>4. level' \in 0..2 /\ token' \in {"none", "valid", "void"} /\ Earned'
      BY <2>2, NextEarned DEF IInv
    <2>5. settingsOK' /\ Kept'
      BY <2>2, NextKept DEF IInv
    <2>6. statesOK' /\ BootOK' /\ SmFollows' /\ LateOK'
      BY <2>2, NextStates DEF IInv
    <2>7. restOK'
      BY <2>2, NextRest
    <2>8. guesses' \in Nat
      BY <2>3, Budgets DEF Counted
    <2>9. RangesOK'
      BY <2>3, <2>4, <2>5, <2>6, <2>7, <2>8, PartsPrimed
    <2>10. QED
      BY <2>1, <2>3, <2>4, <2>5, <2>6, <2>9 DEF IInv, TypeOK
  <1>2. QED
    BY InitIInv, <1>1, PTL DEF Spec

-----------------------------------------------------------------------------
(* At most MAX_PIN_ATTEMPTS wrong PINs are tried before a lock-out,        *)
(* however many links the guesses are spread over (checkPinGate).          *)
THEOREM PinAlwaysGuarded == Spec => []PinGuarded
  <1>1. IInv => PinGuarded
    BY Budgets DEF IInv, TypeOK, RangesOK, Counted, PinGuarded, PinBudget
  <1>2. QED
    BY <1>1, Invariant, PTL

(* Settings and commands are only taken on a link that gave the PIN, and   *)
(* an admin token once, on the link it was signed for (access_level_, the  *)
(* nonce renewed by verifyAdminToken and by a new link).                   *)
THEOREM LinkAlwaysGuarded == Spec => LinkGuarded
  <1>1. IInv => (COMMIT \/ COMMAND \/ AdminAuth => unlocked)
    BY DEF IInv, TypeOK, RangesOK, Earned, COMMIT, COMMAND, AdminAuth
  <1>2. IInv => (AdminAuth => ~spent)
    BY DEF IInv, Earned, AdminAuth
  <1>3. QED
    BY <1>1, <1>2, Invariant, PTL DEF LinkGuarded, LinkUnlocked, AdminOnce

(* What a COMMIT acknowledged is what the next RESTART boots with, though  *)
(* it is written field by field after the answer (applyConfig, Save).      *)
THEOREM RestartAlwaysKeeps == Spec => RestartKeeps
  <1>1. IInv => (executeCommand /\ host = "RESTART" =>
                    \A f \in Fields : promised[f] # "none" => ram'[f] = promised[f])
    <2> SUFFICES ASSUME IInv, executeCommand, host = "RESTART",
                        NEW f \in Fields, promised[f] # "none"
                 PROVE  ram'[f] = promised[f]
      OBVIOUS
    <2>1. ram' = nvs
      BY DEF executeCommand, booted
    <2>2. QED
      BY <2>1 DEF IInv, Kept, Fields
  <1>2. QED
    BY <1>1, Invariant, PTL DEF RestartKeeps

(* StateManager's connection state is the connection task's, with          *)
(* BLE_CONNECTED for provisioning with a phone.  A phone that left after   *)
(* the task had gone on leaves BLE_PROVISIONING or BLE_CONNECTED there,    *)
(* until the task next joins the network (onConnectionChange, transition). *)
THEOREM SmAlwaysFollows == Spec => []SmFollows
  BY Invariant, PTL DEF IInv
=============================================================================
