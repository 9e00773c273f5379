----------------------------- MODULE Provisioning -----------------------------
(***************************************************************************)
(* Provisioning on the C5: AppController starts and stops BluetoothService *)
(* as the connection state says; the NimBLE host task serves the phone     *)
(* (PIN, settings, COMMIT, commands) and writes the state, too; the UART   *)
(* task writes other settings when the S3 sends WIFI_CONFIG.  Settings     *)
(* live in NVS, one key after the other; a restart keeps nothing else.     *)
(*                                                                         *)
(* The connection task is any walk along the table of connection states,   *)
(* which is what Connection shows of it; in provisioning it waits for its  *)
(* release, in full detail.  A setting is known by who wrote it, the phone *)
(* or the S3; network and password are one.                                *)
(***************************************************************************)
EXTENDS StateTypes, Naturals, Sequences

CONSTANTS
    MaxPinAttempts,   \* MAX_PIN_ATTEMPTS: 5
    QueueRoom,        \* the queue's 16 entries, but for others' messages in it
    MaxLinks,         \* bound: connections of a phone
    MaxConfigs,       \* bound: WIFI_CONFIGs
    MaxFaults         \* bound: power failures, NVS and NimBLE errors

ASSUME ProvisioningBounds ==
    /\ {MaxPinAttempts, QueueRoom} \subseteq Nat \ {0}
    /\ {MaxLinks, MaxConfigs, MaxFaults} \subseteq Nat

VARIABLES
    nm, waiting, awaiting_provision,  \* the connection task, in its wait or
                                      \* not, and the flag it waits for
    ram,                              \* cfg_: the settings it joins with
    sm, queue, ctl,                   \* StateManager; AppController's queue;
                                      \* is it inside deinit?
    ble_active, stack, adv,           \* ble_active_; NimBLE; started_
    phone, level, temp_cfg,           \* the link, access_level_, staged
    pin_attempts, pin_locked,
    token,                            \* the admin token the app holds
    host,                             \* what the host task is in the middle of
    uart,                             \* the same of the UART task
    nvs,
    links, configs, faults,
    guesses,        \* history: wrong PINs since the last lock-out ended
    unlocked,       \* history: this link gave the PIN
    spent,          \* history: the token has been accepted before, or is of
                    \* an earlier link
    promised,       \* history: settings acknowledged and not overwritten
    late,           \* history: a link dropped when the task had gone on, and
                    \* the task has not joined since
    dropped,        \* history: no room for the last BLE_PROVISIONING
    gone            \* history: the task has been released since the boot

taskVars == <<nm, waiting, awaiting_provision, ram>>
smVars   == <<sm, queue>>
ctlVars  == <<ctl, ble_active, stack>>
linkVars == <<phone, level, unlocked>>
pinVars  == <<pin_attempts, pin_locked, guesses>>
admVars  == <<token, spent>>
savVars  == <<temp_cfg, host, nvs, promised>>
past     == <<late, dropped, gone>>
bounds   == <<links, configs, faults>>
vars     == <<taskVars, smVars, ctlVars, adv, linkVars, pinVars, admVars, savVars,
              uart, bounds, past>>

Fields  == {"wifi", "device_token"}
Writers == {"none", "app", "s3"}
Empty   == [f \in Fields |-> "none"]
NmStates == {"OFFLINE", "WIFI_CONNECTING", "WIFI_CONNECTED", "WS_CONNECTING",
             "WS_AUTHENTICATING", "ONLINE", "RECONNECTING", "BLE_PROVISIONING"}

(* All the controller tells apart in what it is told.                      *)
Messages == {"BLE_PROVISIONING", "BLE_CONNECTED", "other"}

FlagsOK ==
    /\ waiting \in BOOLEAN /\ awaiting_provision \in BOOLEAN
    /\ ble_active \in BOOLEAN /\ adv \in BOOLEAN
    /\ pin_locked \in BOOLEAN /\ unlocked \in BOOLEAN /\ spent \in BOOLEAN
    /\ late \in BOOLEAN /\ dropped \in BOOLEAN
    /\ gone \in BOOLEAN

RangesOK ==
    /\ nm \in NmStates \union {"STOPPED"} /\ sm \in NmStates \union {"BLE_CONNECTED"}
    /\ queue \in Seq(Messages) /\ Len(queue) <= QueueRoom
    /\ ctl \in {"idle", "stopping"} /\ stack \in {"off", "up", "released", "broken"}
    /\ phone \in {"none", "linked"} /\ level \in 0..2
    /\ ram \in [Fields -> Writers] /\ temp_cfg \in [Fields -> Writers]
    /\ nvs \in [Fields -> Writers] /\ promised \in [Fields -> Writers]
    /\ pin_attempts \in 0..MaxPinAttempts /\ guesses \in Nat
    /\ token \in {"none", "valid", "void"}
    /\ host \in {"idle", "RESTART", "FACTORY_RESET"} \union Fields
    /\ uart \in {"idle", "set"}
    /\ links \in 0..MaxLinks /\ configs \in 0..MaxConfigs /\ faults \in 0..MaxFaults

TypeOK == FlagsOK /\ RangesOK

-----------------------------------------------------------------------------
(* Boot: user_cfg::load, and the context for provisioning if it is needed. *)
needsProvisioning(s) == \E f \in Fields : s[f] = "none"

booted(s) ==
    /\ nm' = "STOPPED" /\ waiting' = FALSE /\ awaiting_provision' = FALSE
    /\ ram' = s /\ nvs' = s
    /\ temp_cfg' = IF needsProvisioning(s) THEN s ELSE Empty
    /\ sm' = "OFFLINE" /\ queue' = <<>> /\ ctl' = "idle"
    /\ ble_active' = FALSE /\ stack' = "off" /\ adv' = FALSE
    /\ phone' = "none" /\ level' = 0 /\ unlocked' = FALSE
    /\ pin_attempts' = 0 /\ pin_locked' = FALSE /\ guesses' = 0
    /\ token' = "none" /\ spent' = FALSE
    /\ host' = "idle" /\ uart' = "idle" /\ promised' = Empty
    /\ late' = FALSE /\ dropped' = FALSE /\ gone' = FALSE

Init ==
    /\ \E had \in {{}, {"wifi"}, Fields} :
           nvs = [f \in Fields |-> IF f \in had THEN "app" ELSE "none"]
    /\ nm = "STOPPED" /\ waiting = FALSE /\ awaiting_provision = FALSE
    /\ ram = nvs /\ temp_cfg = IF needsProvisioning(nvs) THEN nvs ELSE Empty
    /\ sm = "OFFLINE" /\ queue = <<>> /\ ctl = "idle"
    /\ ble_active = FALSE /\ stack = "off" /\ adv = FALSE
    /\ phone = "none" /\ level = 0 /\ unlocked = FALSE
    /\ pin_attempts = 0 /\ pin_locked = FALSE /\ guesses = 0
    /\ token = "none" /\ spent = FALSE
    /\ host = "idle" /\ uart = "idle" /\ promised = Empty
    /\ late = FALSE /\ dropped = FALSE /\ gone = FALSE
    /\ links = 0 /\ configs = 0 /\ faults = 0

fault == faults < MaxFaults /\ faults' = faults + 1

(* Power fails, anywhere; a user may hold the reset button for 3 s while   *)
(* the C5 boots, and shouldEraseNvs then erases what was stored.           *)
PowerFails ==
    /\ fault
    /\ \E s \in {nvs, Empty} : booted(s)
    /\ UNCHANGED <<links, configs>>

-----------------------------------------------------------------------------
(* StateManager::setConnectionState, and its subscriber in AppController,  *)
(* which does not wait: what a full queue has no room for is lost.         *)
room        == Len(queue) < QueueRoom
message(to) == IF to \in Messages THEN to ELSE "other"

setConnectionState(to) ==
    IF isValidConnectionTransition(sm, to)
      THEN /\ sm' = to
           /\ queue' = IF room THEN Append(queue, message(to)) ELSE queue
           /\ dropped' = IF to = "BLE_PROVISIONING" THEN ~room ELSE dropped
      ELSE UNCHANGED <<smVars, dropped>>

(* The connection task's own: a join is accepted whatever a link wrote.    *)
transition(to) ==
    /\ nm' = to /\ setConnectionState(to)
    /\ late' = (late /\ to # "WIFI_CONNECTING")

-----------------------------------------------------------------------------
(* The connection task; it starts at BOOT_DONE, or 20 s after the C5.      *)
startNetwork ==
    /\ nm = "STOPPED" /\ nm' = "OFFLINE"
    /\ UNCHANGED <<waiting, awaiting_provision, ram, smVars, ctlVars, adv, linkVars,
                   pinVars, admVars, savVars, uart, bounds, past>>

mayGo(to) ==
    CASE nm = "OFFLINE" -> (to = "BLE_PROVISIONING") = needsProvisioning(ram)
      [] to = "ONLINE"  -> ram["device_token"] # "none"
      [] OTHER          -> TRUE

Walk(to) ==
    /\ nm \notin {"STOPPED", "BLE_PROVISIONING"}
    /\ to \in ConnectionNext[nm] \cap NmStates /\ mayGo(to)
    /\ transition(to)
    /\ UNCHANGED <<waiting, awaiting_provision, ram, ctlVars, adv, linkVars, pinVars,
                   admVars, savVars, uart, bounds, gone>>

BleArm ==
    /\ nm = "BLE_PROVISIONING" /\ ~waiting
    /\ waiting' = TRUE /\ awaiting_provision' = TRUE
    /\ UNCHANGED <<nm, ram, smVars, ctlVars, adv, linkVars, pinVars, admVars, savVars,
                   uart, bounds, past>>

(* There are credentials then.  Mutated form: it starts over.              *)
releasedToOffline == "OFFLINE"
releasedTo        == "WIFI_CONNECTING"

BleReleased ==
    /\ waiting /\ ~awaiting_provision
    /\ waiting' = FALSE /\ gone' = TRUE
    /\ transition(releasedTo)
    /\ UNCHANGED <<awaiting_provision, ram, ctlVars, adv, linkVars, pinVars, admVars,
                   savVars, uart, bounds>>

-----------------------------------------------------------------------------
(* AppController::onConnectionStateChanged.                                *)

(* BluetoothService::init.  deinit gives the controller's memory back,     *)
(* after which NimBLE cannot be started again before a restart.            *)
initialise ==
    \/ stack = "off" /\ stack' = "up" /\ UNCHANGED faults
    \/ stack = "off" /\ stack' = "broken" /\ fault
    \/ stack # "off" /\ UNCHANGED <<stack, faults>>

advertise == adv' = TRUE

startBleProvisioning ==
    /\ queue # <<>> /\ ctl = "idle" /\ queue' = Tail(queue)
    /\ Head(queue) = "BLE_PROVISIONING"
    /\ \/ /\ ~ble_active /\ initialise
          /\ IF stack = "off" /\ stack' = "up" THEN advertise /\ ble_active' = TRUE
                                              ELSE UNCHANGED <<adv, ble_active>>
       \/ ble_active /\ UNCHANGED <<stack, adv, ble_active, faults>>
    /\ UNCHANGED <<taskVars, sm, ctl, linkVars, pinVars, admVars, savVars, uart, links,
                   configs, past>>

(* Mutated form: a phone that connects counts as the end of it.            *)
goesOnNever(s) == FALSE
goesOn(s)      == s = "BLE_CONNECTED"

stopBleProvisioning ==
    /\ queue # <<>> /\ ctl = "idle" /\ queue' = Tail(queue)
    /\ Head(queue) # "BLE_PROVISIONING"
    /\ IF ble_active /\ ~goesOn(Head(queue)) THEN ctl' = "stopping" /\ adv' = FALSE
                                             ELSE UNCHANGED <<ctl, adv>>
    /\ UNCHANGED <<taskVars, sm, ble_active, stack, linkVars, pinVars, admVars, savVars,
                   uart, bounds, past>>

(* nimble_port_stop returns when the link is gone and the host task, too.  *)
deinit ==
    /\ ctl = "stopping" /\ phone = "none" /\ host = "idle"
    /\ ctl' = "idle" /\ stack' = "released" /\ ble_active' = FALSE
    /\ UNCHANGED <<taskVars, smVars, adv, linkVars, pinVars, admVars, savVars, uart,
                   bounds, past>>

-----------------------------------------------------------------------------
(* The host task: ble_gap_event.                                           *)

(* Mutated form: a new link keeps the level of the last one.               *)
levelKept  == level
freshLevel == 0

(* Mutated form: a new link starts with a new budget.                      *)
attemptsRenewed == 0
attemptsKept    == pin_attempts

CONNECT ==
    /\ adv /\ phone = "none" /\ host = "idle"
    /\ links < MaxLinks /\ links' = links + 1
    /\ phone' = "linked" /\ adv' = FALSE /\ level' = freshLevel /\ unlocked' = FALSE
    /\ pin_attempts' = attemptsKept
    /\ token' = (IF token = "none" THEN token ELSE "void") /\ spent' = (token # "none")
    /\ setConnectionState("BLE_CONNECTED")
    /\ UNCHANGED <<taskVars, ctlVars, pin_locked, guesses, savVars, uart, configs, faults,
                   late, gone>>

DISCONNECT ==
    /\ phone = "linked" /\ host = "idle"
    /\ phone' = "none" /\ level' = freshLevel /\ unlocked' = FALSE
    /\ IF ctl = "idle" THEN advertise ELSE UNCHANGED adv
    /\ setConnectionState("BLE_PROVISIONING")
    /\ late' = (late \/ (nm # "BLE_PROVISIONING" /\ sm' = "BLE_PROVISIONING"))
    /\ UNCHANGED <<taskVars, ctlVars, pinVars, admVars, savVars, uart, bounds, gone>>

-----------------------------------------------------------------------------
(* gatt_chr_access: nothing is served without a link, and one thing only   *)
(* at a time.                                                              *)
serving == phone = "linked" /\ host = "idle"

(* checkPinGate.                                                           *)
budgetSpent(n) == n >= MaxPinAttempts

RightPin ==
    /\ serving /\ ~pin_locked
    /\ level' = 1 /\ unlocked' = TRUE /\ pin_attempts' = 0 /\ guesses' = 0
    /\ UNCHANGED <<taskVars, smVars, ctlVars, adv, phone, pin_locked, admVars, savVars,
                   uart, bounds, past>>

WrongPin ==
    /\ serving /\ ~pin_locked
    /\ pin_attempts' = pin_attempts + 1 /\ guesses' = guesses + 1
    /\ pin_locked' = budgetSpent(pin_attempts')
    /\ UNCHANGED <<taskVars, smVars, ctlVars, adv, linkVars, admVars, savVars, uart,
                   bounds, past>>

(* 30 s later.                                                             *)
LockoutOver ==
    /\ pin_locked /\ pin_locked' = FALSE /\ pin_attempts' = 0 /\ guesses' = 0
    /\ UNCHANGED <<taskVars, smVars, ctlVars, adv, linkVars, admVars, savVars, uart,
                   bounds, past>>

(* The app reads the nonce and has the server sign it.                     *)
GetToken ==
    /\ serving /\ level >= 1 /\ token' = "valid" /\ spent' = FALSE
    /\ UNCHANGED <<taskVars, smVars, ctlVars, adv, linkVars, pinVars, savVars, uart,
                   bounds, past>>

(* verifyAdminToken; an accepted one makes the next nonce.                 *)
tokenUsed == "void"

AdminAuth ==
    /\ serving /\ level >= 1 /\ token = "valid"
    /\ level' = 2 /\ token' = tokenUsed /\ spent' = TRUE
    /\ UNCHANGED <<taskVars, smVars, ctlVars, adv, phone, unlocked, pinVars, savVars, uart,
                   bounds, past>>

WriteField(f) ==
    /\ serving /\ level >= 1 /\ temp_cfg' = [temp_cfg EXCEPT ![f] = "app"]
    /\ UNCHANGED <<taskVars, smVars, ctlVars, adv, linkVars, pinVars, admVars, host, nvs,
                   promised, uart, bounds, past>>

(* COMMIT is acknowledged, then written field by field; no write's result  *)
(* is looked at.                                                           *)
COMMIT ==
    /\ serving /\ level >= 1 /\ temp_cfg["wifi"] # "none"
    /\ promised' = temp_cfg /\ host' = "wifi"
    /\ UNCHANGED <<taskVars, smVars, ctlVars, adv, linkVars, pinVars, admVars, temp_cfg,
                   nvs, uart, bounds, past>>

(* Mutated form: the token is not among the settings.                      *)
nextFieldShort(f) == "idle"
nextField(f)      == IF f = "wifi" THEN "device_token" ELSE "idle"

Save ==
    /\ host \in Fields /\ host' = nextField(host)
    /\ \/ /\ nvs' = IF temp_cfg[host] = "none" THEN nvs
                    ELSE [nvs EXCEPT ![host] = temp_cfg[host]]
          /\ UNCHANGED <<promised, faults>>
       \/ temp_cfg[host] # "none" /\ fault /\ promised' = Empty /\ UNCHANGED nvs
    /\ UNCHANGED <<taskVars, smVars, ctlVars, adv, linkVars, pinVars, admVars, temp_cfg,
                   uart, links, configs, past>>

(* A command is acknowledged, and executed half a second later.            *)
COMMAND ==
    /\ serving
    /\ \/ level >= 1 /\ host' = "RESTART"
       \/ level >= 2 /\ host' = "FACTORY_RESET"
    /\ UNCHANGED <<taskVars, smVars, ctlVars, adv, linkVars, pinVars, admVars, temp_cfg,
                   nvs, promised, uart, bounds, past>>

(* factoryReset erases all of it, fullWipe more; both restart.             *)
executeCommand ==
    /\ \/ host = "RESTART" /\ booted(nvs)
       \/ host = "FACTORY_RESET" /\ booted(Empty)
    /\ UNCHANGED bounds

-----------------------------------------------------------------------------
(* The UART task: WIFI_CONFIG is written, then used.                       *)
WIFI_CONFIG ==
    /\ uart = "idle" /\ nm # "STOPPED" /\ configs < MaxConfigs /\ configs' = configs + 1
    /\ nvs' = [nvs EXCEPT !["wifi"] = "s3"] /\ promised' = Empty /\ uart' = "set"
    /\ UNCHANGED <<taskVars, smVars, ctlVars, adv, linkVars, pinVars, admVars, temp_cfg,
                   host, links, faults, past>>

setCredentials ==
    /\ uart = "set" /\ uart' = "idle"
    /\ ram' = [ram EXCEPT !["wifi"] = "s3"]
    /\ awaiting_provision' = FALSE
    /\ UNCHANGED <<nm, waiting, smVars, ctlVars, adv, linkVars, pinVars, admVars, savVars,
                   bounds, past>>

-----------------------------------------------------------------------------
Controller == startBleProvisioning \/ stopBleProvisioning \/ deinit
Host       == Save \/ executeCommand
Gatt       == \/ RightPin \/ WrongPin \/ GetToken \/ AdminAuth \/ COMMIT \/ COMMAND
              \/ \E f \in Fields : WriteField(f)

Next ==
    \/ startNetwork \/ BleArm \/ BleReleased \/ \E to \in NmStates : Walk(to)
    \/ Controller \/ Host \/ Gatt \/ LockoutOver \/ CONNECT \/ DISCONNECT
    \/ WIFI_CONFIG \/ setCredentials \/ PowerFails

(* Tasks go on; NimBLE ends the link of a phone when it is stopped.        *)
Fairness ==
    /\ WF_vars(Controller) /\ WF_vars(Host) /\ WF_vars(setCredentials)
    /\ WF_vars(ctl = "stopping" /\ DISCONNECT)

Spec     == Init /\ [][Next]_vars
FairSpec == Spec /\ Fairness

-----------------------------------------------------------------------------
(* BluetoothService.hpp: wrong PINs count over all links, so at most       *)
(* MAX_PIN_ATTEMPTS are tried before each lock-out.                        *)
PinBudget == guesses <= MaxPinAttempts

(* What changes settings or restarts the device is asked for on a link     *)
(* that gave the PIN, not by the next phone.                               *)
LinkUnlocked == [][COMMIT \/ COMMAND \/ AdminAuth => unlocked]_vars

(* An admin token is accepted once, and on the link it was signed for.     *)
AdminOnce == [][AdminAuth => ~spent]_vars

(* Nobody gets at the settings without the PIN: at most MAX_PIN_ATTEMPTS   *)
(* guesses, whatever links they come over, and no command without it.      *)
PinGuarded  == TypeOK /\ PinBudget
LinkGuarded == LinkUnlocked /\ AdminOnce

(* A RESTART boots with the settings of the COMMIT before it, all of them, *)
(* unless a write failed or WIFI_CONFIG wrote since.                       *)
RestartKeeps ==
    [][executeCommand /\ host = "RESTART" =>
          \A f \in Fields : promised[f] # "none" => ram'[f] = promised[f]]_vars

(* The state the others see is the task's, with BLE_CONNECTED for          *)
(* provisioning with a phone.  A phone that left, or was cut off, when the *)
(* task had been released makes the others see provisioning instead, until *)
(* the task next joins the network and no longer.                          *)
SmFollows ==
    \/ nm = "STOPPED" \/ sm = nm
    \/ nm = "BLE_PROVISIONING" /\ sm = "BLE_CONNECTED"
    \/ late /\ sm \in {"BLE_PROVISIONING", "BLE_CONNECTED"}

(* A device in provisioning can be reached: it advertises or has a phone,  *)
(* unless NimBLE did not start, cannot start again after deinit, or the    *)
(* message that starts it was lost.  No other lost message, and no order   *)
(* of starting, stopping and links, leaves it in provisioning unseen.      *)
reachable == adv \/ phone = "linked" \/ nm # "BLE_PROVISIONING" \/ stack = "broken"

Serves ==
    (nm = "BLE_PROVISIONING")
        ~> (reachable \/ dropped \/ (gone /\ stack = "released"))

(* As the documentation has it (docs/modules/state-machine.md): a WiFi     *)
(* that fails leads to provisioning, whatever happened before.             *)
ServesAgain == (nm = "BLE_PROVISIONING") ~> (reachable \/ dropped)
=============================================================================
