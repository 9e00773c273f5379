-------------------------------- MODULE Ota --------------------------------
(***************************************************************************)
(* The firmware update of the C5: OtaManager's download task, the push     *)
(* that starts it from the websocket task, the two application slots with  *)
(* the bootloader's rollback, and the phase the C5 relays to the server    *)
(* and to the S3's screen.                                                 *)
(*                                                                         *)
(* The websocket task outranks the download task on the one core, so a     *)
(* push can cut in between any two of its statements.  That matters where  *)
(* it fails: state_ already says FAILED, which lets the next push in, while *)
(* StateManager and its subscribers have not been told.                    *)
(***************************************************************************)
EXTENDS StateTypes, Naturals, FiniteSets

CONSTANTS
    MaxPushes,     \* bound: ota_available messages taken since power was on
    MaxResets      \* bound: power cuts, crashes and restarts

ASSUME PushesAssumption == MaxPushes \in Nat
ASSUME ResetsAssumption == MaxResets \in Nat

VARIABLES
    \* OtaManager: its state, the push between announcing DOWNLOADING and
    \* creating the task, and where each download task stands
    state_, pushing, task, pushes,
    \* StateManager::ota_state_, the last OTA_STATUS relayed, the S3's panel
    ota_state, told, panel,
    \* flash: what each slot holds, the bootloader's verdict on it, the slot
    \* it boots next, the slot that runs, the image the last push announced
    image, verdict, boot, running, announced,
    online,        \* is there an authenticated session?
    raced,         \* did a push arrive while an older task was still ending?
    stuck,         \* was the download task never created?
    resets

otaVars   == <<state_, pushing, task, pushes>>
relayVars == <<ota_state, told, panel>>
flashVars == <<image, verdict, boot, running, announced>>
vars == <<otaVars, relayVars, flashVars, online, raced, stuck, resets>>

Slots == {"ota_0", "ota_1"}
Other(s) == IF s = "ota_0" THEN "ota_1" ELSE "ota_0"

(* What a server may announce.  good: reaches the cloud.  crashing: panics. *)
(* mute: runs, and never gets online.                                      *)
Builds   == {"good", "crashing", "mute"}

(* wrong: bootable bytes nobody announced.  erased: partly written.        *)
Images   == Builds \cup {"wrong", "erased"}
Verdicts == {"undefined", "new", "pending", "valid", "aborted"}
Points   == {"none", "begin", "download", "verify", "flash", "reboot",
             "failed", "telling"}
Panels   == {"none", "updating", "rebooting", "error"}
Tasks    == 1..MaxPushes

FlagsOK ==
    /\ pushing \in BOOLEAN /\ raced \in BOOLEAN /\ stuck \in BOOLEAN
    /\ online \in BOOLEAN

RangesOK ==
    /\ state_ \in OtaStates /\ ota_state \in OtaStates /\ told \in OtaStates
    /\ task \in [Tasks -> Points] /\ pushes \in 0..MaxPushes
    /\ panel \in Panels
    /\ image \in [Slots -> Images] /\ verdict \in [Slots -> Verdicts]
    /\ boot \in Slots /\ running \in Slots
    /\ announced \in Builds
    /\ resets \in 0..MaxResets

TypeOK == FlagsOK /\ RangesOK

(* The factory flashes one slot over the cable; the other one is empty.    *)
Init ==
    /\ state_ = "IDLE" /\ ota_state = "IDLE" /\ told = "IDLE"
    /\ panel = "none"
    /\ pushing = FALSE /\ raced = FALSE /\ stuck = FALSE /\ online = FALSE
    /\ task = [t \in Tasks |-> "none"] /\ pushes = 0
    /\ image = [s \in Slots |-> IF s = "ota_0" THEN "good" ELSE "erased"]
    /\ verdict = [s \in Slots |-> IF s = "ota_0" THEN "valid" ELSE "undefined"]
    /\ boot = "ota_0" /\ running = "ota_0" /\ announced = "good"
    /\ resets = 0

-----------------------------------------------------------------------------
(* The relay: subscribeOta's callback and onProgress send OTA_STATUS to    *)
(* the S3, in order, and ota_progress to the server.                       *)

(* DisplayManager::handleOtaStatus: a panel per phase; the phases between  *)
(* download and reboot only change its text.                               *)
handleOtaStatus(phase) ==
    CASE phase = "DOWNLOADING" -> "updating"
      [] phase = "REBOOTING"   -> "rebooting"
      [] phase = "FAILED"      -> "error"
      [] OTHER                 -> panel

Relay(phase) ==
    /\ told' = phase
    /\ panel' = handleOtaStatus(phase)

(* StateManager::setOtaState: same value or refused, nobody is told.       *)
Accepted(phase) ==
    phase # ota_state /\ isValidOtaTransition(ota_state, phase)

setOtaState(phase) ==
    IF Accepted(phase)
      THEN ota_state' = phase /\ Relay(phase)
      ELSE UNCHANGED relayVars

-----------------------------------------------------------------------------
(* startDownload, on the websocket task.                                   *)

(* Mutated form: only a push after success is kept out.                    *)
mayStartAlways == state_ # "REBOOTING"

mayStart == state_ \in {"IDLE", "CHECKING", "FAILED"}

(* A push for this chip with all its fields: the request is stored and     *)
(* DOWNLOADING announced first.                                            *)
startDownload ==
    /\ online /\ ~pushing
    /\ pushes < MaxPushes
    /\ mayStart
    /\ announced' \in Builds
    /\ setOtaState("DOWNLOADING")
    /\ pushing' = TRUE
    /\ raced' = (raced \/ \E t \in Tasks : task[t] # "none")
    /\ UNCHANGED <<state_, task, pushes, image, verdict, boot, running,
                   online, stuck, resets>>

(* ... then the task is created; the result of xTaskCreate is not read.    *)
createTask ==
    /\ pushing
    /\ pushing' = FALSE
    /\ state_' = "DOWNLOADING"
    /\ pushes' = pushes + 1
    /\ \/ task' = [task EXCEPT ![pushes + 1] = "begin"] /\ UNCHANGED stuck
       \/ stuck' = TRUE /\ UNCHANGED task
    /\ UNCHANGED <<relayVars, flashVars, online, raced, resets>>

-----------------------------------------------------------------------------
(* downloadTask.                                                           *)

update_part == Other(running)

(* Every early return: the handle is gone, then state_ changes alone.      *)
Fail(t) ==
    /\ state_' = "FAILED"
    /\ task' = [task EXCEPT ![t] = "failed"]
    /\ UNCHANGED <<pushing, pushes, relayVars, verdict, boot, running,
                   announced, online, raced, stuck, resets>>

(* The next phase: state_, then StateManager and its subscribers.          *)
Advance(t, phase, point) ==
    /\ state_' = phase
    /\ setOtaState(phase)
    /\ task' = [task EXCEPT ![t] = point]
    /\ UNCHANGED <<pushing, pushes, running, announced, online, raced, stuck,
                   resets>>

(* Mutated form: a refused esp_ota_begin just ends the task.               *)
BeginReturns(t) ==
    /\ task[t] = "begin"
    /\ \/ task' = [task EXCEPT ![t] = "none"] /\ UNCHANGED image
       \/ /\ verdict[running] # "pending"
          /\ image' = [image EXCEPT ![update_part] = "erased"]
          /\ task' = [task EXCEPT ![t] = "download"]
    /\ UNCHANGED <<state_, pushing, pushes, relayVars, verdict, boot,
                   running, announced, online, raced, stuck, resets>>

(* esp_ota_begin refuses while the running image awaits its verdict, and   *)
(* may fail; otherwise the other slot is erased.                           *)
Begin(t) ==
    /\ task[t] = "begin"
    /\ \/ Fail(t) /\ UNCHANGED image
       \/ /\ verdict[running] # "pending"
          /\ image' = [image EXCEPT ![update_part] = "erased"]
          /\ task' = [task EXCEPT ![t] = "download"]
          /\ UNCHANGED <<state_, pushing, pushes, relayVars, verdict, boot,
                         running, announced, online, raced, stuck, resets>>

(* A chunk was written and its percentage is worth a report.               *)
Progress(t) ==
    /\ task[t] = "download"
    /\ Relay("DOWNLOADING")
    /\ UNCHANGED <<otaVars, ota_state, flashVars, online, raced, stuck,
                   resets>>

(* HTTP or flash fails: esp_ota_abort.                                     *)
DownloadFails(t) ==
    /\ task[t] = "download"
    /\ Fail(t)
    /\ UNCHANGED image

(* All bytes are in flash; they may not be the ones that were announced.   *)
Downloaded(t) ==
    /\ task[t] = "download"
    /\ Advance(t, "VERIFYING", "verify")
    /\ \E bytes \in {announced, "wrong"} :
           image' = [image EXCEPT ![update_part] = bytes]
    /\ UNCHANGED <<verdict, boot>>

(* Mutated form: the digest is not compared.                               *)
hashMatchesAnything == TRUE

hashMatches == image[update_part] = announced

Verified(t) ==
    /\ task[t] = "verify"
    /\ \/ /\ hashMatches
          /\ Advance(t, "FLASHING", "flash")
          /\ UNCHANGED <<image, verdict, boot>>
       \/ ~hashMatches /\ Fail(t) /\ UNCHANGED image

(* esp_ota_end and esp_ota_set_boot_partition, either of which may fail.   *)
Flashed(t) ==
    /\ task[t] = "flash"
    /\ \/ /\ boot' = update_part
          /\ verdict' = [verdict EXCEPT ![update_part] = "new"]
          /\ Advance(t, "REBOOTING", "reboot")
          /\ UNCHANGED image
       \/ Fail(t) /\ UNCHANGED image

(* The tail of a failure: StateManager's copy, then its subscribers.       *)
FailState(t) ==
    /\ task[t] = "failed"
    /\ IF Accepted("FAILED")
         THEN ota_state' = "FAILED" /\ task' = [task EXCEPT ![t] = "telling"]
         ELSE UNCHANGED ota_state /\ task' = [task EXCEPT ![t] = "none"]
    /\ UNCHANGED <<state_, pushing, pushes, told, panel, flashVars, online,
                   raced, stuck, resets>>

FailTold(t) ==
    /\ task[t] = "telling"
    /\ Relay("FAILED")
    /\ task' = [task EXCEPT ![t] = "none"]
    /\ UNCHANGED <<state_, pushing, pushes, ota_state, flashVars, online,
                   raced, stuck, resets>>

DownloadTask(t) ==
    \/ Begin(t) \/ Progress(t) \/ DownloadFails(t) \/ Downloaded(t)
    \/ Verified(t) \/ Flashed(t) \/ FailState(t) \/ FailTold(t)

-----------------------------------------------------------------------------
(* Restarts.  Everything but flash and the S3 starts over.                 *)

Volatile ==
    /\ state_' = "IDLE" /\ ota_state' = "IDLE"
    /\ pushing' = FALSE /\ online' = FALSE /\ raced' = FALSE
    /\ stuck' = FALSE
    /\ task' = [t \in Tasks |-> "none"]

(* The bootloader: a new image gets one boot to prove itself; one that did *)
(* not is aborted for good and the other slot boots.                       *)
Bootloader(chosen, verdicts) ==
    CASE verdicts[chosen] = "new" ->
             /\ verdict' = [verdicts EXCEPT ![chosen] = "pending"]
             /\ boot' = chosen /\ running' = chosen
      [] verdicts[chosen] = "pending" ->
             /\ verdict' = [verdicts EXCEPT ![chosen] = "aborted"]
             /\ boot' = Other(chosen) /\ running' = Other(chosen)
      [] OTHER ->
             /\ verdict' = verdicts
             /\ boot' = chosen /\ running' = chosen

(* A power cut or a crash, at any moment.                                  *)
Reset ==
    /\ resets < MaxResets
    /\ resets' = resets + 1
    /\ Volatile
    /\ Bootloader(boot, verdict)
    /\ UNCHANGED <<pushes, told, panel, image, announced>>

(* esp_restart, three seconds after REBOOTING.                             *)
Reboot ==
    /\ \E t \in Tasks : task[t] = "reboot"
    /\ Volatile
    /\ Bootloader(boot, verdict)
    /\ UNCHANGED <<pushes, told, panel, image, announced, resets>>

(* A panic restarts the chip; nothing restarts an image that runs and only *)
(* fails to get online: the firmware has no timer for its trial.           *)
Panic ==
    /\ image[running] = "crashing"
    /\ Volatile
    /\ Bootloader(boot, verdict)
    /\ UNCHANGED <<pushes, told, panel, image, announced, resets>>

(* BLE ROLLBACK_FW: back to the slot the bootloader has aborted, if there  *)
(* is one; the system call refuses an image that is not whole.             *)
rollbackFirmware ==
    /\ resets < MaxResets
    /\ resets' = resets + 1
    /\ \E prev \in Slots :
           /\ verdict[prev] = "aborted"
           /\ IF image[prev] = "erased"
                THEN Bootloader(boot, verdict)
                ELSE Bootloader(prev, [verdict EXCEPT ![prev] = "new"])
    /\ Volatile
    /\ UNCHANGED <<pushes, told, panel, image, announced>>

-----------------------------------------------------------------------------
(* The session.                                                            *)

(* Mutated form: a fresh image is confirmed as soon as it boots.           *)
confirmHealthAtBoot ==
    /\ ~online
    /\ online' = (image[running] = "good")
    /\ \/ verdict' = [verdict EXCEPT ![running] = "valid"]
       \/ UNCHANGED verdict
    /\ UNCHANGED <<otaVars, relayVars, image, boot, running, announced,
                   raced, stuck, resets>>

(* auth_result ok: a pending image has proved itself (the write may fail). *)
confirmHealth ==
    /\ ~online /\ image[running] = "good"
    /\ online' = TRUE
    /\ \/ /\ verdict[running] = "pending"
          /\ verdict' = [verdict EXCEPT ![running] = "valid"]
       \/ UNCHANGED verdict
    /\ UNCHANGED <<otaVars, relayVars, image, boot, running, announced,
                   raced, stuck, resets>>

SessionLost ==
    /\ online /\ ~pushing
    /\ online' = FALSE
    /\ UNCHANGED <<otaVars, relayVars, flashVars, raced, stuck, resets>>

Next ==
    \/ startDownload \/ createTask
    \/ \E t \in Tasks : DownloadTask(t)
    \/ Reset \/ Reboot \/ Panic \/ rollbackFirmware
    \/ confirmHealth \/ SessionLost

(* Every task gets the processor, and HTTP and flash either go on or fail; *)
(* an image that crashes does so in the end.  Reset is nobody's duty.      *)
Fairness ==
    /\ WF_vars(createTask)
    /\ \A t \in Tasks :
           WF_vars(\/ Begin(t) \/ DownloadFails(t) \/ Downloaded(t)
                   \/ Verified(t) \/ Flashed(t) \/ FailState(t) \/ FailTold(t))
    /\ WF_vars(Reboot)
    /\ WF_vars(Panic)

Spec     == Init /\ [][Next]_vars
FairSpec == Spec /\ Fairness

-----------------------------------------------------------------------------
Busy   == {t \in Tasks : task[t] \in {"begin", "download", "verify", "flash",
                                      "reboot"}}
Ending == {t \in Tasks : task[t] \in {"failed", "telling"}}

(* One update at a time: a second writer would interleave its bytes with   *)
(* the first one's in the same slot.                                       *)
OneWriter ==
    /\ Cardinality(Busy) <= 1
    /\ Busy # {} => ~pushing

(* "A bad OTA reverts with no cable" (sdkconfig.defaults): whatever runs   *)
(* or boots next, a working image stays in flash, and one that has not     *)
(* proved itself is on trial with that one to go back to.                  *)
WayBack ==
    /\ \E s \in Slots : image[s] = "good" /\ verdict[s] \in {"valid", "pending"}
    /\ \A s \in {boot, running} :
           image[s] # "good" => /\ image[s] # "erased"
                                /\ verdict[s] \in {"new", "pending"}
                                /\ image[Other(s)] = "good"
                                /\ verdict[Other(s)] = "valid"

(* Bytes the server did not announce never run, except those a failed      *)
(* update has left in an aborted slot, which ROLLBACK_FW boots unverified. *)
AnnouncedRuns ==
    [][(running' # running /\ image[running'] = "wrong")
       => verdict[running'] = "aborted"]_vars

(* The phase the screen and the cloud show is the phase the update is in,  *)
(* once a failing task has finished saying so; only a push that overtakes  *)
(* the end of a failed update can leave them behind.                       *)
PhaseIsTold ==
    ~raced /\ Ending = {} /\ ~pushing /\ state_ # "IDLE"
        => /\ ota_state = state_ /\ told = state_
           /\ state_ = "FAILED" => panel = "error"
           /\ state_ \in {"DOWNLOADING", "VERIFYING", "FLASHING"}
                  => panel = "updating"

(* An update comes to an end: it fails, or the device restarts.  The one   *)
(* way to hang is a task that was never created.                           *)
UpdateEnds == state_ \in {"DOWNLOADING", "VERIFYING", "FLASHING", "REBOOTING"}
                  ~> (state_ \in {"IDLE", "FAILED"} \/ stuck)

(* Whatever runs without working, the next reset brings a working image.   *)
OneResetSuffices ==
    [][Reset /\ image[running] # "good" => image[running'] = "good"]_vars

(* "Self-reverts unless the app confirms health" (sdkconfig.defaults): an  *)
(* image that crashes takes itself away; any other that does not work goes *)
(* with the next reset, and without one it stays.                          *)
BadImageGoes ==
    /\ image[running] = "crashing" ~> image[running] = "good"
    /\ OneResetSuffices

(* The flash is safe: one writer, and always an image to go back to.       *)
FlashSafe == TypeOK /\ OneWriter /\ WayBack
=============================================================================
