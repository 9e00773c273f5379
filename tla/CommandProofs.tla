---------------------------- MODULE CommandProofs ---------------------------
(***************************************************************************)
(* Proofs about what the server makes the C5 do: an update and a motion.   *)
(*                                                                         *)
(* Ota: why an update is safe, for any number of pushes, failures and      *)
(* restarts: one task writes the other slot, and the slot that is written, *)
(* tried or given up always leaves a working one to go back to.            *)
(*                                                                         *)
(* Motion, in the last part: how long a STOP waits, for any queue          *)
(* depth, any cap on walks of at least two steps and any number of         *)
(* commands.                                                               *)
(***************************************************************************)
EXTENDS Ota, Motion, Sequences, FiniteSetTheorems, TLAPS

(* Points at which a task owns the update, and the phase of each.          *)
Owning == {"begin", "download", "verify", "flash", "reboot"}
PhaseOf(point) ==
    CASE point = "verify" -> "VERIFYING"
      [] point = "flash"  -> "FLASHING"
      [] point = "reboot" -> "REBOOTING"
      [] OTHER            -> "DOWNLOADING"

(* state_ says who owns the update.  It is what keeps a push out.          *)
OwnerOK ==
    /\ state_ \in {"IDLE", "DOWNLOADING", "VERIFYING", "FLASHING",
                   "REBOOTING", "FAILED"}
    /\ pushing => state_ \in {"IDLE", "FAILED"} /\ pushes < MaxPushes
    /\ \A t \in Tasks : t > pushes => task[t] = "none"
    /\ \A t \in Tasks : task[t] \in Owning => state_ = PhaseOf(task[t])
    /\ \A s, t \in Tasks : task[s] \in Owning /\ task[t] \in Owning => s = t

(* The running slot is proved, or on trial with a proved one behind it.    *)
RunningOK ==
    \/ verdict[running] = "valid" /\ image[running] = "good"
    \/ /\ verdict[running] = "pending" /\ image[running] # "erased"
       /\ boot = running
       /\ image[Other(running)] = "good" /\ verdict[Other(running)] = "valid"

(* A task writes only from a proved slot, and the other is booted only     *)
(* after its digest was compared.                                          *)
WriterOK ==
    /\ \A t \in Tasks :
           /\ task[t] \in {"download", "verify", "flash", "reboot"}
                  => verdict[running] = "valid"
           /\ task[t] = "flash" => image[Other(running)] \in Builds
    /\ boot # running =>
           /\ verdict[boot] = "new" /\ image[boot] \in Builds
           /\ \E t \in Tasks : task[t] = "reboot"

FlashInv == TypeOK /\ OwnerOK /\ RunningOK /\ WriterOK

(* Unless a push overtook the end of a failed update, there is one task at *)
(* most, and the relayed phase is its own or about to be.                  *)
Relayed(phase) == ota_state = phase /\ told = phase

ToldOK ==
    ~raced =>
        /\ \A s, t \in Tasks : task[s] # "none" /\ task[t] # "none" => s = t
        /\ pushing => /\ Relayed("DOWNLOADING") /\ panel = "updating"
                      /\ \A t \in Tasks : task[t] = "none"
        /\ ~pushing =>
             /\ state_ = "IDLE" => /\ ota_state = "IDLE"
                                   /\ \A t \in Tasks : task[t] = "none"
             /\ state_ \in {"DOWNLOADING", "VERIFYING", "FLASHING"} =>
                  /\ Relayed(state_) /\ panel = "updating"
             /\ state_ = "REBOOTING" => Relayed(state_)
             /\ state_ # "FAILED" =>
                  \A t \in Tasks : task[t] \notin {"failed", "telling"}
             /\ state_ = "FAILED" =>
                  /\ \A t \in Tasks :
                       /\ task[t] = "failed" =>
                            ota_state \in {"DOWNLOADING", "VERIFYING", "FLASHING"}
                       /\ task[t] = "telling" => ota_state = "FAILED"
                  /\ (\A t \in Tasks : task[t] = "none")
                       => Relayed("FAILED") /\ panel = "error"

IInv == FlashInv /\ ToldOK

-----------------------------------------------------------------------------
USE PushesAssumption, ResetsAssumption

(* Of two slots, the other one is not this one.                            *)
LEMMA OtherSlot ==
    \A s \in Slots : /\ Other(s) \in Slots /\ Other(s) # s
                     /\ \A r \in Slots : r # s => r = Other(s)
  BY DEF Slots, Other

(* At boot no task runs and the factory image is valid.                    *)
LEMMA InitIInv == Init => IInv
  <1> SUFFICES ASSUME Init PROVE IInv
    OBVIOUS
  <1> USE DEF Init
  <1>1. FlagsOK
    BY Zenon DEF FlagsOK
  <1>2. RangesOK
    BY DEF RangesOK, OtaStates, Points, Panels, Images, Builds, Verdicts, Slots
  <1>3. OwnerOK
    BY DEF OwnerOK, Owning
  <1>4. RunningOK /\ WriterOK
    BY DEF RunningOK, WriterOK, Slots
  <1>5. ToldOK
    BY DEF ToldOK
  <1>6. QED
    BY <1>1, <1>2, <1>3, <1>4, <1>5 DEF IInv, FlashInv, TypeOK

(* The flags stay flags.                                                   *)
LEMMA NextFlagsOK == FlagsOK /\ [Next]_vars => FlagsOK'
  <1> SUFFICES ASSUME FlagsOK, [Next]_vars PROVE FlagsOK'
    OBVIOUS
  <1> USE Zenon DEF FlagsOK, otaVars
  <1>1. CASE startDownload
    <2>1. raced' \in BOOLEAN
      BY <1>1 DEF startDownload
    <2>2. QED
      BY <1>1, <2>1 DEF startDownload
  <1>2. CASE createTask
    BY <1>2 DEF createTask
  <1>3. ASSUME NEW t \in Tasks, DownloadTask(t) PROVE FlagsOK'
    BY <1>3 DEF DownloadTask, Begin, Progress, DownloadFails, Downloaded,
                Verified, Flashed, FailState, FailTold, Fail, Advance
  <1>4. CASE Reset \/ Reboot \/ Panic \/ rollbackFirmware
    BY <1>4 DEF Reset, Reboot, Panic, rollbackFirmware, Volatile
  <1>5. CASE confirmHealth \/ SessionLost
    BY <1>5 DEF confirmHealth, SessionLost
  <1>6. CASE UNCHANGED vars
    BY <1>6 DEF vars
  <1>7. QED
    BY <1>1, <1>2, <1>3, <1>4, <1>5, <1>6 DEF Next

(* A push announces DOWNLOADING; nobody owns the update yet.               *)
LEMMA StartStep ==
    ASSUME IInv, FlagsOK', startDownload
    PROVE  IInv'
  <1> USE DEF IInv, FlashInv, TypeOK, startDownload, mayStart
  <1>1. RangesOK'
    <2>1. /\ ota_state' \in OtaStates /\ told' \in OtaStates
          /\ panel' \in Panels
      BY DEF RangesOK, setOtaState, relayVars, Relay, handleOtaStatus,
             OtaStates, Panels
    <2>2. QED
      BY <2>1 DEF RangesOK
  <1>2. \A t \in Tasks : task[t] \notin Owning
    BY DEF OwnerOK, PhaseOf
  <1>3. OwnerOK'
    BY <1>2 DEF OwnerOK, PhaseOf
  <1>4. RunningOK' /\ WriterOK'
    BY <1>2 DEF RunningOK, WriterOK, Owning
  <1>5. ToldOK'
    <2>1. SUFFICES ASSUME ~raced' PROVE ToldOK'
      BY DEF ToldOK
    <2>2. ~raced /\ \A t \in Tasks : task[t] = "none"
      BY <2>1, Zenon
    <2>3. ota_state \in {"IDLE", "FAILED"}
      BY <2>2 DEF ToldOK, OwnerOK, Relayed
    <2>4. (Relayed("DOWNLOADING") /\ panel = "updating")'
      BY <2>3 DEF setOtaState, Accepted, isValidOtaTransition, OtaNext,
                  Relayed, Relay, handleOtaStatus
    <2>5. QED
      BY <2>2, <2>4 DEF ToldOK
  <1>6. QED
    BY <1>1, <1>3, <1>4, <1>5

(* A new task owns the update, which nobody owned.                         *)
LEMMA CreateStep ==
    ASSUME IInv, FlagsOK', createTask
    PROVE  IInv'
  <1>0. pushes < MaxPushes
    BY Zenon DEF IInv, FlashInv, OwnerOK, createTask
  <1>1. /\ pushes + 1 \in Tasks
        /\ \A t \in Tasks : \/ task'[t] = task[t]
                            \/ t = pushes + 1 /\ task'[t] = "begin"
    <2>1. pushes + 1 \in Tasks /\ task \in [Tasks -> Points]
      BY <1>0 DEF IInv, FlashInv, TypeOK, RangesOK, Tasks
    <2>2. \/ task' = [task EXCEPT ![pushes + 1] = "begin"]
          \/ task' = task
      BY Zenon DEF createTask
    <2>3. QED
      BY <2>1, <2>2
  <1> USE DEF IInv, FlashInv, TypeOK, createTask, relayVars, flashVars
  <1>2. RangesOK'
    <2>1. task' \in [Tasks -> Points] /\ pushes' \in 0..MaxPushes
      BY <1>1 DEF RangesOK, OwnerOK, Points, Tasks
    <2>2. QED
      BY <2>1 DEF RangesOK, OtaStates
  <1>3. \A t \in Tasks : task[t] \notin Owning
    BY DEF OwnerOK, PhaseOf
  <1>4. OwnerOK'
    <2>1. \A t \in Tasks : t > pushes' => task'[t] = "none"
      BY <1>1 DEF OwnerOK, RangesOK, Tasks
    <2>2. QED
      BY <1>1, <1>3, <2>1 DEF OwnerOK, Owning, PhaseOf
  <1>5. RunningOK' /\ WriterOK'
    BY <1>1, <1>3 DEF RunningOK, WriterOK, Owning
  <1>6. ToldOK'
    BY <1>1 DEF ToldOK, Relayed
  <1>7. QED
    BY <1>2, <1>4, <1>5, <1>6

-----------------------------------------------------------------------------
(* The download task.                                                      *)

(* The task that owns the update is the only one; nobody is being let in.  *)
LEMMA Owner ==
    ASSUME IInv, NEW t \in Tasks, task[t] \in Owning
    PROVE  /\ ~pushing /\ t <= pushes
           /\ state_ = PhaseOf(task[t])
           /\ \A s \in Tasks : s # t => task[s] \notin Owning
           /\ ~raced => \A s \in Tasks : s # t => task[s] = "none"
           /\ ~raced => ota_state = state_ /\ told = state_
           /\ ~raced /\ task[t] # "reboot" => panel = "updating"
  <1>1. /\ state_ = PhaseOf(task[t])
        /\ \A s \in Tasks : s # t => task[s] \notin Owning
    BY DEF IInv, FlashInv, OwnerOK
  <1>2. state_ \notin {"IDLE", "FAILED"}
    BY <1>1 DEF PhaseOf
  <1>3. ~pushing
    BY <1>2, Zenon DEF IInv, FlashInv, OwnerOK
  <1>4. t <= pushes
    BY DEF IInv, FlashInv, TypeOK, RangesOK, OwnerOK, Owning, Tasks
  <1>5. ~raced => \A s \in Tasks : s # t => task[s] = "none"
    BY DEF IInv, ToldOK, Owning
  <1>6. ~raced => Relayed(state_)
    BY <1>1, <1>3 DEF IInv, ToldOK, PhaseOf, Owning
  <1>7. ~raced /\ task[t] # "reboot" => panel = "updating"
    BY <1>1, <1>3 DEF IInv, ToldOK, PhaseOf, Owning
  <1>8. QED
    BY <1>1, <1>3, <1>4, <1>5, <1>6, <1>7 DEF Relayed

(* A task that fails gives the update up before it is gone.                *)
LEMMA FailStep ==
    ASSUME IInv, FlagsOK', NEW t \in Tasks,
           task[t] \in {"begin", "download", "verify", "flash"},
           Fail(t), image' = image
    PROVE  IInv'
  <1>1. /\ ~pushing /\ t <= pushes
        /\ \A s \in Tasks : s # t => task[s] \notin Owning
        /\ ~raced => \A s \in Tasks : s # t => task[s] = "none"
        /\ ~raced => ota_state \in {"DOWNLOADING", "VERIFYING", "FLASHING"}
    BY Owner DEF Owning, PhaseOf
  <1>2. RangesOK'
    BY DEF IInv, FlashInv, TypeOK, RangesOK, Fail, relayVars, OtaStates, Points
  <1>3. /\ task'[t] = "failed"
        /\ \A s \in Tasks : s # t => task'[s] = task[s]
    BY DEF IInv, FlashInv, TypeOK, RangesOK, Fail
  <1>4. OwnerOK'
    BY <1>1, <1>3 DEF IInv, FlashInv, TypeOK, RangesOK, OwnerOK, Owning, Fail, Tasks
  <1>5. RunningOK' /\ WriterOK'
    BY <1>1, <1>3 DEF IInv, FlashInv, RunningOK, WriterOK, Owning, Fail
  <1>6. ToldOK'
    BY <1>1, <1>3 DEF Fail, ToldOK, relayVars
  <1>7. QED
    BY <1>2, <1>4, <1>5, <1>6 DEF IInv, FlashInv, TypeOK

(* What the phases share.                                                  *)
LEMMA AdvanceStep ==
    ASSUME IInv, NEW t \in Tasks, NEW phase, NEW point, Advance(t, phase, point),
           \/ task[t] = "download" /\ phase = "VERIFYING" /\ point = "verify"
           \/ task[t] = "verify" /\ phase = "FLASHING" /\ point = "flash"
           \/ task[t] = "flash" /\ phase = "REBOOTING" /\ point = "reboot"
    PROVE  /\ OwnerOK' /\ ToldOK'
           /\ task' \in [Tasks -> Points] /\ task'[t] = point
           /\ \A s \in Tasks : s # t => task'[s] = task[s]
           /\ state_' \in OtaStates /\ ota_state' \in OtaStates
           /\ told' \in OtaStates /\ panel' \in Panels
  <1>1. /\ ~pushing /\ t <= pushes
        /\ \A s \in Tasks : s # t => task[s] \notin Owning
        /\ ~raced => \A s \in Tasks : s # t => task[s] = "none"
        /\ ~raced => ota_state = PhaseOf(task[t]) /\ panel = "updating"
    BY Owner DEF Owning
  <1>2. /\ task' \in [Tasks -> Points] /\ task'[t] = point
        /\ \A s \in Tasks : s # t => task'[s] = task[s]
    BY DEF IInv, FlashInv, TypeOK, RangesOK, Advance, Points
  <1>3. /\ state_' \in OtaStates /\ ota_state' \in OtaStates
        /\ told' \in OtaStates /\ panel' \in Panels
    BY DEF IInv, FlashInv, TypeOK, RangesOK, Advance, setOtaState, relayVars,
           Relay, handleOtaStatus, OtaStates, Panels
  <1>4. OwnerOK'
    BY <1>1, <1>2 DEF IInv, FlashInv, TypeOK, RangesOK, OwnerOK, Owning,
                      PhaseOf, Advance, Tasks
  <1>5. ~raced => ota_state' = phase /\ told' = phase
                  /\ (phase # "REBOOTING" => panel' = "updating")
    BY <1>1 DEF Advance, setOtaState, Accepted, isValidOtaTransition, OtaNext,
                Relay, handleOtaStatus, PhaseOf
  <1>6. ToldOK'
    BY <1>1, <1>2, <1>5 DEF Advance, ToldOK, Relayed
  <1>7. QED
    BY <1>2, <1>3, <1>4, <1>6

(* The slot a task writes is not the one that runs.                        *)
LEMMA Writes ==
    ASSUME IInv
    PROVE  /\ update_part \in Slots /\ update_part # running
           /\ image[update_part] \in Images
           /\ \A v : /\ [image EXCEPT ![update_part] = v][running]
                           = image[running]
                     /\ [image EXCEPT ![update_part] = v][update_part] = v
                     /\ v \in Images => [image EXCEPT ![update_part] = v]
                                            \in [Slots -> Images]
  BY OtherSlot DEF IInv, FlashInv, TypeOK, RangesOK, update_part

(* esp_ota_begin erases the other slot, or is refused.                     *)
LEMMA BeginStep ==
    ASSUME IInv, FlagsOK', NEW t \in Tasks, Begin(t)
    PROVE  IInv'
  <1>1. CASE Fail(t) /\ image' = image
    BY <1>1, FailStep DEF Begin
  <1>2. CASE ~(Fail(t) /\ image' = image)
    <2>1. /\ task[t] = "begin"
          /\ verdict[running] # "pending"
          /\ image' = [image EXCEPT ![update_part] = "erased"]
          /\ task' = [task EXCEPT ![t] = "download"]
          /\ UNCHANGED <<state_, pushing, pushes, relayVars, verdict, boot,
                         running, announced, online, raced, stuck, resets>>
      BY <1>2 DEF Begin
    <2>2. /\ ~pushing /\ t <= pushes /\ state_ = "DOWNLOADING"
          /\ \A s \in Tasks : s # t => task[s] \notin Owning
      BY <2>1, Owner DEF Owning, PhaseOf
    <2>3. /\ task' \in [Tasks -> Points] /\ task'[t] = "download"
          /\ \A s \in Tasks : s # t => task'[s] = task[s]
      BY <2>1 DEF IInv, FlashInv, TypeOK, RangesOK, Points
    <2>4. image' \in [Slots -> Images] /\ image'[running] = image[running]
      BY <2>1, Writes DEF Images
    <2>5. RangesOK'
      BY <2>1, <2>3, <2>4 DEF IInv, FlashInv, TypeOK, RangesOK, relayVars
    <2>6. OwnerOK'
      BY <2>1, <2>2, <2>3
         DEF IInv, FlashInv, TypeOK, RangesOK, OwnerOK, Owning, PhaseOf, Tasks
    <2>7. verdict[running] = "valid" /\ image[running] = "good"
      BY <2>1 DEF IInv, FlashInv, RunningOK
    <2>8. boot = running
      BY <2>1, <2>2 DEF IInv, FlashInv, WriterOK, Owning
    <2>9. RunningOK' /\ WriterOK'
      BY <2>1, <2>2, <2>3, <2>4, <2>7, <2>8 DEF RunningOK, WriterOK, Owning
    <2>10. ToldOK'
      BY <2>1, <2>2, <2>3 DEF IInv, ToldOK, Relayed, relayVars
    <2>11. QED
      BY <2>5, <2>6, <2>9, <2>10 DEF IInv, FlashInv, TypeOK
  <1>3. QED
    BY <1>1, <1>2

(* A chunk is written by the task that owns the slot.                      *)
LEMMA ProgressStep ==
    ASSUME IInv, FlagsOK', NEW t \in Tasks, Progress(t)
    PROVE  IInv'
  <1>1. ~pushing /\ state_ = "DOWNLOADING"
    BY Owner DEF Progress, Owning, PhaseOf
  <1>2. /\ told' = "DOWNLOADING" /\ panel' = "updating"
        /\ UNCHANGED <<otaVars, ota_state, flashVars, online, raced, stuck,
                       resets>>
    BY DEF Progress, Relay, handleOtaStatus
  <1>3. RangesOK'
    BY <1>2 DEF IInv, FlashInv, TypeOK, RangesOK, otaVars, flashVars,
                OtaStates, Panels
  <1>4. OwnerOK' /\ RunningOK' /\ WriterOK'
    BY <1>2 DEF IInv, FlashInv, OwnerOK, RunningOK, WriterOK, otaVars, flashVars
  <1>5. ToldOK'
    BY <1>1, <1>2 DEF IInv, ToldOK, Relayed, otaVars
  <1>6. QED
    BY <1>3, <1>4, <1>5 DEF IInv, FlashInv, TypeOK

(* The download ends in a whole image to verify.                           *)
LEMMA DownloadedStep ==
    ASSUME IInv, FlagsOK', NEW t \in Tasks, Downloaded(t)
    PROVE  IInv'
  <1>1. /\ task[t] = "download" /\ Advance(t, "VERIFYING", "verify")
        /\ UNCHANGED <<verdict, boot>>
        /\ UNCHANGED <<pushes, running, announced, resets>>
    BY DEF Downloaded, Advance
  <1>2. PICK bytes \in {announced, "wrong"} :
            image' = [image EXCEPT ![update_part] = bytes]
    BY DEF Downloaded
  <1>3. /\ OwnerOK' /\ ToldOK' /\ task'[t] = "verify"
        /\ \A s \in Tasks : s # t => task'[s] = task[s]
        /\ RangesOK'
    <2>1. image' \in [Slots -> Images]
      BY <1>2, Writes DEF IInv, FlashInv, TypeOK, RangesOK, Images
    <2>2. QED
      BY <1>1, <2>1, AdvanceStep DEF IInv, FlashInv, TypeOK, RangesOK
  <1>4. image'[running] = image[running]
    BY <1>2, Writes
  <1>5. \A s \in Tasks : s # t => task[s] \notin Owning
    BY <1>1, Owner DEF Owning
  <1>6. verdict[running] = "valid" /\ boot = running
    BY <1>1, <1>5 DEF IInv, FlashInv, WriterOK, Owning
  <1>7. RunningOK' /\ WriterOK'
    BY <1>1, <1>3, <1>4, <1>5, <1>6
       DEF IInv, FlashInv, RunningOK, WriterOK, Owning
  <1>8. QED
    BY <1>3, <1>7 DEF IInv, FlashInv, TypeOK

(* Only an image with the announced digest goes on to be flashed.          *)
LEMMA VerifiedStep ==
    ASSUME IInv, FlagsOK', NEW t \in Tasks, Verified(t)
    PROVE  IInv'
  <1>1. CASE Fail(t) /\ image' = image
    BY <1>1, FailStep DEF Verified
  <1>2. CASE ~(Fail(t) /\ image' = image)
    <2>1. /\ task[t] = "verify" /\ hashMatches
          /\ Advance(t, "FLASHING", "flash")
          /\ UNCHANGED <<image, verdict, boot>>
          /\ UNCHANGED <<pushes, running, announced, resets>>
      BY <1>2 DEF Verified, Advance
    <2>2. /\ OwnerOK' /\ ToldOK' /\ task'[t] = "flash"
          /\ \A s \in Tasks : s # t => task'[s] = task[s]
          /\ RangesOK'
      BY <2>1, AdvanceStep DEF IInv, FlashInv, TypeOK, RangesOK
    <2>3. \A s \in Tasks : s # t => task[s] \notin Owning
      BY <2>1, Owner DEF Owning
    <2>4. image[Other(running)] \in Builds
      BY <2>1 DEF hashMatches, update_part, IInv, FlashInv, TypeOK, RangesOK
    <2>5. verdict[running] = "valid" /\ boot = running
      BY <2>1, <2>3 DEF IInv, FlashInv, WriterOK, Owning
    <2>6. RunningOK' /\ WriterOK'
      BY <2>1, <2>2, <2>3, <2>4, <2>5
         DEF IInv, FlashInv, RunningOK, WriterOK, Owning
    <2>7. QED
      BY <2>2, <2>6 DEF IInv, FlashInv, TypeOK
  <1>3. QED
    BY <1>1, <1>2

(* The slot that is booted next was announced, and the one that runs stays *)
(* proved behind it.                                                       *)
LEMMA FlashedStep ==
    ASSUME IInv, FlagsOK', NEW t \in Tasks, Flashed(t)
    PROVE  IInv'
  <1>1. CASE Fail(t) /\ image' = image
    BY <1>1, FailStep DEF Flashed
  <1>2. CASE ~(Fail(t) /\ image' = image)
    <2>1. /\ task[t] = "flash" /\ boot' = update_part
          /\ verdict' = [verdict EXCEPT ![update_part] = "new"]
          /\ Advance(t, "REBOOTING", "reboot")
          /\ UNCHANGED image
          /\ UNCHANGED <<pushes, running, announced, resets>>
      BY <1>2 DEF Flashed, Advance
    <2>2. /\ verdict' \in [Slots -> Verdicts] /\ boot' \in Slots
          /\ verdict'[running] = verdict[running]
          /\ verdict'[boot'] = "new" /\ boot' # running
      BY <2>1, Writes DEF IInv, FlashInv, TypeOK, RangesOK, Verdicts
    <2>3. /\ OwnerOK' /\ ToldOK' /\ task'[t] = "reboot"
          /\ \A s \in Tasks : s # t => task'[s] = task[s]
          /\ RangesOK'
      BY <2>1, <2>2, AdvanceStep DEF IInv, FlashInv, TypeOK, RangesOK
    <2>4. \A s \in Tasks : s # t => task[s] \notin Owning
      BY <2>1, Owner DEF Owning
    <2>5. /\ verdict[running] = "valid"
          /\ image[boot'] \in Builds
      BY <2>1 DEF IInv, FlashInv, WriterOK, update_part
    <2>6. RunningOK' /\ WriterOK'
      BY <2>1, <2>2, <2>3, <2>4, <2>5
         DEF IInv, FlashInv, RunningOK, WriterOK, Owning
    <2>7. QED
      BY <2>3, <2>6 DEF IInv, FlashInv, TypeOK
  <1>3. QED
    BY <1>1, <1>2

(* The end of a failed task touches no flash.                              *)
LEMMA EndingStep ==
    ASSUME IInv, FlagsOK', NEW t \in Tasks, FailState(t) \/ FailTold(t)
    PROVE  IInv'
  <1>1. /\ task[t] \in {"failed", "telling"} /\ task'[t] \in {"telling", "none"}
        /\ \A s \in Tasks : s # t => task'[s] = task[s]
        /\ task' \in [Tasks -> Points]
        /\ UNCHANGED <<state_, pushing, pushes, flashVars, online, raced, stuck,
                       resets>>
    BY DEF IInv, FlashInv, TypeOK, RangesOK, FailState, FailTold, Points
  <1>2. RangesOK'
    <2>1. /\ ota_state' \in OtaStates /\ told' \in OtaStates
          /\ panel' \in Panels
      BY DEF IInv, FlashInv, TypeOK, RangesOK, FailState, FailTold, Relay,
             handleOtaStatus, OtaStates, Panels
    <2>2. QED
      BY <1>1, <2>1 DEF IInv, FlashInv, TypeOK, RangesOK, flashVars
  <1>3. OwnerOK' /\ RunningOK' /\ WriterOK'
    BY <1>1 DEF IInv, FlashInv, OwnerOK, RunningOK, WriterOK, Owning, PhaseOf,
                flashVars
  <1>4. ToldOK'
    <2>1. CASE raced
      BY <1>1, <2>1 DEF ToldOK
    <2>2. CASE ~raced
      <3>1. /\ ~pushing /\ state_ = "FAILED"
            /\ \A s \in Tasks : s # t => task[s] = "none"
        BY <1>1, <2>2 DEF IInv, ToldOK
      <3>2. CASE FailState(t)
        <4>1. ota_state \in {"DOWNLOADING", "VERIFYING", "FLASHING"}
          BY <2>2, <3>1, <3>2 DEF IInv, ToldOK, FailState
        <4>2. ota_state' = "FAILED" /\ task'[t] = "telling"
          BY <3>2, <4>1 DEF FailState, Accepted, isValidOtaTransition, OtaNext,
                            IInv, FlashInv, TypeOK, RangesOK
        <4>3. QED
          BY <1>1, <3>1, <4>2 DEF ToldOK
      <3>3. CASE FailTold(t)
        <4>1. /\ ota_state' = "FAILED" /\ told' = "FAILED" /\ panel' = "error"
              /\ task'[t] = "none"
          BY <2>2, <3>1, <3>3 DEF IInv, ToldOK, FailTold, Relay,
                 handleOtaStatus, FlashInv, TypeOK, RangesOK
        <4>2. QED
          BY <1>1, <3>1, <4>1 DEF ToldOK, Relayed
      <3>4. QED
        BY <3>2, <3>3
    <2>3. QED
      BY <2>1, <2>2
  <1>5. QED
    BY <1>2, <1>3, <1>4 DEF IInv, FlashInv, TypeOK

(* Every step of a download task.                                          *)
LEMMA DownloadTaskStep ==
    ASSUME IInv, FlagsOK', NEW t \in Tasks, DownloadTask(t)
    PROVE  IInv'
  <1>1. CASE DownloadFails(t)
    BY <1>1, FailStep DEF DownloadFails
  <1>2. QED
    BY <1>1, BeginStep, ProgressStep, DownloadedStep, VerifiedStep, FlashedStep,
       EndingStep DEF DownloadTask

-----------------------------------------------------------------------------
(* Restarts.                                                               *)

(* The bootloader finds a slot that is proved or on trial with a proved    *)
(* one behind it, whatever it was told to boot; and what it starts is what *)
(* ran before, a proved slot, or the slot that was set.                    *)
LEMMA BootloaderStep ==
    ASSUME IInv, NEW chosen \in Slots, NEW verdicts \in [Slots -> Verdicts],
           Bootloader(chosen, verdicts), image' = image,
           \/ chosen = boot /\ verdicts = verdict
           \/ /\ chosen # running /\ verdict[chosen] = "aborted"
              /\ image[chosen] # "erased"
              /\ verdicts = [verdict EXCEPT ![chosen] = "new"]
    PROVE  /\ RunningOK' /\ boot' = running'
           /\ boot' \in Slots /\ verdict' \in [Slots -> Verdicts]
           /\ running' # running /\ image[running'] = "wrong"
                  => verdict[running'] = "aborted"
  <1> USE OtherSlot
  <1>1. /\ verdict \in [Slots -> Verdicts] /\ image \in [Slots -> Images]
        /\ boot \in Slots /\ running \in Slots
        /\ RunningOK /\ WriterOK
    BY DEF IInv, FlashInv, TypeOK, RangesOK
  <1>2. boot' \in Slots /\ verdict' \in [Slots -> Verdicts] /\ boot' = running'
    BY <1>1 DEF Bootloader, Verdicts
  <1>3. CASE chosen = boot /\ verdicts = verdict /\ boot = running
    BY <1>1, <1>2, <1>3 DEF Bootloader, RunningOK
  <1>4. CASE chosen # running
    <2>1. verdict[running] = "valid" /\ image[running] = "good"
      <3>1. CASE boot # running
        BY <1>1, <3>1 DEF RunningOK
      <3>2. CASE boot = running
        BY <1>1, <1>4, <3>2 DEF RunningOK
      <3>3. QED
        BY <3>1, <3>2
    <2>2. /\ verdicts[chosen] = "new" /\ image[chosen] # "erased"
          /\ image[chosen] = "wrong" => verdict[chosen] = "aborted"
          /\ verdicts[running] = "valid"
      BY <1>1, <1>4, <2>1 DEF WriterOK, Builds
    <2>3. /\ running' = chosen /\ verdict' = [verdicts EXCEPT ![chosen] = "pending"]
      BY <2>2 DEF Bootloader
    <2>4. running = Other(chosen)
      BY <1>1, <1>4
    <2>5. RunningOK'
      BY <1>1, <1>2, <1>4, <2>1, <2>2, <2>3, <2>4 DEF RunningOK
    <2>6. QED
      BY <1>2, <2>2, <2>3, <2>5
  <1>5. QED
    BY <1>1, <1>3, <1>4

(* What a restart forgets, and what the bootloader finds.                  *)
LEMMA RestartStep ==
    ASSUME IInv, FlagsOK', Volatile, RunningOK', boot' = running',
           boot' \in Slots, verdict' \in [Slots -> Verdicts],
           resets' \in 0..MaxResets,
           UNCHANGED <<pushes, told, panel, image, announced>>
    PROVE  IInv'
  <1>1. /\ state_' = "IDLE" /\ ota_state' = "IDLE" /\ pushing' = FALSE
        /\ \A t \in Tasks : task'[t] = "none"
        /\ task' \in [Tasks -> Points]
    BY DEF Volatile, Points
  <1>2. RangesOK'
    BY <1>1 DEF IInv, FlashInv, TypeOK, RangesOK, OtaStates
  <1>3. OwnerOK' /\ WriterOK'
    BY <1>1 DEF OwnerOK, WriterOK, Owning
  <1>4. ToldOK'
    BY <1>1 DEF ToldOK
  <1>5. QED
    BY <1>2, <1>3, <1>4 DEF IInv, FlashInv, TypeOK

(* Whatever the bootloader starts after a restart has one to go back to.   *)
LEMMA ResetStep ==
    ASSUME IInv, FlagsOK', Reset \/ Reboot \/ Panic
    PROVE  IInv'
  <1>1. /\ Volatile /\ Bootloader(boot, verdict)
        /\ UNCHANGED <<pushes, told, panel, image, announced>>
    BY DEF Reset, Reboot, Panic
  <1>2. resets' \in 0..MaxResets
    BY DEF Reset, Reboot, Panic, IInv, FlashInv, TypeOK, RangesOK
  <1>3. boot \in Slots /\ verdict \in [Slots -> Verdicts]
    BY DEF IInv, FlashInv, TypeOK, RangesOK
  <1>4. QED
    BY <1>1, <1>2, <1>3, BootloaderStep, RestartStep

(* ROLLBACK_FW as the bootloader sees it.                                  *)
LEMMA RollbackBoots ==
    ASSUME IInv, rollbackFirmware
    PROVE  \E chosen \in Slots, verdicts \in [Slots -> Verdicts] :
               /\ Bootloader(chosen, verdicts)
               /\ \/ chosen = boot /\ verdicts = verdict
                  \/ /\ chosen # running /\ verdict[chosen] = "aborted"
                     /\ image[chosen] # "erased"
                     /\ verdicts = [verdict EXCEPT ![chosen] = "new"]
  <1>1. boot \in Slots /\ verdict \in [Slots -> Verdicts]
    BY DEF IInv, FlashInv, TypeOK, RangesOK
  <1>2. PICK prev \in Slots :
          /\ verdict[prev] = "aborted"
          /\ IF image[prev] = "erased"
               THEN Bootloader(boot, verdict)
               ELSE Bootloader(prev, [verdict EXCEPT ![prev] = "new"])
    BY DEF rollbackFirmware
  <1>3. CASE image[prev] = "erased"
    BY <1>1, <1>2, <1>3
  <1>4. CASE image[prev] # "erased"
    <2>1. prev # running
      BY <1>2 DEF IInv, FlashInv, RunningOK
    <2>2. [verdict EXCEPT ![prev] = "new"] \in [Slots -> Verdicts]
      BY <1>1 DEF Verdicts
    <2>3. QED
      BY <1>2, <1>4, <2>1, <2>2
  <1>5. QED
    BY <1>3, <1>4

(* What ROLLBACK_FW boots is on trial over the slot it left.               *)
LEMMA RollbackStep ==
    ASSUME IInv, FlagsOK', rollbackFirmware
    PROVE  IInv'
  <1>1. /\ Volatile
        /\ UNCHANGED <<pushes, told, panel, image, announced>>
        /\ resets' \in 0..MaxResets
    BY DEF rollbackFirmware, IInv, FlashInv, TypeOK, RangesOK
  <1>2. QED
    BY <1>1, RollbackBoots, BootloaderStep, RestartStep

-----------------------------------------------------------------------------
(* The session.                                                            *)

(* Confirming health needs an image that works.                            *)
LEMMA SessionStep ==
    ASSUME IInv, FlagsOK', confirmHealth \/ SessionLost
    PROVE  IInv'
  <1>1. /\ UNCHANGED <<otaVars, relayVars, image, boot, running, announced,
                       raced, stuck, resets>>
        /\ \/ UNCHANGED verdict
           \/ /\ image[running] = "good"
              /\ verdict' = [verdict EXCEPT ![running] = "valid"]
    BY DEF confirmHealth, SessionLost, flashVars
  <1>2. RangesOK'
    BY <1>1 DEF IInv, FlashInv, TypeOK, RangesOK, otaVars, relayVars, Verdicts
  <1>3. OwnerOK'
    BY <1>1 DEF IInv, FlashInv, OwnerOK, otaVars
  <1>4. ToldOK'
    BY <1>1 DEF IInv, ToldOK, Relayed, otaVars, relayVars
  <1>5. RunningOK' /\ WriterOK'
    <2>1. CASE UNCHANGED verdict
      BY <1>1, <2>1 DEF IInv, FlashInv, RunningOK, WriterOK, otaVars
    <2>2. CASE /\ image[running] = "good"
               /\ verdict' = [verdict EXCEPT ![running] = "valid"]
      <3>1. /\ verdict'[running] = "valid"
            /\ \A s \in Slots : s # running => verdict'[s] = verdict[s]
        BY <2>2 DEF IInv, FlashInv, TypeOK, RangesOK
      <3>2. QED
        BY <1>1, <2>2, <3>1
           DEF IInv, FlashInv, TypeOK, RangesOK, RunningOK, WriterOK, otaVars
    <2>3. QED
      BY <1>1, <2>1, <2>2
  <1>6. QED
    BY <1>2, <1>3, <1>4, <1>5 DEF IInv, FlashInv, TypeOK

(* Every step keeps the invariant.                                         *)
LEMMA NextIInv == IInv /\ [Next]_vars => IInv'
  <1> SUFFICES ASSUME IInv, [Next]_vars PROVE IInv'
    OBVIOUS
  <1>1. FlagsOK'
    BY NextFlagsOK DEF IInv, FlashInv, TypeOK
  <1>2. CASE startDownload
    BY <1>1, <1>2, StartStep
  <1>3. CASE createTask
    BY <1>1, <1>3, CreateStep
  <1>4. ASSUME NEW t \in Tasks, DownloadTask(t) PROVE IInv'
    BY <1>1, <1>4, DownloadTaskStep
  <1>5. CASE Reset \/ Reboot \/ Panic
    BY <1>1, <1>5, ResetStep
  <1>6. CASE rollbackFirmware
    BY <1>1, <1>6, RollbackStep
  <1>7. CASE confirmHealth \/ SessionLost
    BY <1>1, <1>7, SessionStep
  <1>8. CASE UNCHANGED vars
    BY <1>8 DEF vars, otaVars, relayVars, flashVars, IInv, FlashInv, TypeOK,
                FlagsOK, RangesOK, OwnerOK, RunningOK, WriterOK, ToldOK, Relayed
  <1>9. QED
    BY <1>2, <1>3, <1>4, <1>5, <1>6, <1>7, <1>8 DEF Next

(* So it always holds.                                                     *)
LEMMA Invariant == Spec => []IInv
  BY InitIInv, NextIInv, PTL DEF Spec

-----------------------------------------------------------------------------
(* One task writes, and no push is let in beside it.                       *)
LEMMA IInvOneWriter == IInv => OneWriter
  <1> SUFFICES ASSUME IInv PROVE OneWriter
    OBVIOUS
  <1>1. \A s, t \in Busy : s = t
    BY DEF IInv, FlashInv, OwnerOK, Busy, Owning
  <1>2. Cardinality(Busy) <= 1
    <2>1. CASE Busy = {}
      BY <2>1, FS_EmptySet
    <2>2. ASSUME NEW t \in Busy PROVE Cardinality(Busy) <= 1
      <3>1. Busy = {t}
        BY <1>1, <2>2
      <3>2. QED
        BY <3>1, FS_Singleton, SMTT(30)
    <2>3. QED
      BY <2>1, <2>2
  <1>3. Busy # {} => ~pushing
    BY Owner DEF Busy, Owning
  <1>4. QED
    BY <1>2, <1>3 DEF OneWriter

(* What the invariant says of the slots is a way back.                     *)
LEMMA IInvWayBack == IInv => WayBack
  <1> SUFFICES ASSUME IInv PROVE WayBack
    OBVIOUS
  <1>1. boot \in Slots /\ running \in Slots /\ RunningOK /\ WriterOK
    BY DEF IInv, FlashInv, TypeOK, RangesOK
  <1>2. \E s \in Slots : image[s] = "good" /\ verdict[s] \in {"valid", "pending"}
    BY <1>1, OtherSlot DEF RunningOK
  <1>3. ASSUME NEW s \in {boot, running}, image[s] # "good"
        PROVE  /\ image[s] # "erased"
               /\ verdict[s] \in {"new", "pending"}
               /\ image[Other(s)] = "good"
               /\ verdict[Other(s)] = "valid"
    <2>1. CASE s = running
      BY <1>1, <1>3, <2>1 DEF RunningOK
    <2>2. CASE s = boot /\ boot # running
      <3>1. running = Other(s)
        BY <1>1, <2>2, OtherSlot
      <3>2. QED
        BY <1>1, <2>2, <3>1 DEF RunningOK, WriterOK, Builds
    <2>3. QED
      BY <2>1, <2>2
  <1>4. QED
    BY <1>2, <1>3 DEF WayBack

(* What it says of the copies is the phase that is told.                   *)
LEMMA IInvPhaseIsTold == IInv => PhaseIsTold
  <1> SUFFICES ASSUME IInv, ~raced, Ending = {}, ~pushing, state_ # "IDLE"
               PROVE  /\ ota_state = state_ /\ told = state_
                      /\ state_ = "FAILED" => panel = "error"
                      /\ state_ \in {"DOWNLOADING", "VERIFYING", "FLASHING"}
                             => panel = "updating"
    BY DEF PhaseIsTold
  <1>1. ToldOK /\ OwnerOK /\ \A t \in Tasks : task[t] \notin {"failed", "telling"}
    BY DEF IInv, FlashInv, Ending
  <1>2. state_ = "FAILED" => \A t \in Tasks : task[t] = "none"
    BY <1>1 DEF IInv, FlashInv, TypeOK, RangesOK, OwnerOK, Owning, PhaseOf, Points
  <1>3. QED
    BY <1>1, <1>2 DEF ToldOK, OwnerOK, Relayed

(* Only a restart changes what runs.                                       *)
LEMMA StepAnnounced ==
    ASSUME IInv, [Next]_vars, running' # running, image[running'] = "wrong"
    PROVE  verdict[running'] = "aborted"
  <1>1. boot \in Slots /\ verdict \in [Slots -> Verdicts]
    BY DEF IInv, FlashInv, TypeOK, RangesOK
  <1>2. CASE Reset \/ Reboot \/ Panic
    <2>1. Bootloader(boot, verdict) /\ image' = image
      BY <1>2 DEF Reset, Reboot, Panic
    <2>2. QED
      BY <1>1, <2>1, BootloaderStep
  <1>3. CASE rollbackFirmware
    <2>1. image' = image
      BY <1>3 DEF rollbackFirmware
    <2>2. QED
      BY <1>3, <2>1, RollbackBoots, BootloaderStep
  <1>4. ASSUME NEW t \in Tasks, DownloadTask(t) PROVE FALSE
    BY <1>4 DEF DownloadTask, Begin, Progress, DownloadFails, Downloaded,
                Verified, Flashed, FailState, FailTold, Fail, Advance, flashVars
  <1>5. CASE startDownload \/ createTask \/ confirmHealth \/ SessionLost
    BY <1>5 DEF startDownload, createTask, confirmHealth, SessionLost, flashVars
  <1>6. CASE UNCHANGED vars
    BY <1>6 DEF vars, flashVars
  <1>7. QED
    BY <1>2, <1>3, <1>4, <1>5, <1>6 DEF Next

-----------------------------------------------------------------------------
(* One download task at most writes the other slot, and at every moment a  *)
(* working image is in flash to go back to (startDownload's guard,         *)
(* esp_ota_begin's refusal while an image is on trial, the bootloader).    *)
THEOREM FlashAlwaysSafe == Spec => []FlashSafe
  <1>1. IInv => FlashSafe
    BY IInvOneWriter, IInvWayBack DEF FlashSafe, IInv, FlashInv
  <1>2. QED
    BY <1>1, Invariant, PTL

(* The relayed phase is the phase the update is in (setOtaState's table    *)
(* and the order of state_, StateManager and its subscribers).             *)
THEOREM PhaseAlwaysTold == Spec => []PhaseIsTold
  BY Invariant, IInvPhaseIsTold, PTL

(* Bytes whose digest is not the announced one are never started, except   *)
(* from an aborted slot by ROLLBACK_FW.                                    *)
THEOREM OnlyAnnouncedRuns == Spec => AnnouncedRuns
  <1>1. IInv /\ [Next]_vars =>
          [(running' # running /\ image[running'] = "wrong")
             => verdict[running'] = "aborted"]_vars
    BY StepAnnounced
  <1>2. QED
    BY <1>1, Invariant, PTL DEF Spec, AnnouncedRuns

(* From an image that does not work one restart leads to one that does:    *)
(* it was never confirmed, and the slot behind it was.                     *)
THEOREM ResetLeadsBack == Spec => OneResetSuffices
  <1>1. ASSUME IInv, Reset, image[running] # "good"
        PROVE  image[running'] = "good"
    <2>1. /\ boot \in Slots /\ boot = running
          /\ verdict[boot] = "pending" /\ image[Other(boot)] = "good"
      BY <1>1 DEF IInv, FlashInv, TypeOK, RangesOK, RunningOK
    <2>2. running' = Other(boot)
      BY <1>1, <2>1 DEF Reset, Bootloader
    <2>3. QED
      BY <2>1, <2>2
  <1>2. IInv /\ [Next]_vars =>
          [Reset /\ image[running] # "good" => image[running'] = "good"]_vars
    BY <1>1
  <1>3. QED
    BY <1>2, Invariant, PTL DEF Spec, OneResetSuffices

-----------------------------------------------------------------------------
(* The motion task.                                                        *)

moving == pc \in {"check", "drive"}

(* The queue was reset for it, so a STOP or HOME is first in the queue.    *)
StopFirst == \A i \in DOMAIN queue : queue[i].action \in Priority => i = 1

(* A sequence that is running has a phase left.                            *)
PhasesLeft == moving => left > 0

(* What was driven since a STOP and what may still be driven before it is  *)
(* dispatched come from one sequence.                                      *)
OneSequence ==
    stopQueued => /\ driven <= MaxPhases
                  /\ moving => driven + left <= MaxPhases
                  /\ pc = "taken" => driven = 0 /\ unheard

(* A STOP that was heard is seen at the next check.                        *)
Heard ==
    stopQueued /\ ~unheard => /\ driven <= 1
                              /\ moving => cancel
                              /\ pc = "drive" => driven = 0

(* cancel_ is only ever set on a running command from outside.             *)
CancelIsNew == moving /\ cancel => superseded

MotionInv == /\ MotionTypeOK /\ StopFirst /\ PhasesLeft /\ OneSequence
             /\ Heard /\ CancelIsNew

(* What a sequence drives is bounded by the longest walk.                  *)
LEMMA PhasesBounded ==
    \A c \in Commands : phases(c) \in 0..MaxPhases
  <1> SUFFICES ASSUME NEW c \in Commands PROVE phases(c) \in 0..MaxPhases
    OBVIOUS
  <1> USE MotionAssumption
  <1>1. CASE c \in [action : {"STOP", "HOME", "TURN"}, p0 : {0}]
    <2>1. c.action \in {"STOP", "HOME", "TURN"}
      BY <1>1
    <2>2. QED
      BY <2>1 DEF phases, MaxPhases
  <1>2. CASE c \in [action : {"WALK", "GESTURE", "SET_JOINT"}, p0 : Params]
    <2>1. c.action \in {"WALK", "GESTURE", "SET_JOINT"} /\ c.p0 \in Nat
      BY <1>2
    <2>2. steps(c.p0) \in Nat /\ steps(c.p0) <= MAX_WALK_STEPS
      BY <2>1 DEF steps
    <2>3. QED
      BY <2>1, <2>2 DEF phases, MaxPhases
  <1>3. QED
    BY <1>1, <1>2 DEF Commands

LEMMA MotionInvInit == MotionInit => MotionInv
  <1> SUFFICES ASSUME MotionInit PROVE MotionInv
    OBVIOUS
  <1> USE MotionAssumption
  <1>1. MotionFlags
    BY Zenon DEF MotionInit, MotionFlags
  <1>2. MotionRanges
    BY DEF MotionInit, MotionRanges, Commands, MaxPhases
  <1>3. ~stopQueued /\ StopFirst
    BY DEF MotionInit, stopQueued, StopFirst
  <1>4. PhasesLeft /\ OneSequence /\ Heard /\ CancelIsNew
    BY <1>3 DEF MotionInit, PhasesLeft, OneSequence, Heard, CancelIsNew, moving
  <1>5. QED
    BY <1>1, <1>2, <1>3, <1>4 DEF MotionInv, MotionTypeOK

LEMMA FlagsStay == MotionFlags /\ [MotionNext]_motionVars => MotionFlags'
  <1> SUFFICES ASSUME MotionFlags, [MotionNext]_motionVars PROVE MotionFlags'
    OBVIOUS
  <1> USE Zenon DEF MotionFlags, servoVars, stopVars
  <1>1. ASSUME NEW c, PostPriority(c) PROVE MotionFlags'
    <2>1. unheard' \in BOOLEAN
      BY <1>1 DEF PostPriority
    <2>2. QED
      BY <1>1, <2>1 DEF PostPriority
  <1>2. ASSUME NEW c, PostOther(c) PROVE MotionFlags'
    BY <1>2 DEF PostOther
  <1>3. CASE Receive
    BY <1>3 DEF Receive
  <1>4. CASE Dispatch
    BY <1>4 DEF Dispatch, cancelCleared
  <1>5. CASE CheckGoesOn \/ CheckBails
    BY <1>5 DEF CheckGoesOn, CheckBails
  <1>6. CASE Drive
    BY <1>6 DEF Drive, markEnergized
  <1>7. CASE TimedOut \/ IdleTick
    BY <1>7 DEF TimedOut, IdleTick
  <1>8. CASE UNCHANGED motionVars
    BY <1>8 DEF motionVars
  <1>9. QED
    BY <1>1, <1>2, <1>3, <1>4, <1>5, <1>6, <1>7, <1>8 DEF MotionNext,
       MotionTask

LEMMA PostPriorityStep ==
    ASSUME MotionInv, MotionFlags', NEW c \in Commands, PostPriority(c)
    PROVE  MotionInv'
  <1> USE MotionAssumption DEF MotionInv, MotionTypeOK, MotionRanges,
           PostPriority, flushed, servoVars
  <1>1. MotionRanges'
    <2>1. queue' \in Seq(Commands) /\ Len(queue') = 1
      OBVIOUS
    <2>2. QED
      BY <2>1
  <1>2. StopFirst'
    BY DEF StopFirst
  <1>3. PhasesLeft' /\ CancelIsNew'
    BY DEF PhasesLeft, CancelIsNew, moving
  <1>4. CASE stopQueued
    <2>1. driven' = driven /\ (unheard => unheard') /\ cancel' = TRUE
      BY <1>4, Zenon
    <2>2. pc = "taken" => unheard'
      BY Zenon
    <2>3. OneSequence' /\ Heard'
      BY <1>4, <2>1, <2>2 DEF OneSequence, Heard, moving
    <2>4. QED
      BY <1>1, <1>2, <1>3, <2>3
  <1>5. CASE ~stopQueued
    <2>1. driven' = 0 /\ cancel' = TRUE
      BY <1>5
    <2>2. pc = "taken" => unheard'
      BY Zenon
    <2>3. OneSequence' /\ Heard'
      BY <2>1, <2>2 DEF OneSequence, Heard, moving, MaxPhases
    <2>4. QED
      BY <1>1, <1>2, <1>3, <2>3
  <1>6. QED
    BY <1>4, <1>5

(* A command that is no STOP leaves it to the queue whether one waits.     *)
LEMMA PostOtherStep ==
    ASSUME MotionInv, MotionFlags', NEW c \in Commands, PostOther(c)
    PROVE  MotionInv'
  <1> USE MotionAssumption DEF MotionInv, MotionTypeOK, MotionRanges,
           PostOther, servoVars, stopVars
  <1>1. CASE Len(queue) < QueueDepth
    <2>1. /\ queue' = Append(queue, c) /\ queue' \in Seq(Commands)
          /\ Len(queue') = Len(queue) + 1
      BY <1>1 DEF enqueued
    <2>2. \A i \in DOMAIN queue' :
             queue'[i].action \in Priority
               => i \in DOMAIN queue /\ queue'[i] = queue[i]
      BY <2>1
    <2>3. StopFirst' /\ (stopQueued' => stopQueued)
      BY <2>2 DEF StopFirst, stopQueued
    <2>4. MotionRanges'
      BY <1>1, <2>1
    <2>5. QED
      BY <2>3, <2>4 DEF PhasesLeft, OneSequence, Heard, CancelIsNew, moving
  <1>2. CASE ~(Len(queue) < QueueDepth)
    <2>1. queue' = queue
      BY <1>2 DEF enqueued
    <2>2. QED
      BY <2>1 DEF StopFirst, stopQueued, PhasesLeft, OneSequence, Heard,
                  CancelIsNew, moving
  <1>3. QED
    BY <1>1, <1>2

(* No STOP waits behind the command that is taken: it was first.           *)
LEMMA ReceiveStep ==
    ASSUME MotionInv, MotionFlags', Receive
    PROVE  MotionInv'
  <1> USE MotionAssumption DEF MotionInv, MotionTypeOK, MotionRanges, Receive,
           servoVars
  <1>1. /\ queue' = Tail(queue) /\ queue' \in Seq(Commands)
        /\ Len(queue') = Len(queue) - 1 /\ cmd' \in Commands
    OBVIOUS
  <1>2. \A i \in DOMAIN queue' :
           i + 1 \in DOMAIN queue /\ queue'[i] = queue[i + 1] /\ i + 1 # 1
    BY <1>1
  <1>3. ~stopQueued' /\ StopFirst'
    BY <1>2 DEF StopFirst, stopQueued
  <1>4. MotionRanges'
    BY <1>1
  <1>5. QED
    BY <1>3, <1>4 DEF PhasesLeft, OneSequence, Heard, CancelIsNew, moving

LEMMA DispatchStep ==
    ASSUME MotionInv, MotionFlags', Dispatch
    PROVE  MotionInv'
  <1> USE MotionAssumption DEF MotionInv, MotionTypeOK, MotionRanges,
           Dispatch, stopVars, cancelCleared
  <1>1. phases(cmd) \in 0..MaxPhases
    BY PhasesBounded
  <1>2. MotionRanges'
    BY <1>1
  <1>3. StopFirst' /\ (stopQueued' <=> stopQueued)
    BY DEF StopFirst, stopQueued
  <1>4. PhasesLeft' /\ CancelIsNew'
    BY <1>1 DEF PhasesLeft, CancelIsNew, moving
  <1>5. OneSequence' /\ Heard'
    BY <1>1, <1>3 DEF OneSequence, Heard, moving
  <1>6. QED
    BY <1>2, <1>3, <1>4, <1>5

LEMMA CheckStep ==
    ASSUME MotionInv, MotionFlags', CheckGoesOn \/ CheckBails
    PROVE  MotionInv'
  BY MotionAssumption DEF MotionInv, MotionTypeOK, MotionRanges, CheckGoesOn,
     CheckBails, stopVars, servoVars, StopFirst, stopQueued,
     PhasesLeft, OneSequence, Heard, CancelIsNew, moving, MaxPhases

LEMMA DriveStep ==
    ASSUME MotionInv, MotionFlags', Drive
    PROVE  MotionInv'
  <1> USE MotionAssumption DEF MotionInv, MotionTypeOK, MotionRanges, Drive,
           nextPhase, markEnergized
  <1>1. left > 0
    BY DEF PhasesLeft, moving
  <1>2. StopFirst' /\ (stopQueued' <=> stopQueued)
    BY DEF StopFirst, stopQueued
  <1>3. MotionRanges'
    BY <1>1 DEF MaxPhases
  <1>4. PhasesLeft' /\ CancelIsNew'
    BY <1>1 DEF PhasesLeft, CancelIsNew, moving, MaxPhases
  <1>5. OneSequence' /\ Heard'
    BY <1>1, <1>2 DEF OneSequence, Heard, moving, MaxPhases
  <1>6. QED
    BY <1>2, <1>3, <1>4, <1>5

LEMMA IdleStep ==
    ASSUME MotionInv, MotionFlags', TimedOut \/ IdleTick
    PROVE  MotionInv'
  BY MotionAssumption DEF MotionInv, MotionTypeOK, MotionRanges, TimedOut,
     IdleTick, stopVars, StopFirst, stopQueued, PhasesLeft,
     OneSequence, Heard, CancelIsNew, moving

LEMMA MotionInvStep ==
    MotionInv /\ [MotionNext]_motionVars => MotionInv'
  <1> SUFFICES ASSUME MotionInv, [MotionNext]_motionVars PROVE MotionInv'
    OBVIOUS
  <1>1. MotionFlags'
    BY FlagsStay DEF MotionInv, MotionTypeOK
  <1>2. CASE UNCHANGED motionVars
    BY <1>2 DEF motionVars, servoVars, stopVars, MotionInv, MotionTypeOK,
       MotionFlags, MotionRanges, StopFirst, stopQueued, PhasesLeft,
       OneSequence, Heard, CancelIsNew, moving
  <1>3. CASE \E c \in Commands : PostPriority(c) \/ PostOther(c)
    BY <1>1, <1>3, PostPriorityStep, PostOtherStep
  <1>4. CASE MotionTask
    BY <1>1, <1>4, ReceiveStep, DispatchStep, CheckStep, DriveStep, IdleStep
    DEF MotionTask
  <1>5. QED
    BY <1>2, <1>3, <1>4 DEF MotionNext

LEMMA MotionInvAlways == MotionSpec => []MotionInv
  BY MotionInvInit, MotionInvStep, PTL DEF MotionSpec

(* Type correctness: the queue keeps to its depth and no p0 makes a walk   *)
(* longer than MAX_WALK_STEPS.                                             *)
THEOREM QueueKeepsItsDepth == MotionSpec => []MotionTypeOK
  BY MotionInvAlways, PTL DEF MotionInv

(* A STOP or HOME waits for the rest of one sequence at most, because      *)
(* post() resets the queue, even if its cancel_ is lost.                   *)
THEOREM StopWaitsForOneSequence == MotionSpec => []StopWithinOneSequence
  <1>1. MotionInv => StopWithinOneSequence
    BY DEF MotionInv, OneSequence, StopWithinOneSequence
  <1>2. QED
    BY <1>1, MotionInvAlways, PTL

(* A STOP or HOME that finds its command past the reset of cancel_ waits   *)
(* for one phase at most.                                                  *)
THEOREM HeardStopIsPrompt == MotionSpec => []StopWithinAPhase
  <1>1. MotionInv => StopWithinAPhase
    BY DEF MotionInv, Heard, StopWithinAPhase
  <1>2. QED
    BY <1>1, MotionInvAlways, PTL

(* A command bails only for a STOP or HOME that came after it.             *)
THEOREM BailsForNewerOnly == MotionSpec => CutOnlyByNewer
  <1>1. MotionInv /\ [MotionNext]_motionVars
           => [CheckBails => superseded]_motionVars
    BY DEF MotionInv, CancelIsNew, moving, CheckBails
  <1>2. QED
    BY <1>1, MotionInvAlways, PTL DEF MotionSpec, CutOnlyByNewer
=============================================================================
