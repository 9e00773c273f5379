# Luni: TLA+ models of the robot's two firmwares

Luni is a small talking robot. Two microcontrollers share the work:

- the **ESP32-C5** (`esp32-c5/`, one core, FreeRTOS) owns WiFi, the WebSocket to
  the cloud, BLE provisioning, over-the-air updates, the motors, and the state
  of the voice turn;
- the **ESP32-S3** (`esp32-s3/`, two cores) owns the microphone, the speaker,
  the wake word, the camera and the screen, and mirrors the C5's state.

They talk over a UART (control frames, images, status) and an SPI bus (Opus
audio in both directions, the S3 is master, one handshake line tells it that the
C5 has data). Paths below are relative to `src/`.

Contents: [Inventory](#inventory) ·
[Modules](#modules-and-how-they-correspond-to-the-code) ·
[Runs](#runs) · [Bounds](#bounds) · [Fairness](#fairness) ·
[Proofs](#proofs) · [Findings](#findings) · [Not modelled](#what-is-not-modelled)
· [Plan](#plan)

## Inventory

One paragraph per component: its state, its operations, how it meets the
others, what is hard, and what makes it correct. `PROJECT.json` lists the same
components with their status, and every hazard at its line.

### C5 connection task (`NetworkManager`, `WifiService`)

State: `conn_state_`, the reason of the last failure, a `uint8_t` retry counter,
`was_online_`, and whether credentials and a token exist. One loop pass per
state takes it from WiFi over WebSocket and auth to ONLINE; a failure goes to
RECONNECTING, where the retry policy picks a retry, BLE provisioning or OFFLINE.
WiFi and WebSocket event handlers run beside it and set the flags it polls.
*Hard*: events between two polls and during blocking calls (disconnect, scan); a
sticky disconnect reason; two notions of the retry limit; two copies of the
state. *Correct when* the shared copy never goes stale, retries are bounded, no
outage traps the task, and it recovers when the network does.

### C5 WebSocket client (`WebSocketClient`)

State: the client handle, connected, authenticated, rejected; a text queue of 24
and a binary transmit task. *Hard*: sends dropped when the socket is down or the
queue is full, without an error to the caller; a transmit task that outlives a
disconnect. *Correct when* a session reports its end once and nothing that ends a
turn is lost unnoticed.

### State tables (`StateTypes.hpp`) and state managers

Connection, interaction and OTA state with their transition tables, and
retry policies. `StateManager` on each chip keeps the copy everybody reads and
calls subscribers *after* it has released its lock. The connection setter
refuses a transition outside the table; the interaction setter only warns.
*Hard*: what a subscriber does is late with respect to the state it reacts to.

### Voice turn on the C5

State: the interaction state and its source, the time stamp of the last change,
`speaking_session_active_`, `last_downlink_ms_`. It is written by the UART task
(START, END, SPEAK_DONE from the S3), a button task, the WebSocket task (audio,
audio_stop, loss of the session) and the watchdog on the timer task. *Hard*:
all of these interleave by priority; none holds a lock over what it read.
*Correct when* every turn ends, no state outlives its limit, audio only passes in
a reply, an open session is a turn that speaks, and a recording is ended, and an
answer begun, only by who has seen the state that allows it.

### C5 motion (`MotionManager`)

State: a queue of 8 commands, `cancel_`, `servos_energized_`. The WebSocket task
posts; the motion task takes a command and drives a sequence of phases with
dwells between. A second task samples the IMU. *Hard*: STOP against the task
that is just starting something else. *Correct when* a STOP is honoured promptly,
nothing is cut for an older STOP, and servos do not hold torque for ever.

### Audio downlink and SPI (`SpiBridge` on both chips)

State: a stream buffer of framed Opus, the frame header kept for the next
payload, the armed payload, the handshake line. The WebSocket task fills the
buffer, the SPI slave task packs it, START on the UART task resets it. *Hard*:
fragments, a full buffer, a reset between a header and its body. *Correct when*
the S3 gets whole frames in order, and no header is kept that can never leave.

### Audio uplink (`AudioManager`, `SpiBridge`, `WebSocketClient`)

State: the S3's queue of 16 encoded frames, the C5's stream buffer, a batch, a
queue of 24 texts, the socket and its lock. Audio and the START and END that
delimit it leave by two tasks. *Hard*: each stage refuses what does not fit; the
texts share their queue with logs; END waits for a buffer that another task
empties. *Correct when* the server can tell where a recording ends and each
message starts at a frame.

### C5 controller and BLE provisioning (`AppController`, `BluetoothService`)

State: an event queue of 16 that drops when full; BLE links, each with its own
unlock flag; one staged configuration; a PIN with a counter and a lock-out; NVS.
*Hard*: BLE started and stopped by messages that can be lost; link callbacks
that write the shared connection state while the connection task is joining; NVS
writes that fail one by one. *Correct when* guesses are bounded, a link does
only what its own PIN or token opened, and a device in provisioning is reachable.

### OTA (`OtaManager`)

State: its own `state_`, the copy in `StateManager`, the download task, two
flash slots with their boot states. *Hard*: a push while the failed task is still
finishing; a restart anywhere; trial boots. *Correct when* one task at most writes
a slot, there is always an image to go back to, and a bad one goes at the next
reset.

### UART protocol and bridges

Frames with a CRC-8, a byte-wise parser with resynchronisation, a ring that
overflows; pictures in chunks with no number. *Hard*: a byte lost inside a frame
makes the parser read a payload as headers. *Correct when* it finds the next
frame again, invents none, and joins no picture from two.

### S3 controller (`AppController`, `StateManager`, `DeviceProfile`)

State: a mirror of the C5's connection and interaction state, a watchdog of its
own, the microphone and the speaker. *Hard*: the mirror lags, and both sides
change it; subscribers run after the lock. *Correct when* microphone and speaker
are as the state says, a turn the C5 has left is closed, and the two agree again
when the line is quiet.

### S3 audio (`AudioManager`)

State: speaking, pre-buffering, draining; an encoded and a PCM stream buffer.
*Hard*: resynchronisation in a byte stream; a stop at any step of a reader that
blocks; a stop that drains while the next reply starts. *Correct when* nothing of
an earlier reply is heard and every reply that is played reports its end.

### S3 screen (`SceneManager`, `DisplayManager`)

State: the scene, a sticky flag, a deadline for held content, the base scene to
return to, the icons. Four tasks' callbacks, the camera task and the 20 ms frame
loop write it with no lock. *Hard*: an older state's callback that runs after a
newer one's. *Correct when* the scene of the network and the icon of the
microphone follow the states, and nothing held stays for ever.

### Camera, logs, power, time sync, console, wake word, drivers

One task each and little shared state. They appear where they meet the others:
the camera as the source of pictures (`UartLink`) and scenes (`Screen`), logs as
texts in START's queue (`Uplink`), the wake word as an event (`TurnMirror`).

## Modules and how they correspond to the code

| Module | Models | Code (`c5` and `s3` for the two firmwares) |
|---|---|---|
| `StateTypes` | enumerations, transition tables, retry policies | c5 `StateTypes.hpp` |
| `Connection` | the connection task, WiFi and WebSocket handlers, WIFI_CONFIG, the shared copy, and what a phone's link writes into it | c5 `NetworkManager`, `WifiService`, `WebSocketClient`, `StateManager`, `AppController` |
| `Turn` | what the C5 promises of a turn: the state set at once, by whoever has seen what allows it | the handlers `VoiceTurn` models, each as one step or as a look and a set |
| `VoiceTurn` | START, END, SPEAK_DONE, the gate, audio_stop, session loss, the watchdog, step by step; implements `Turn` | c5 `NetworkManager`, `DeviceProfile`, `WsMessageHandler`, `StateManager` |
| `Motion` | the command queue, `cancel_`, the sequences, relaxing | c5 `MotionManager`, `WsMessageHandler` |
| `Downlink` | server to SPI payload: buffer, drop policy, packing, kept header, line, reset | c5 `NetworkManager`, both `SpiBridge` |
| `AudioRecv` | SPI payload to speaker: encoded buffer, pre-buffer, resync, PCM buffer, drain, stop, SPEAK_DONE | s3 `AudioManager` |
| `Uplink` | microphone to server: both chips' buffers, batches, texts, the client lock, START and END | s3 `AudioManager`, `SpiBridge`; c5 `SpiBridge`, `NetworkManager`, `WebSocketClient`, `LogManager` |
| `TurnMirror` | the turn on both chips over a lossy UART: status, controls, S3 watchdog, microphone, speaker | both `AppController`, `DeviceProfile`, `StateManager` |
| `Provisioning` | BLE links, PIN, admin token, staged settings, COMMIT, restart, NimBLE's start and end, the controller's queue that drops | c5 `BluetoothService`, `AppController`, `NetworkManager` |
| `Ota` | push, download task, flash slots, trial boot, health confirmation, rollback, the S3's panel | c5 `OtaManager`, `HttpClient`, `AppController`, `BluetoothService` |
| `UartLink` | bytes of a frame with the real CRC-8, parser, ring, chunked pictures | c5 `UartProtocol.hpp`, both `UartBridge`, s3 `CameraManager` |
| `Screen` | the scene, held content, icons, and who writes them | s3 `DisplayManager`, `SceneManager`, `StateManager`, `DeviceProfile`, `CameraManager` |
| `ConnectionProofs` | theorems about `Connection` and `Screen` | |
| `AudioLinkProofs` | theorems about `Downlink` and `Uplink` | |
| `CommandProofs` | theorems about `Ota` and `Motion` | |
| `VoiceTurnProofs`, `TurnMirrorProofs`, `AudioRecvProofs`, `ProvisioningProofs`, `UartLinkProofs` | theorems about the module they are named after | |
| `MC*` | the same modules for TLC; constants are in the `.cfg` files | |

`Connection` and `VoiceTurn` both extend `StateTypes`, so a change of a table is
seen by both. Names of variables and actions are the code's (without the trailing
underscore); `PROJECT.json` maps every definition to its lines.

The modules meet at their edges: what one does is the environment of the next.
The audio way is `Downlink` then `AudioRecv` and, the other way, `Uplink`;
`TurnMirror` joins the turn of `VoiceTurn` (there set at once, which is what
`Turn` says of it) with the S3; the messages `TurnMirror` loses are those
`UartLink` shows to be lost whole. `Provisioning` keeps of the connection task any
walk along the table, and `Connection` keeps of provisioning that a phone's link may
come or go at any time once BLE was asked for: the two meet at the copy in
`StateManager`, of which each has a property (`SmAgrees`, `SmFollows`).

**Grain.** An action is what one task does between two points at which another
task can observe or change what it uses. The C5 has one core
(`CONFIG_FREERTOS_UNICORE`) and fixed priorities, so a task's steps interleave
with the tasks above it only: UART, touch, OTA 3; motion, SPI slave, controller 4;
WebSocket 5; transmit tasks 6; the timer task 22. On the S3 tasks of different
cores interleave anywhere.

- In `Connection` a pass of the loop is one action unless it sleeps or blocks in
  the middle. Then it is two: `WsWaitOver` reads the reason and `WsClose` reports
  it after `disconnect()`; `WifiScan` blocks and `WifiToBle` classifies
  afterwards. A bounded wait either sees what it waits for or expires; while the
  access point and the server answer they beat the window.
- In `VoiceTurn` a handler is split at each shared variable it touches, and
  `setInteractionState` is two steps because the time stamp is written by a
  subscriber after the lock is released. `mayRun` is the priority rule; the
  watchdog runs whole, between any two steps. A `Tick` is one watchdog period.
- In `Motion` `post()` runs whole between any two steps of the motion task.
  Joint angles are left out; a sequence is the number of phases it drives.
- In `Downlink` a unit stands for bytes and is named by its place in the stream.
  A header (two bytes) is one unit, so it is never split. A body unit misread as
  a header gives any length that is accepted, or is refused, which resets the
  buffer. The WebSocket task runs between any two steps of the slave task, the
  UART task only while the slave task waits.
- In `AudioRecv` and `Uplink` a buffer is a sequence of pieces, each with the
  reply or the frame it belongs to; a send or receive that blocks is a step of its
  own, and a stop runs at each of them.
- In `TurnMirror` a handler is one action and its message is what it leaves on the
  line; status and control messages keep their order. Subscribers run inside the
  setter's action; `Screen` is where their lateness is modelled.
- In `Provisioning` a GATT write is one action: NimBLE's host task runs them one
  after the other. What it shares with the controller and the connection task
  (the state, NVS, the queue) changes between them.
- In `Ota` the download task's blocking calls divide it, and a power failure
  comes between any two steps. The bootloader's choice of a slot is external.
- In `UartLink` an action is one byte, and a byte has its real value: the frame,
  the parser and the CRC are computed.
- In `Screen` setting a state and running its callbacks are two steps, and an
  older callback may run after a newer (`overtaken`). A frame of the loop counts
  towards the window of what it draws, and every scene that is shown sets the
  count back.

Several properties have a name for what the code is known to get wrong
(`misled`, `crossed`, `late`, `dropped`, `gone`, `outlived`, `kept`, `raced`,
`overtaken`, `torn`, `split`, `mixed`, `shifted`, `lost`). Each is a history
variable set by the one step that causes it, and cleared by the step after which
it can do no more harm, so the property says that nothing *else* breaks it;
[Findings](#findings) says which step that is.

Definitions headed "Mutated form" in the modules are used by no action. Each is
what a definition next to it would be after a plausible slip in the code (a
dropped guard, a wrong limit, a flag not reset), and shows that a property
notices it; `PROJECT.json` pairs them.

## Runs

| Run | Shows | States, time |
|---|---|---|
| `conn` | `SmAgrees`: in whatever order WiFi, the server, a phone and WIFI_CONFIG come, the copy everybody reads is the task's own, or shows the link of a phone; one that is shown too late stays until the next join and no longer. `NoJoinWithoutToken`; `RetryBudget`; `OutageEnds`: no outage keeps it retrying for ever, and a good network is found | 939 000, 140 s |
| `turn` | `AgesBounded`: no state of a turn outlives its watchdog limit by more than a period, whichever tasks race. `TurnEnds`: "Một turn luôn kết thúc" (`docs/modules/state-machine.md:68`). `GateClosed`: audio passes outside a reply only by one named race. `ReplySpeaks`: an open session is a turn in SPEAKING, but for two. `ImplementsTurn`: all of it is `Turn` | 625 000, 95 s |
| `motion` | `StopWithinOneSequence`; `StopWithinAPhase`, unless its `cancel_` was erased; `CutOnlyByNewer`; `Relaxes` | 98 000, 10 s |
| `downlink` | `StreamIntact`: packed frames are the server's, unless one of three named things broke the stream, and before that no header is kept that fits no payload. `NoFrameTwice`: none is packed twice or out of order | 2.9 million, 50 s |
| `mirror` | `Mirrored`: START only for a wake word, microphone and speaker as the state says. `SpeakDoneEndsReply`: a turn taken up over nothing of a reply hears no SPEAK_DONE but its own, whatever is lost or restarted; `MicCloses`, even when the C5 has died; `Converges`, whatever statuses were lost | 347 000, 180 s |
| `prov` | `PinGuarded`: guesses are bounded over all links. `LinkGuarded`: no link uses another's PIN or token. `RestartKeeps`: a RESTART boots with the COMMIT it follows. `SmFollows`: what a phone that left late has written lasts to the next join. `Serves`: a device in provisioning can be reached, unless the message that says so found the queue full | 951 000, 170 s |
| `prov_again` | violation of `ServesAgain`, see [Findings](#findings) | |
| `audio` | `StreamAligned`: lengths are read where lengths are. `NoOldAudio`: nothing of the last reply is heard in the next. `ReplyRuns`: a buffered reply is heard, a begun one ends | 121 000, 21 s |
| `uplink` | `OnTheWire`: messages begin with a length, END comes behind the audio it ends. `RecordingEnds` on the server, unless END was lost or the turn was cut, when none is sent | 639 000, 100 s |
| `ota` | `FlashSafe`: one writer of the slot, and a working image to go back to at every moment. `PhaseIsTold`, `AnnouncedRuns`, `UpdateEnds`. `BadImageGoes`: an image that crashes takes itself away, any other that does not work goes with the next reset | 250 000, 84 s |
| `screen` | `NetworkSceneStays`; `TurnShown`: the privacy icon, and a turn's face that stays, follow the turn; `WindowEnds`, once nothing new is shown | 816 000, 108 s |
| `uart` | `FramesSound`: no buffer is overrun, and nothing is forged unless bytes were shifted. `PlaceIsFound`: what comes up is in the order it was sent, and a fault costs one run of frames, of bounded length. `WholeImage`: no picture is joined from two | 148 000, 20 s |

`TypeOK` is part of a property of `downlink`, `mirror`, `prov`, `audio`, `uplink`,
`ota`, `screen` and `uart`, and proved for every module that has theorems.
It holds bounds that are not types only: `Downlink` and `AudioRecv` write no buffer
past its end, TRIGGERED and CANCELLING are never entered on the C5.

`conn`, `turn`, `motion`, `downlink` and `screen` check for deadlock. The
others run with `CHECK_DEADLOCK FALSE`: their environment is finite (replies,
wake words, requests, phones, resets are counted) and the system rests when it
is used up; their liveness properties say that it rests where it should. `ota`
may also rest in an image that runs and never gets online.

## Bounds

Every bound is a constant that only counts what the environment does, or a
buffer that is made small so that it is full.

- `Connection`: `MaxNetChanges = 2` lets the network fail and come back, or work,
  fail and work; the retry counter and its caps (6 and the policies' 3 to 10) are
  the code's own, so the cycles are the real ones, and after the last change the
  behaviour is unbounded. The token can be revoked once per provisioning.
- `VoiceTurn`: `MaxTurns = 2` because the hazards are a turn started over the
  leftovers of another; two pieces of audio or `audio_stop`; one lost session. The
  limits 30, 20 and 15 s become 3, 2 and 1 periods: only their order matters, and
  the theorems cover every choice that keeps it. Ages saturate two periods past
  the longest limit. `Buttons = TRUE` has every behaviour of boards with and
  without push-to-talk buttons; the shipped pins have none
  (`esp32-c5/src/config/PinConfig.hpp:84`).
- `Motion`: queue 2 for 8, so that it is full; walks of at most 2 steps for 20;
  `Params` below and above the cap and the joint count (joint 3 is valid, 6
  not); four commands are enough for a STOP after a STOP after a full queue.
- `Downlink`: a message of two frames of three units, a payload with room for one
  and a half (its second frame is kept), a buffer with room for one and a third
  messages, three messages and one START.
- `TurnMirror`: one wake word and one upset, with one message on each line and
  in each queue, so that a second one is refused. Each kind of upset thus meets a
  turn at every step, and the wake word a reply of the server's own (an odd move),
  so that its START can cross one (`crossed`). What two wake words or two upsets do
  together is beyond the run, and covered for `Mirrored` and `SpeakDoneEndsReply` by
  their theorems.
- `Provisioning`: two links, because the hazards are a phone on the leftovers of
  another; PIN limit 2 for 5; one WIFI_CONFIG and one fault, a failed write or a
  loss of power. The queue has room for one message (`QueueRoom`): it stands for
  the code's 16 entries when 15 are taken by others, and any second message before
  the controller runs is dropped. The safety properties were checked with 2 as well
  (1.6 million states).
- `AudioRecv`: an encoded buffer of 8 pieces with a pre-buffer of 6, so that a
  reply can be shorter or longer; a PCM buffer of 2 for the blocking send; two
  replies, the second over what the first left; one frame that comes cut.
- `Uplink`: rooms of 1 to 5 so that each stage refuses; two turns with three frames
  between them, one log, one failed send or lost connection.
- `Ota`: four pushes, which is two for a race, one retry and one later update; three
  restarts, enough for a trial boot, its rollback and one more. Each push has a
  task of its own. An announced build is good, crashes, or runs and stays mute.
- `UartLink`: payloads of at most 4 bytes for 250, pictures of 3, 5 and 6 bytes in
  chunks of 2, two pictures and a command, one fault. The CRC is the code's, and
  the start byte occurs in payloads. How far apart the same bits may be flipped
  twice and still be noticed in a long frame is an ASSUME TLC evaluates
  (`PairsAreNoticed`: up to 126 bytes; `UpTo127`: no further).
- `Screen`: windows of 2 frames (`HoldFrames`) for the code's seconds, so that a
  window can be begun anew between its first and its last frame. Nothing else is
  counted.

## Fairness

- `Connection`: the task is scheduled and each wait in it has a time-out, so it is
  weakly fair; an access point or server that answers does so eventually, while
  it is good; a socket without a link dies by keep-alive. No fairness on changes of
  the network, on provisioning or on revoking.
- `VoiceTurn`: a task in the middle of a handler goes on, the timer fires, time
  passes. The user, the server and the S3 owe nothing: that is the point of
  `TurnEnds`.
- `Motion`: the motion task goes on; nobody has to post.
- `TurnMirror`: tasks go on, heartbeats are sent by a timer, the line delivers
  what it does not lose. `C5Ends` is strongly fair: that a turn of the C5 ends,
  however often it is interrupted, is `TurnEnds`. Wake words, replies and the end
  of playback owe nothing.
- `Provisioning`: the controller and NimBLE's host task go on, `setCredentials`
  is in a running handler, and NimBLE ends the links of a stack that is stopped.
  Phones owe nothing, nor does the connection task.
- `AudioRecv`: both audio tasks go on, since every wait in them has a time-out;
  what the server has sent arrives; a stop that began goes on.
- `Uplink`: tasks and timers go on. The two transmit tasks are strongly fair: each
  waits for a lock the other holds for one send, and FreeRTOS hands a mutex to its
  oldest highest waiter.
- `Ota`: the download task goes on, for HTTP and flash calls return, if only with an
  error; `esp_restart` restarts; an image that crashes does so in the end, and a
  panic restarts the chip. No reset is fair: nothing in the firmware resets an
  image that runs and only stays offline.
- `Screen`: the frame loop draws at a fixed rate. Callbacks and commands owe nothing,
  and may set a window back for ever: `WindowEnds` is claimed of behaviours in which
  they come to an end.
- `Downlink` and `UartLink` have no liveness property: nothing obliges the S3 to
  poll, and the parser waits for bytes without a limit of time.

## Proofs

The theorems hold for every value of the constants allowed by the named
assumptions (`CapAssumption`, `LimitsAssumption`, `MotionAssumption` and so on),
which TLC evaluates in the runs. Each module proved about has an inductive
invariant, a lemma for Init, lemmas for the steps of each task (one case per
action), and temporal theorems that combine them. The invariant is `IInv`, or
`ScreenInv`, `MotionInv` and `UpInv` for `Screen`, `Motion` and `Uplink`: these three
share a proof module with another, which is why their `Init`, `Next`, `Spec` and
`TypeOK` carry the module's name.

- **`ConnectionProofs`** (`TypeCorrect`, `SmAlwaysAgrees`, `RetriesBounded`,
  `TokenBeforeJoin`). The properties are not inductive: from `SmAgrees` alone a
  task could be waiting for auth in a state from which the table refuses ONLINE.
  `StepOK` says where the task can be inside each state, `TokenOK` what a wait for
  the token implies, `LateOK` what others see of a link that wrote too late. The
  lemma `TableAllows` lists the steps the table has to permit, `TransitionAgrees`
  turns each into agreement of the copies, or into a link that is still shown:
  whatever a link wrote, the table accepts the next join. Holds for
  every cap from 1 to 10: `RetryBudget`'s bound of 10 is the largest policy, which
  a larger cap would exceed.
  `Screen` (`NetworkSceneHolds`, `TurnAlwaysShown`). `NothingToTell`: while it boots
  no callback is owed. `NewestToCome`: unless one setter has overtaken another, the
  only callback of its kind still to run carries the current state, so that what
  is shown is right or about to be. `SceneHeld`: a network scene set between two
  frames has no window over it, and the display task is at rest. `SceneUp`: it is
  the scene of the state all have been told. Any length of a window.
- **`VoiceTurnProofs`** (`TypeCorrect`, `AgesAlwaysBounded`, `ReplyAlwaysSpeaks`,
  `GateAlwaysClosed`, `TurnImplemented`). `StampOK`: while a task has yet to write
  its stamp the state is new; otherwise the watchdog's age is the true one. This is
  why a late stamp is harmless to `AgesBounded`. `AgeOK` is the property with one
  period of slack only while the watchdog is due. `ReplyAlwaysSpeaks` and
  `GateAlwaysClosed` need to know what a task in the middle of a handler has read
  and what can have changed since. `SpeaksOK`: while a session that is not `outlived`
  is open, no handler is between ending a reply and setting its state. `HeardOK`: a
  piece that has passed the gate and not yet set SPEAKING does not find LISTENING,
  for nothing below the WebSocket task runs in between. `TurnImplemented` is the
  refinement: the age is the true one, an answer that has passed the gate is
  `Turn`'s `heard`, a task that has seen LISTENING and waits for the drain is in its
  `released`. `Init` implies `Turn!Init` and every step is an action of `Turn` or a
  stutter; the `Tick` step needs `IInv`, for `Turn` lets no time pass over a state
  that is overdue, and the `Speak` step needs `HeardOK`. Any limits in their order,
  any number of turns, replies and losses.
- **`CommandProofs`**. `Ota` (`FlashAlwaysSafe`, `PhaseAlwaysTold`,
  `OnlyAnnouncedRuns`, `ResetLeadsBack`). `OneWriter` and `WayBack` need each other
  and the phases. `OwnerOK`: the phase in `state_` is that of the one task that has
  not given up, which is why the guard of a push keeps a second writer out.
  `RunningOK`: what runs is proved, or on trial over an image that is. `WriterOK`: a
  task past `esp_ota_begin` runs from a proved image, so what it erases is not the
  way back, and the slot to boot is changed only by a task about to restart.
  `ResetLeadsBack` follows from it: what does not work is on trial, and the
  bootloader gives a trial one boot. `ToldOK` pairs the three copies of the phase
  while no push has overtaken a failure. Any number of pushes and restarts. `Motion`
  (`QueueKeepsItsDepth`, `StopWaitsForOneSequence`, `HeardStopIsPrompt`,
  `BailsForNewerOnly`). `StopFirst`: a STOP in the queue is at its head, for it was
  flushed. `OneSequence`: what was driven since and what is left to drive belong to
  one sequence, hence at most the longest walk. `Heard`: if `cancel_` was set on the
  running command it is still set at its next check. `CancelIsNew`: it is never left
  over from before the command was taken. Any queue depth, any cap of at least two
  steps, any parameters.
- **`ProvisioningProofs`** (`PinAlwaysGuarded`, `LinkAlwaysGuarded`,
  `RestartAlwaysKeeps`, `SmAlwaysFollows`). `Counted`: the counter is the number
  of wrong PINs since the last lock-out or success, whichever links they came
  over. `Earned`: an access level is this link's. `Kept`: a field that was
  acknowledged is in NVS or still staged, by where the handler is in its writes.
  Each part is kept by few variables, so the steps are proved part by part.
- **`AudioLinkProofs`**. `Downlink` (`FramesNeverRepeat`, `StreamStaysIntact`). What
  is left to pack is one queue, the kept header and the buffer behind it.
  `OrderInv`: its places rise, between the last packed and the last received; this
  holds whatever breaks the stream. `Unbroken`: the queue is whole frames with one
  short frame at most, last (`Framed`); what comes next continues it
  (`ShortGoesOn`), and within a frame there is a short one to continue unless the
  rest is being dropped (`MidFrame`). `Framed` speaks of each header and the next
  instead of the whole stream, so that no induction is needed. Any lengths, if a
  message is whole frames and a frame fits a payload. `Uplink` (`UplinkOnTheWire`).
  `UpLock`: the task that holds the client's lock for audio has a batch in hand, and
  the batch an END has behind it is the one that was sent. `UpJoin`: the batch in
  hand and `tx_buffer_` behind it are one stream of lengths and bodies by turns,
  which goes on where the last message ended, until a backlog is cut inside a frame
  (`split`). Any sizes of the five stages, turns, logs and failures.
- **`AudioRecvProofs`** (`AudioRecvStaysAligned`, `OldAudioNeverPlays`). `InStep`:
  what AudioRecv takes next is the part of a frame it expects, and behind that
  the buffer is whole frames. `StopOK` says what each point of a stop has
  emptied: a stop runs at every blocking step of the reader, and a reply may begin
  between its steps. `BytesOwn` and `FrameOwn` say whose the bytes in the buffer
  and in AudioRecv's hands are. Any sizes of the buffers, any replies and cuts.
- **`TurnMirrorProofs`** (`TurnIsMirrored`). `EchoFree` is a budget: `PaidFor` says
  that the wake words heard and not answered are at least those that are on
  their way, as a task, a message in the queue (counted as a set of positions) or
  the message being handled. `Told`: the task that set a state still has to tell
  AudioManager of it, or AudioManager agrees, or was silenced by a task about to
  leave that state. Any queues, wake words and mishaps.
  `SpeakDoneIsForReply` rests on `Clean`: in a turn of the C5 that was taken up over
  nothing, and until it speaks, there is no trace of a reply anywhere: no audio,
  status, queued or taken message, task of the S3 or SPEAK_DONE. A step of the S3
  makes a trace of a trace, and of nothing else (`Unasked`); a step of the C5
  makes one only in SPEAKING; what is lost or restarted makes none.
- **`UartLinkProofs`** (`UartBuffersBounded`, `FramesInOrder`, `NothingMadeUp`,
  `FramesAreSound`, `CleanLineDelivers`, `PicturesAreWhole`). `crc8` and the
  parser's pass are recursive functions. `InductionOnSet`, a set of naturals with 0
  and every successor, gives what is needed of them: that each round of such a loop
  has a value, and what it leaves. The library's induction theorems take an operator
  and cannot be used. From there, `crc8` is shown to notice any one turned byte in a
  frame of any length, because `xor` and the table's step are one-to-one; and the
  parser to make of a frame that is whole the frame, and of one that is turned
  nothing, and to be back at its start after either. `WireTyped` is types and
  bounds. `Unshifted` holds until a start or a length byte is hit: what is in the
  ring and on the line is a row of frames, each whole or turned in one place
  (`Layout`), and what was handed up is what was sent but for the turned ones, which
  the faults pay for (`Kept`). `PicturesOK` is about the camera: the chunks sent are
  those that are due, in the order of picture and number (`PiecesSent`), and the
  image in hand ends with the last chunk that came up (`Assembling`). A chunk is
  taken only if its number is the next. If that one is of another picture, what was
  left of the first and the beginning of the second are gone, and together they are
  at least as many chunks as the first one has (`Joined`): the numbers go on where
  they left off, and so must have come from the start. Any frame length up to 250,
  any ring, pictures (their contents all different, so at most 255) and commands,
  any number of faults.

Every inductive invariant was checked by TLC on an instance before it was proved.

Only model-checked:

- the liveness properties, since the prover has neither fairness nor ENABLED (of
  `BadImageGoes` the half that is about a reset is `ResetLeadsBack`);
- of `UartLink`, `PlaceIsFound`, and `WholeImage` once a fault has moved a start or a
  length (`shifted`). After a length byte was turned anything may follow that the
  CRC happens to accept, and what that costs depends on the very bytes. Until
  then, `PicturesAreWhole` is the theorem about pictures, `FramesInOrder` says that
  frames come up in the order they were sent, each as it was, and
  `CleanLineDelivers` that none is missing without a fault;
- `PairsAreNoticed` and `UpTo127`, which are about particular polynomials and are
  evaluated.

No module of the project declares a RECURSIVE operator.

## Findings

One violated property is a run (`prov_again`): when WIFI_CONFIG ends provisioning,
`deinit()` gives NimBLE's memory back (`BluetoothService.cpp:814`), and the
controller cannot be initialised again before a restart. A password that is
wrong then leads to BLE_PROVISIONING without BLE. The shipped S3 sends no
WIFI_CONFIG, so the path is only reached by a peer that does.

The others are in the models as exceptions the properties name. By module:

- **`VoiceTurn`** (`outlived`, `raced`). `onBinary` acts on a state it read before the
  watchdog moved (`NetworkManager.cpp:231`): a piece that comes in the moment the
  turn is given up brings it from IDLE to SPEAKING, which the contract in c5
  `StateTypes.hpp:190` does not list and the setter only warns of. A release that
  waits for the drain while the watchdog caps the same recording, and the answer
  begins, sets PROCESSING over an open session (c5 `DeviceProfile.cpp:86-90`): no
  later piece sets SPEAKING again, and a reply of more than 20 s is cut by the limit
  of PROCESSING. START closes the session before the state is LISTENING, and a
  late piece reopens the gate (`GateClosed`). The stamp is written after the lock
  (`NetworkManager.cpp:79`), so after more than 30 s of rest the watchdog may end a
  LISTENING that has just begun.
- **`Motion`**. `cancel_` is cleared after a command is taken
  (`MotionManager.cpp:136`): a STOP posted between the two waits for the sequence.
- **`Downlink`**. A length of 248 to 512 is accepted (`SpiBridge.cpp:191`) though a
  payload has 250 bytes: once misaligned, it is kept for ever. The handshake level
  is sampled before the transaction is armed (`:264`), so the line can be low over
  a full buffer; the payload with the last frame is always armed with it low.
- **`TurnMirror`** (`misled`). A late `startListening` after a newer IDLE leaves the
  microphone open; LISTENING to SPEAKING leaves it on; SPEAKING to PROCESSING
  leaves the speaker on. After 35 s without a turn the S3's watchdog measures from
  the last message (s3 `AppController.cpp:204`) and closes the first one at once.
  SPEAK_DONE names no turn and its handler looks at no state (`crossed`): a wake word
  whose START crosses the SPEAKING status of a reply makes the C5 listen, the S3
  mirrors the reply and plays it out, and its SPEAK_DONE ends the turn that has just
  begun (c5 `DeviceProfile.cpp:352`). The S3's comment says "Echo-safe: if C5 is
  already IDLE this is a no-op there" (s3 `AppController.cpp:280`), and the contract
  has the frame end SPEAKING only (c5 `StateTypes.hpp:195`).
- **`Provisioning`** (`late`, `dropped`, `gone`). A phone that leaves writes
  BLE_PROVISIONING over the state of a connection task that has been released. The
  message that starts BLE is sent once and without waiting (c5
  `AppController.cpp:86`): if the queue is full, the device stays in provisioning
  with BLE off until it is restarted, for nothing repeats it. The staged
  configuration is not reset between links. COMMIT is acknowledged before it is
  written (`:255`). `docs/modules/ble-provisioning.md` says that factory reset keeps
  `ws_url` and `user_id`, which `:649` erases, and that the admin token carries a
  time stamp, which is a nonce; the header says that counters clear on a correct PIN
  only, and they clear at the end of a lock-out too (`:481`).
- **`Connection`** (`late`). The links of a phone write the shared state from
  NimBLE's task (c5 `AppController.cpp:263-269`), and a link that comes or goes when
  the connection task has left provisioning is accepted. The table then refuses the
  task's own steps until it next joins the network: others see provisioning while
  the device is online. `NetworkManager.cpp:460` logs such a refusal as "always a
  bug in the flow or the table". The reason of an earlier disconnect is never
  cleared and is read before association (`NetworkManager.cpp:487`): after a
  password failure a DHCP stall is reported as that and not retried.
- **`AudioRecv`** (`kept`). A stop cannot reset the PCM buffer while AudioRecv
  blocks on it: up to 200 ms of the last reply are heard in the next. A reply
  shorter than the pre-buffer never ends on the S3; the C5's watchdog ends it.
- **`Uplink`** (`split`, `mixed`, `lost`). A backlog of more than 11 frames is cut
  inside one. END can overtake the last batch while another text holds the lock.
  START and END are dropped silently when logs fill the queue. `audio_stop` (c5
  `WsMessageHandler.cpp:245`) and a late SPEAK_DONE (c5 `DeviceProfile.cpp:352`)
  take the turn out of LISTENING online and send no END, so that the server records
  on until the next START. `TurnCut` allows the same to an `onBinary` that read the
  state before the user spoke (`NetworkManager.cpp:231`); the proof of
  `TurnImplemented` shows that the priorities rule it out on one core (`HeardOK`).
  Frames left in the S3's queue go out at the head of the next turn.
- **`Ota`** (`raced`, `stuck`). FAILED is written before the task is gone
  (c5 `OtaManager.cpp:146`), so a retry starts beside it and its end is told over the
  retry's phase. A task that cannot be created leaves DOWNLOADING (`:54`).
  ROLLBACK_FW boots an aborted slot unverified. Progress is sent for every chunk
  (`:138`) and starts at the failed update's value. `sdkconfig.defaults:12` says that
  a new image "self-reverts unless the app confirms health": it does at a reset,
  and an image that runs but never gets online is not reset by anything.
- **`Screen`** (`overtaken`, `torn`). Callbacks run after the lock, so an older state
  can be shown last. A scene set in the middle of a frame can be replaced by the
  end of the one before. The offline scene is hidden by the end of a turn, of a
  picture, or a battery report, though `DisplayManager.cpp:413` wants it to stay.
  An updated mute state is lost when the S3 restarts. SET_EMOTION with `listening` or
  `thinking` shows a turn's face in any state, for the length of a window; commands
  that keep coming keep it there.
- **`UartLink`** (`shifted`). `UartProtocol.hpp:113` claims more of the CRC than it
  gives: flips 127 bytes apart cancel out. A shifted frame passes by chance
  once in 256. A picture can be joined from two where one run of losses is as long
  as a picture, for chunks carry no number.

## What is not modelled

- *Left out within modelled parts*: back-off delays (they pace retries and carry no
  property), `stop()` and `playText()` (with `text_active_`), which nobody calls,
  the wording of messages, joint angles and the IMU, codec and gain, GATT tables,
  JSON and hashes, subscribers for emotion, volume and brightness, a second transmit
  task after a slow disconnect, the log ring; in `Downlink` the IDLE state, in which
  the gate is closed as it is in LISTENING. AUTH_TIMEOUT, DNS_FAIL,
  INTERNET_CHECK_FAIL and TLS_ERROR are never produced by the code.
- *External*: FreeRTOS scheduling, the ESP-IDF WiFi, WebSocket, NimBLE, HTTP and SPI
  drivers, the bootloader with its slots, the server and the phone are modelled
  by what the code relies on.
- *Not modelled*: drawing and its faces, the wake-word network, drivers and
  codecs, the power managers, time and weather sync, the console, the
  simulators and tools. Each runs on one task and hands a value on, or reads a
  register; there is no order of steps in them to get wrong.

**Share of the code.** The map covers about an eighth of the lines, and can
hardly cover more. Of the 36 600 lines that count as implementation, 13 900 draw
scenes and faces and 5 100 are the weights of the wake word. Of the 17 600 that
remain a quarter is mapped. The other three quarters are drivers, codecs, the
display library and audio features (5 000), converters and simulators (1 700),
headers of declarations and pin tables (3 500), and, inside the modelled files,
construction, logging, JSON and the handlers that set a value nobody decides
by. The models do not claim lines they do not translate.

## Plan

Every module with behaviour has a run, and every safety property of a run but
`PlaceIsFound` a theorem, `WholeImage` until bytes are shifted. What could still be
said:

1. `UartLink`: how soon the parser finds its place after a length byte was turned,
   as far as that holds whatever the bytes.
2. `TurnMirror` and `Turn`: that what the C5 does there are moves of `Turn`, so that
   the models of the two chips are joined by a theorem and not by their edges.
3. `Downlink` and `AudioRecv`: that what `Downlink` packs is what `AudioRecv` takes, as
   one stream.
