------------------------------- MODULE Screen -------------------------------
(***************************************************************************)
(* What the S3's display shows.  StateManager's setters take a lock only   *)
(* to change the value; the DisplayManager's callback runs after it, on    *)
(* the task that made the change, and swaps the scene.  The display task   *)
(* draws frames meanwhile, lets held content run out and rotates the idle  *)
(* faces; nothing guards SceneManager between them.                        *)
(*                                                                         *)
(* Variants and drawing are left out, and all windows are HoldFrames long. *)
(* scene_active_ is left out too: it only ever matters together with       *)
(* idle_active_, which every swap clears.  So is text_active_, which keeps *)
(* the display task out of SceneManager: nobody calls playText().          *)
(***************************************************************************)
EXTENDS Naturals

CONSTANT HoldFrames     \* frames in a window, of 5 s or a scene's duration

ASSUME HoldFramesAssumption == HoldFrames \in Nat \ {0}

VARIABLES
    \* StateManager: what the callbacks are told about
    conn, inter, running,
    \* per task, the value its display callback has yet to show
    pending,
    \* per kind of state, did another task's setter cut in before a callback?
    overtaken,
    \* DisplayManager
    booting_, mic_listening_, capturing_,
    \* SceneManager: the category on screen (a connection state stands for its
    \* network scene), whether its window ends, the frames it has been drawn
    \* for, and the idle rotation
    current, holding_, elapsed_ms_, idle_active_,
    \* the display task between reading those fields and acting on them
    frame,
    torn,        \* did the network scene come in between?
    shown_by,    \* was the last explicit swap the connection's?
    boot, cam    \* app_main's and the camera task's next statement

stateVars == <<conn, inter, running>>
tellVars  == <<pending, overtaken>>
dispVars  == <<booting_, mic_listening_, capturing_>>
sceneVars == <<current, holding_, elapsed_ms_, idle_active_, frame, torn,
               shown_by>>
screenVars      == <<stateVars, tellVars, dispVars, sceneVars, boot, cam>>

(* WIFI_CONNECTING stands for every state that is neither end.             *)
Conns  == {"OFFLINE", "WIFI_CONNECTING", "ONLINE"}
Inters == {"IDLE", "LISTENING", "PROCESSING", "SPEAKING"}
Tasks  == {"uart", "ctrl", "audio", "main"}
Kinds  == {"conn", "inter"}
Quiet  == [kind |-> "none", value |-> "none"]
Faces  == {"normal", "listening", "thinking", "emotion", "boot", "scene",
           "camera"}

(* Categories whose variants play once; the others loop.                   *)
PlaysOnce == {"boot", "scene", "camera"}

ScreenTypeOK ==
    /\ conn \in Conns /\ inter \in Inters /\ running \in BOOLEAN
    /\ pending \in [Tasks -> {Quiet}
                        \cup [kind : {"conn"}, value : Conns]
                        \cup [kind : {"inter"}, value : Inters]]
    /\ overtaken \in [Kinds -> BOOLEAN]
    /\ booting_ \in BOOLEAN /\ mic_listening_ \in BOOLEAN
    /\ capturing_ \in BOOLEAN
    /\ current \in Faces \cup (Conns \ {"ONLINE"})
    /\ holding_ \in BOOLEAN /\ idle_active_ \in BOOLEAN
    /\ elapsed_ms_ \in 0..HoldFrames
    /\ frame \in {"rest", "expiring", "rotating"} /\ torn \in BOOLEAN
    /\ shown_by \in {"conn", "other"}
    /\ boot \in {"animation", "start", "done"}
    /\ cam \in {"idle", "sending"}

(* init() shows the power-on scene; the display loop starts first.         *)
ScreenInit ==
    /\ conn = "OFFLINE" /\ inter = "IDLE" /\ running = FALSE
    /\ pending = [t \in Tasks |-> Quiet]
    /\ overtaken = [k \in Kinds |-> FALSE]
    /\ booting_ = TRUE /\ mic_listening_ = FALSE /\ capturing_ = FALSE
    /\ current = "boot" /\ holding_ = TRUE /\ idle_active_ = FALSE
    /\ elapsed_ms_ = 0
    /\ frame = "rest" /\ torn = FALSE /\ shown_by = "other"
    /\ boot = "animation" /\ cam = "idle"

-----------------------------------------------------------------------------
(* SceneManager.                                                           *)

(* Mutated form: sticky content is given a window all the same.            *)
showSceneTimed(category, sticky, who) ==
    /\ current' = category
    /\ holding_' = TRUE /\ elapsed_ms_' = 0
    /\ idle_active_' = FALSE
    /\ torn' = (who = "conn" /\ frame # "rest")
    /\ shown_by' = who

(* showScene and showEmotion: sticky content stays until it is swapped     *)
(* out, the rest has a window, which begins anew.                          *)
showScene(category, sticky, who) ==
    /\ current' = category
    /\ holding_' = ~sticky /\ elapsed_ms_' = 0
    /\ idle_active_' = FALSE
    /\ torn' = (who = "conn" /\ frame # "rest")
    /\ shown_by' = who

Shown == UNCHANGED <<current, holding_, elapsed_ms_, idle_active_, torn,
                     shown_by>>

(* Mutated form: only scenes end, an emotion loops for ever.               *)
onlyScenesEnd == current \in PlaysOnce /\ ~idle_active_

endsOnItsOwn == holding_ \/ (current \in PlaysOnce /\ ~idle_active_)

(* update(): one more frame of content that has a window or plays once.    *)
(* When it has had its time, exitScene() follows a few instructions later. *)
Draw ==
    /\ frame = "rest" /\ endsOnItsOwn
    /\ elapsed_ms_' = elapsed_ms_ + 1
    /\ frame' = IF elapsed_ms_' = HoldFrames THEN "expiring" ELSE "rest"
    /\ UNCHANGED <<current, holding_, idle_active_, torn, shown_by, stateVars,
                   tellVars, dispVars, boot, cam>>

exitScene ==
    /\ frame = "expiring"
    /\ frame' = "rest"
    /\ current' = "normal"
    /\ holding_' = FALSE /\ idle_active_' = TRUE /\ elapsed_ms_' = 0
    /\ UNCHANGED <<torn, shown_by, stateVars, tellVars, dispVars, boot, cam>>

(* tickIdle(): the interval is over; the category is picked, then shown.   *)
Rotate ==
    /\ frame = "rest"
    /\ idle_active_
    /\ frame' = "rotating"
    /\ Shown
    /\ UNCHANGED <<stateVars, tellVars, dispVars, boot, cam>>

tickIdle ==
    /\ frame = "rotating"
    /\ frame' = "rest"
    /\ current' = "emotion" /\ elapsed_ms_' = 0
    /\ UNCHANGED <<holding_, idle_active_, torn, shown_by, stateVars,
                   tellVars, dispVars, boot, cam>>

-----------------------------------------------------------------------------
(* DisplayManager's callbacks.                                             *)

handleConnectivity(s) ==
    IF booting_
      THEN Shown
      ELSE IF s = "ONLINE" THEN showScene("normal", FALSE, "conn")
                           ELSE showScene(s, TRUE, "conn")

(* Mutated form: a turn that ends leaves its face on.                      *)
handleInteractionNoRest(s) ==
    /\ mic_listening_' = (s = "LISTENING")
    /\ IF booting_ \/ s \in {"SPEAKING", "IDLE"}
         THEN Shown
         ELSE showScene(IF s = "LISTENING" THEN "listening" ELSE "thinking",
                        TRUE, "other")

handleInteraction(s) ==
    /\ mic_listening_' = (s = "LISTENING")
    /\ IF booting_ \/ s = "SPEAKING"
         THEN Shown
         ELSE \/ s = "LISTENING"  /\ showScene("listening", TRUE, "other")
              \/ s = "PROCESSING" /\ showScene("thinking", TRUE, "other")
              \/ s = "IDLE"       /\ showScene("normal", FALSE, "other")

(* The callback of the task's last setter.                                 *)
Callback(t) ==
    /\ pending[t] # Quiet
    /\ \/ /\ pending[t].kind = "conn"
          /\ handleConnectivity(pending[t].value)
          /\ UNCHANGED mic_listening_
       \/ /\ pending[t].kind = "inter"
          /\ handleInteraction(pending[t].value)
    /\ pending' = [pending EXCEPT ![t] = Quiet]
    /\ UNCHANGED <<overtaken, stateVars, booting_, capturing_, frame, boot,
                   cam>>

-----------------------------------------------------------------------------
(* StateManager's setters.                                                 *)

(* The callback to come; a setter that finds another task's one of its     *)
(* kind not yet run has overtaken it, or will be overtaken by it.          *)
Tell(t, kind, value) ==
    /\ pending' = [pending EXCEPT ![t] = [kind |-> kind, value |-> value]]
    /\ overtaken' = [overtaken EXCEPT ![kind] =
                         \E u \in Tasks \ {t} : pending[u].kind = kind]

(* app_main starts the UART and the controller's inputs after the boot     *)
(* animation; a task that runs a callback makes no other change.           *)
mayAct(t) == boot # "animation" /\ pending[t] = Quiet

S3setConnectionState(s) ==
    /\ mayAct("uart")
    /\ s # conn
    /\ conn' = s
    /\ Tell("uart", "conn", s)
    /\ UNCHANGED <<inter, running, dispVars, sceneVars, boot, cam>>

(* The status update mirrors the C5's turn.  The controller opens a turn   *)
(* on a button and closes it on its release, from its watchdog or when the *)
(* link is lost; "audio" stands for the wake word (LISTENING), the SPI     *)
(* task (SPEAKING) and the end of playback (IDLE).                         *)
setInteractionState(t, s) ==
    /\ mayAct(t)
    /\ s # inter
    /\ \/ t = "uart"
       \/ t \in {"ctrl", "audio"} /\ s = "LISTENING" /\ conn = "ONLINE"
       \/ t = "ctrl" /\ s = "IDLE" /\ inter \in {"LISTENING", "PROCESSING"}
       \/ t = "audio" /\ s = "SPEAKING" /\ inter = "PROCESSING"
       \/ t = "audio" /\ s = "IDLE" /\ inter = "SPEAKING"
    /\ inter' = s
    /\ Tell(t, "inter", s)
    /\ UNCHANGED <<conn, running, dispVars, sceneVars, boot, cam>>

(* RUNNING, from app_main or from the C5's status, whichever is first:     *)
(* handleSystem shows the connection state it reads.                       *)
setRunning(t) ==
    /\ boot = "start" /\ pending[t] = Quiet
    /\ boot' = IF t = "main" THEN "done" ELSE boot
    /\ IF running
         THEN UNCHANGED <<running, tellVars>>
         ELSE running' = TRUE /\ Tell(t, "conn", conn)
    /\ UNCHANGED <<conn, inter, dispVars, sceneVars, cam>>

(* The boot animation ends: the normal face, then the other modules.       *)
playBootSequence ==
    /\ boot = "animation"
    /\ boot' = "start"
    /\ booting_' = FALSE
    /\ showScene("normal", FALSE, "other")
    /\ UNCHANGED <<frame, stateVars, tellVars, mic_listening_, capturing_,
                   cam>>

-----------------------------------------------------------------------------
(* The other writers of the scene.                                         *)

(* SET_EMOTION and SET_SCENE from the server, with a turn's faces or any   *)
(* other; a battery report, whose faces for CHARGING and CRITICAL stick.   *)
deviceCommand ==
    /\ mayAct("uart")
    /\ \/ \E category \in {"listening", "thinking", "emotion", "scene"} :
              showScene(category, FALSE, "other")
       \/ showScene("emotion", TRUE, "other")
    /\ UNCHANGED <<frame, stateVars, tellVars, dispVars, boot, cam>>

(* cameraCaptureTask: the recording dot and the snap scene, the picture,   *)
(* and the normal face again.                                              *)
captureStart ==
    /\ cam = "idle" /\ boot # "animation"
    /\ cam' = "sending"
    /\ capturing_' = TRUE
    /\ showScene("camera", TRUE, "other")
    /\ UNCHANGED <<frame, stateVars, tellVars, booting_, mic_listening_, boot>>

captureEnd ==
    /\ cam = "sending"
    /\ cam' = "idle"
    /\ capturing_' = FALSE
    /\ showScene("normal", FALSE, "other")
    /\ UNCHANGED <<frame, stateVars, tellVars, booting_, mic_listening_, boot>>

ScreenNext ==
    \/ Draw \/ exitScene \/ Rotate \/ tickIdle
    \/ \E t \in Tasks : Callback(t)
    \/ \E s \in Conns : S3setConnectionState(s)
    \/ \E t \in {"uart", "ctrl", "audio"}, s \in Inters : setInteractionState(t, s)
    \/ \E t \in {"uart", "main"} : setRunning(t)
    \/ playBootSequence \/ deviceCommand \/ captureStart \/ captureEnd

(* The display loop draws at a fixed rate.                                 *)
ScreenFairness ==
    WF_screenVars(Draw) /\ WF_screenVars(exitScene) /\ WF_screenVars(tickIdle)

ScreenSpec     == ScreenInit /\ [][ScreenNext]_screenVars
ScreenFairSpec == ScreenSpec /\ ScreenFairness

-----------------------------------------------------------------------------
Told(kind) == ~overtaken[kind] /\ \A t \in Tasks : pending[t].kind # kind

(* A robot that is not online says so until something else is shown: no    *)
(* frame takes the network scene away by itself (the reason given in       *)
(* handleConnectivity for making it sticky), unless it came mid-frame.     *)
NetworkSceneStays ==
    running /\ Told("conn") /\ conn # "ONLINE" /\ shown_by = "conn" /\ ~torn
        => current = conn /\ ~holding_ /\ ~idle_active_

(* The privacy icon is bright exactly while a turn listens, unless two     *)
(* tasks' callbacks have run in the other order than their setters.        *)
MicShown == Told("inter") => mic_listening_ = (inter = "LISTENING")

(* A turn's face that stays does not outlive the turn; one that the server *)
(* asked for has a window instead.                                         *)
FaceOfTurn ==
    Told("inter") /\ ~holding_
        => /\ current = "listening" => inter \in {"LISTENING", "SPEAKING"}
           /\ current = "thinking" => inter \in {"PROCESSING", "SPEAKING"}

(* What swaps the scene from outside, and gives it a new window.           *)
Swap == \/ playBootSequence \/ deviceCommand \/ captureStart \/ captureEnd
        \/ \E t \in Tasks : Callback(t)

(* Content with a window gives way in the end, wherever between two frames *)
(* it came, unless new content comes again and again.                      *)
WindowEnds == <>[][~Swap]_screenVars => (holding_ ~> ~holding_)

(* The screen shows the turn: the microphone's icon and the turn's faces   *)
(* are those of the state everybody has been told of.                      *)
TurnShown == ScreenTypeOK /\ MicShown /\ FaceOfTurn
=============================================================================
