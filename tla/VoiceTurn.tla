----------------------------- MODULE VoiceTurn ------------------------------
(***************************************************************************)
(* The voice turn on the C5, which owns it: the UART task (START, END and  *)
(* SPEAK_DONE from the S3), the push-to-talk button task, the WebSocket    *)
(* task (TTS audio, audio_stop, session loss) and the watchdog timer all   *)
(* move one shared interaction state.                                      *)
(*                                                                         *)
(* The C5 has one core and fixed priorities: a task's steps interleave     *)
(* with those of the tasks above it, and the watchdog (the esp_timer task) *)
(* runs whole.  setInteractionState is two steps, because the time stamp   *)
(* the watchdog measures from is written by a subscriber after the lock is *)
(* released.  A Tick is one watchdog period; the three limits keep their   *)
(* order in the code (30 s, 20 s, 15 s).                                   *)
(***************************************************************************)
EXTENDS StateTypes

CONSTANTS
    ListenMax, ProcessingTimeout, SpeakingStall,  \* watchdog limits, in ticks
    Buttons,       \* do the boards have push-to-talk buttons?
    MaxTurns,      \* bound: turns the user starts
    MaxReplies,    \* bound: pieces of TTS audio or audio_stop messages
    MaxDrops       \* bound: times the session is lost

ASSUME LimitsAssumption ==
    /\ ListenMax \in Nat /\ ProcessingTimeout \in Nat /\ SpeakingStall \in Nat
    /\ 0 < SpeakingStall /\ SpeakingStall < ProcessingTimeout
    /\ ProcessingTimeout < ListenMax
ASSUME BoundsAssumption ==
    /\ Buttons \in BOOLEAN
    /\ MaxTurns \in Nat /\ MaxReplies \in Nat /\ MaxDrops \in Nat

VARIABLES
    inter_state, inter_source,   \* StateManager
    since,                       \* ticks since inter_state_since_ms_
    since_downlink,              \* ticks since last_downlink_ms_
    speaking_session_active, ws_connected,        \* NetworkManager
    online,                      \* the connection state is ONLINE
    pc,                          \* where each task is in its handler
    wd_due,                      \* the watchdog timer has yet to run
    s3,                          \* what the S3 plays: "silent", "playing", or
                                 \* "done" with SPEAK_DONE on its way
    lasted,                      \* history: ticks since inter_state was set
    asked,                       \* history: END reached the socket "never", in
                                 \* an "earlier" turn or in "this_turn"
    gate,                        \* history: the downlink gate was "kept", a
                                 \* race "raced" it, or it "leaked"
    outlived,                    \* history: a session was opened while, or a
                                 \* state set after, somebody else's handler
                                 \* was about to end or to change the reply
    turns, replies, drops        \* bounds

smVars  == <<inter_state, inter_source, since, lasted>>
netVars == <<since_downlink, speaking_session_active, ws_connected, online>>
envVars == <<s3, turns, replies, drops>>
vars    == <<smVars, netVars, envVars, pc, wd_due, asked, gate, outlived>>

Tasks     == {"uart", "button", "ws"}
Releasers == {"uart", "button"}
Sources == {"BUTTON", "WAKEWORD", "SERVER_COMMAND", "SYSTEM"}
Labels  == {"idle", "start_send", "start_set", "end_drain", "end_set",
            "idle_set", "reply_gate", "reply_set", "reply_stamp",
            "reply_forward", "stamp"}
Ages    == 0..(ListenMax + 2)

FlagsOK ==
    /\ speaking_session_active \in BOOLEAN /\ ws_connected \in BOOLEAN
    /\ online \in BOOLEAN /\ wd_due \in BOOLEAN /\ outlived \in BOOLEAN
RangesOK ==
    /\ inter_state \in InteractionStates \ {"TRIGGERED", "CANCELLING"}
    /\ inter_source \in Sources
    /\ since \in Ages /\ lasted \in Ages /\ since_downlink \in Ages
    /\ asked \in {"never", "earlier", "this_turn"}
    /\ pc \in [Tasks -> Labels]
    /\ s3 \in {"silent", "playing", "done"}
    /\ gate \in {"kept", "raced", "leaked"}
    /\ turns \in 0..MaxTurns /\ replies \in 0..MaxReplies
    /\ drops \in 0..MaxDrops
(* The state stays in range, and a turn never enters the two states of the *)
(* enumeration the C5 has no handler for: nothing would leave them.        *)
TypeOK == FlagsOK /\ RangesOK

(* The robot has been idle for long and is online.                         *)
Init ==
    /\ inter_state = "IDLE" /\ inter_source = "SYSTEM"
    /\ since = ListenMax + 2 /\ lasted = since /\ since_downlink = since
    /\ speaking_session_active = FALSE
    /\ ws_connected = TRUE /\ online = TRUE
    /\ pc = [t \in Tasks |-> "idle"]
    /\ wd_due = FALSE
    /\ s3 = "silent"
    /\ asked = "never" /\ gate = "kept" /\ outlived = FALSE
    /\ turns = 0 /\ replies = 0 /\ drops = 0

-----------------------------------------------------------------------------
(* One core: the two lower tasks (priority 3) run while ws (5) is idle.    *)
mayRun(t) == t # "ws" => pc["ws"] = "idle"

goto(t, l) == pc' = [pc EXCEPT ![t] = l]

(* setInteractionState under the lock: nothing happens, and no subscriber  *)
(* is called, if neither the state nor its source changes.  The transition *)
(* table only warns.  after is where the task goes on.                     *)
setInteractionState(t, to, src, stamp, after) ==
    IF inter_state = to /\ inter_source = src
      THEN UNCHANGED smVars /\ goto(t, after)
      ELSE /\ inter_state' = to /\ inter_source' = src /\ lasted' = 0
           /\ UNCHANGED since
           /\ goto(t, stamp)

(* The subscriber of NetworkManager::init, called without the lock.        *)
Stamp(t) ==
    /\ mayRun(t)
    /\ pc[t] \in {"stamp", "reply_stamp"}
    /\ since' = 0
    /\ goto(t, IF pc[t] = "stamp" THEN "idle" ELSE "reply_forward")
    /\ UNCHANGED <<inter_state, inter_source, lasted, netVars, envVars,
                   wd_due, asked, gate, outlived>>

-----------------------------------------------------------------------------
(* triggerListenStart, on the UART or the button task.                     *)

(* Who ends the reply makes the gate good again.                           *)
endReply ==
    /\ speaking_session_active' = FALSE /\ outlived' = FALSE
    /\ gate' = IF gate = "raced" THEN "kept" ELSE gate

(* Mutated form: START forgets the reply it cuts off.                      *)
StartCheckNoEnd(t) ==
    /\ mayRun(t) /\ pc[t] = "idle"
    /\ \/ t = "uart" /\ s3 # "done"
       \/ t = "button" /\ Buttons
    /\ turns < MaxTurns /\ turns' = turns + 1
    /\ s3' = IF t = "uart" THEN "silent" ELSE s3
    /\ \/ online /\ goto(t, "start_send")
       \/ ~online /\ UNCHANGED pc
    /\ UNCHANGED <<smVars, netVars, replies, drops, wd_due, asked, gate,
                   outlived>>

(* The S3 sends one START per wake word, after anything it sent before.    *)
StartCheck(t) ==
    /\ mayRun(t) /\ pc[t] = "idle"
    /\ \/ t = "uart" /\ s3 # "done"
       \/ t = "button" /\ Buttons
    /\ turns < MaxTurns /\ turns' = turns + 1
    /\ s3' = IF t = "uart" THEN "silent" ELSE s3
    /\ \/ online /\ endReply /\ goto(t, "start_send")
       \/ /\ ~online
          /\ UNCHANGED <<speaking_session_active, gate, outlived, pc>>
    /\ UNCHANGED <<smVars, since_downlink, ws_connected, online, replies,
                   drops, wd_due, asked>>

(* sendText("START"): dropped when the socket is down.                     *)
StartSend(t) ==
    /\ mayRun(t) /\ pc[t] = "start_send"
    /\ asked' = IF ws_connected /\ asked = "this_turn" THEN "earlier"
                                                      ELSE asked
    /\ goto(t, "start_set")
    /\ UNCHANGED <<smVars, netVars, envVars, wd_due, gate, outlived>>

StartSet(t) ==
    /\ mayRun(t) /\ pc[t] = "start_set"
    /\ setInteractionState(t, "LISTENING",
                           IF t = "uart" THEN "WAKEWORD" ELSE "BUTTON",
                           "stamp", "idle")
    /\ UNCHANGED <<netVars, envVars, wd_due, asked, gate, outlived>>

(* Mutated form: a release ends whatever the turn is at.                   *)
EndCheckAnyState(t) ==
    /\ mayRun(t) /\ pc[t] = "idle"
    /\ t \in {"uart", "button"} /\ Buttons
    /\ goto(t, "end_drain")
    /\ UNCHANGED <<smVars, netVars, envVars, wd_due, asked, gate, outlived>>

(* triggerListenEnd: only a button is ever released.                       *)
EndCheck(t) ==
    /\ mayRun(t) /\ pc[t] = "idle"
    /\ t \in {"uart", "button"} /\ Buttons
    /\ inter_state = "LISTENING"
    /\ goto(t, "end_drain")
    /\ UNCHANGED <<smVars, netVars, envVars, wd_due, asked, gate, outlived>>

(* waitTxDrain may take a second; then END, if the socket is up.           *)
EndSend(t) ==
    /\ mayRun(t) /\ pc[t] = "end_drain"
    /\ asked' = IF ws_connected THEN "this_turn" ELSE asked
    /\ goto(t, "end_set")
    /\ UNCHANGED <<smVars, netVars, envVars, wd_due, gate, outlived>>

EndSet(t) ==
    /\ mayRun(t) /\ pc[t] = "end_set"
    /\ setInteractionState(t, "PROCESSING", "SYSTEM", "stamp", "idle")
    /\ outlived' = (outlived \/ speaking_session_active)
    /\ UNCHANGED <<netVars, envVars, wd_due, asked, gate>>

(* SPEAK_DONE from the S3: the state is not looked at.                     *)
SpeakDone ==
    /\ mayRun("uart") /\ pc["uart"] = "idle"
    /\ s3 = "done"
    /\ s3' = "silent"
    /\ endReply
    /\ goto("uart", "idle_set")
    /\ UNCHANGED <<smVars, since_downlink, ws_connected, online, turns,
                   replies, drops, wd_due, asked>>

(* The turn is set to IDLE, by the UART task or by the WebSocket task.     *)
IdleSet(t) ==
    /\ mayRun(t) /\ pc[t] = "idle_set"
    /\ setInteractionState(t, "IDLE",
                           IF t = "ws" THEN "SERVER_COMMAND" ELSE "SYSTEM",
                           "stamp", "idle")
    /\ UNCHANGED <<netVars, envVars, wd_due, asked, gate, outlived>>

-----------------------------------------------------------------------------
(* The WebSocket task.                                                     *)

(* Audio comes once the server was asked, and may still be on its way when *)
(* the user starts the next turn.  onBinary reads the session and the      *)
(* state; the gate drops audio outside a reply.                            *)
Reply ==
    /\ pc["ws"] = "idle" /\ ws_connected /\ asked # "never"
    /\ replies < MaxReplies /\ replies' = replies + 1
    /\ since_downlink' = 0
    /\ goto("ws", IF speaking_session_active THEN "reply_forward"
                  ELSE IF inter_state \in {"PROCESSING", "SPEAKING"}
                         THEN "reply_gate" ELSE "idle")
    /\ UNCHANGED <<smVars, speaking_session_active, ws_connected, online, s3,
                   turns, drops, wd_due, asked, gate, outlived>>

(* Past the end of a reply, but not yet at the state that goes with it: a  *)
(* session opened meanwhile outlives the reply.                            *)
ending == {"start_send", "start_set", "idle_set"}

ReplyOpensSession ==
    /\ pc["ws"] = "reply_gate"
    /\ speaking_session_active' = TRUE
    /\ outlived' = \E t \in Tasks : pc[t] \in ending
    /\ gate' = IF gate = "kept" /\ \E t \in Tasks : pc[t] \in ending
                 THEN "raced" ELSE gate
    /\ goto("ws", "reply_set")
    /\ UNCHANGED <<smVars, since_downlink, ws_connected, online, envVars,
                   wd_due, asked>>

ReplySet ==
    /\ pc["ws"] = "reply_set"
    /\ setInteractionState("ws", "SPEAKING", "SERVER_COMMAND",
                           "reply_stamp", "reply_forward")
    /\ UNCHANGED <<netVars, envVars, wd_due, asked, gate, outlived>>

(* To the SPI bridge, which may be full; the S3 plays it unless the state  *)
(* it mirrors, which may lag, says otherwise.                              *)
ReplyForward ==
    /\ pc["ws"] = "reply_forward"
    /\ goto("ws", "idle")
    /\ \/ /\ gate' = IF inter_state \notin {"PROCESSING", "SPEAKING"}
                         /\ gate = "kept" THEN "leaked" ELSE gate
          /\ s3' \in IF s3 = "done" THEN {s3} ELSE {s3, "playing"}
       \/ UNCHANGED <<gate, s3>>
    /\ UNCHANGED <<smVars, netVars, turns, replies, drops, wd_due, asked,
                   outlived>>

(* Mutated form: audio_stop leaves the session to whoever comes next.      *)
AudioStopKeepsSession ==
    /\ pc["ws"] = "idle" /\ ws_connected
    /\ replies < MaxReplies /\ replies' = replies + 1
    /\ goto("ws", "idle_set")
    /\ UNCHANGED <<smVars, netVars, s3, turns, drops, wd_due, asked, gate,
                   outlived>>

(* audio_stop from the server.                                             *)
AudioStop ==
    /\ pc["ws"] = "idle" /\ ws_connected
    /\ replies < MaxReplies /\ replies' = replies + 1
    /\ endReply
    /\ goto("ws", "idle_set")
    /\ UNCHANGED <<smVars, since_downlink, ws_connected, online, s3, turns,
                   drops, wd_due, asked>>

(* onStateChange(false): the turn is only reset if a session was active.   *)
WsDropped ==
    /\ pc["ws"] = "idle" /\ ws_connected
    /\ drops < MaxDrops /\ drops' = drops + 1
    /\ ws_connected' = FALSE
    /\ endReply
    /\ goto("ws", IF speaking_session_active THEN "idle_set" ELSE "idle")
    /\ UNCHANGED <<smVars, since_downlink, online, s3, turns, replies, wd_due,
                   asked>>

(* The connection task notices, and later brings the session back.         *)
ConnectionMoves ==
    /\ pc["ws"] = "idle"
    /\ \/ ~ws_connected /\ online /\ online' = FALSE /\ UNCHANGED ws_connected
       \/ ~ws_connected /\ ~online /\ ws_connected' = TRUE /\ UNCHANGED online
       \/ ws_connected /\ ~online /\ online' = TRUE /\ UNCHANGED ws_connected
    /\ UNCHANGED <<smVars, since_downlink, speaking_session_active, envVars,
                   pc, wd_due, asked, gate, outlived>>

-----------------------------------------------------------------------------
(* checkInteraction, once per period, above every other task.              *)
watchdogSets(to) ==
    inter_state' = to /\ inter_source' = "SYSTEM" /\ since' = 0 /\ lasted' = 0

(* Mutated forms: the wrong limit; a dead stream only ends a session.      *)
waitedListenMax == inter_state = "PROCESSING" /\ since > ListenMax
sessionDied ==
    /\ inter_state = "SPEAKING" /\ since > SpeakingStall
    /\ since_downlink > SpeakingStall /\ speaking_session_active

listenedTooLong  == inter_state = "LISTENING" /\ since > ListenMax
waitedTooLong    == inter_state = "PROCESSING" /\ since > ProcessingTimeout
streamDied       == /\ inter_state = "SPEAKING" /\ since > SpeakingStall
                    /\ since_downlink > SpeakingStall

Watchdog ==
    /\ wd_due /\ wd_due' = FALSE
    /\ \/ /\ listenedTooLong
          /\ asked' = IF ws_connected THEN "this_turn" ELSE asked
          /\ watchdogSets("PROCESSING")
          /\ UNCHANGED <<speaking_session_active, gate, outlived>>
       \/ /\ waitedTooLong \/ streamDied
          /\ speaking_session_active' = FALSE /\ outlived' = FALSE
          /\ gate' = IF gate = "leaked" THEN gate
                     ELSE IF pc["ws"] = "idle" THEN "kept" ELSE "raced"
          /\ watchdogSets("IDLE")
          /\ UNCHANGED asked
       \/ /\ ~listenedTooLong /\ ~waitedTooLong /\ ~streamDied
          /\ UNCHANGED <<asked, speaking_session_active, gate, outlived,
                         smVars>>
    /\ UNCHANGED <<since_downlink, ws_connected, online, envVars, pc>>

(* A period passes.  Handlers take no time, but for the drain of an END.   *)
older(n) == IF n = ListenMax + 2 THEN n ELSE n + 1

Tick ==
    /\ ~wd_due /\ wd_due' = TRUE
    /\ \A t \in Tasks : pc[t] \in {"idle", "end_drain"}
    /\ since' = older(since) /\ lasted' = older(lasted)
    /\ since_downlink' = older(since_downlink)
    /\ UNCHANGED <<inter_state, inter_source, speaking_session_active,
                   ws_connected, online, envVars, pc, asked, gate, outlived>>

-----------------------------------------------------------------------------
(* The S3: it reports the end of playback, unless a state it mirrors from  *)
(* the C5 silenced it first.                                               *)
S3Drains ==
    /\ s3 = "playing" /\ s3' = "done"
    /\ UNCHANGED <<smVars, netVars, turns, replies, drops, pc, wd_due,
                   asked, gate, outlived>>

S3Silenced ==
    /\ s3 = "playing" /\ inter_state \notin {"SPEAKING", "PROCESSING"}
    /\ s3' = "silent"
    /\ UNCHANGED <<smVars, netVars, turns, replies, drops, pc, wd_due,
                   asked, gate, outlived>>

-----------------------------------------------------------------------------
TriggerTask(t) ==
    \/ StartCheck(t) \/ StartSend(t) \/ StartSet(t)
    \/ EndCheck(t) \/ EndSend(t) \/ EndSet(t) \/ IdleSet(t) \/ Stamp(t)

WsTask ==
    \/ Reply \/ ReplyOpensSession \/ ReplySet \/ ReplyForward
    \/ AudioStop \/ WsDropped \/ IdleSet("ws") \/ Stamp("ws")

Next ==
    \/ \E t \in {"uart", "button"} : TriggerTask(t)
    \/ SpeakDone \/ WsTask \/ ConnectionMoves \/ Watchdog \/ Tick
    \/ S3Drains \/ S3Silenced

(* A task that is in a handler goes on, the timer fires and time passes.   *)
(* Nothing obliges the user, the server or the S3 to do anything.          *)
Fairness ==
    /\ \A t \in {"uart", "button"} :
           WF_vars(pc[t] # "idle" /\ TriggerTask(t))
    /\ WF_vars(pc["ws"] # "idle" /\ WsTask)
    /\ WF_vars(Watchdog) /\ WF_vars(Tick)

Spec     == Init /\ [][Next]_vars
FairSpec == Spec /\ Fairness

-----------------------------------------------------------------------------
(* No state outlives its limit by more than the period the watchdog needs  *)
(* to notice: the microphone above all is never left open.  Whoever moved  *)
(* the state last, its time stamp is not lost.                             *)
AgesBounded ==
    /\ inter_state = "LISTENING" => lasted <= ListenMax + 1
    /\ inter_state = "PROCESSING" => lasted <= ProcessingTimeout + 1
    /\ inter_state = "SPEAKING"
           => lasted <= SpeakingStall + 1 \/ since_downlink <= SpeakingStall + 1

(* "A turn always ends" (docs/modules/state-machine.md): when the user and *)
(* the server fall silent, whatever they did before, the turn reaches IDLE *)
(* with nobody's help but the watchdog's.                                  *)
TurnEnds == []<>(inter_state = "IDLE")

(* "The downlink gate only accepts TTS while PROCESSING/SPEAKING".  But    *)
(* for one race: a piece that comes when a handler has ended the reply but *)
(* not yet set the state opens the gate until the next reply is ended.     *)
GateClosed == gate # "leaked"

(* Speech that is being played is a turn that speaks: whoever takes the    *)
(* turn out of SPEAKING has closed the session, or audio would pass the    *)
(* gate unasked and the watchdog time the wrong silence.  A session may    *)
(* only be of another state when it was opened behind a handler's back, or *)
(* when a release that had waited for the drain sets PROCESSING over it    *)
(* (onBinary, triggerListenEnd).                                           *)
ReplySpeaks ==
    speaking_session_active /\ pc["ws"] # "reply_set"
        => inter_state = "SPEAKING" \/ outlived

(* A piece of the answer passed the gate, but is not yet heard as SPEAKING;*)
(* who has seen LISTENING and is about to end it.                          *)
heard    == pc["ws"] \in {"reply_gate", "reply_set"}
released == {t \in Releasers : pc[t] \in {"end_drain", "end_set"}}

(* The two halves of setInteractionState, the races between the tasks and  *)
(* the timer that runs over them cannot be told from a turn that is set at *)
(* once, follows its contract and has its limits kept to the period, but   *)
(* for a handler that waits between its look at the state and its set.     *)
T == INSTANCE Turn WITH
         state <- inter_state, age <- lasted, quiet <- since_downlink,
         heard <- heard, released <- released, Old <- ListenMax + 2
ImplementsTurn == T!Spec
=============================================================================
