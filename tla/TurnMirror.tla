----------------------------- MODULE TurnMirror -----------------------------
(***************************************************************************)
(* One voice turn on two chips.  The C5 owns it; the S3, which has the     *)
(* microphone and the speaker, mirrors it from the status frames of the    *)
(* UART and answers with START and SPEAK_DONE.  The S3 moves its copy on   *)
(* its own, too: wake word, first audio, end of playback, its watchdog,    *)
(* loss of the connection.                                                 *)
(*                                                                         *)
(* On the S3 a change of state is several steps: the handler reads the     *)
(* state, StateManager sets it under its lock, and then, on the same task  *)
(* and without the lock, calls AudioManager and posts to the controller's  *)
(* queue.  The tasks run on two cores and a callback may sleep while the   *)
(* speaker drains, so their steps interleave freely.                       *)
(*                                                                         *)
(* The C5's side is what the S3 can count on, not VoiceTurn once more: its *)
(* turn may move to any state at any time, and it comes back to IDLE.      *)
(***************************************************************************)
EXTENDS StateTypes, Integers, Sequences

CONSTANTS
    StatusDepth,  \* bound: messages in the C5's controller queue (16)
    Depth,        \* bound: messages in the S3's controller queue (16)
    Line,         \* bound: frames on the wire, each way
    MaxWakes,     \* bound: wake words
    MaxUpsets     \* bound: frames lost, resets, losses of the connection,
                  \* the C5 falling silent, and moves of its turn other than
                  \* on to the next state or back to IDLE

ASSUME MirrorBounds ==
    /\ StatusDepth \in Nat \ {0} /\ Depth \in Nat \ {0}
    /\ Line \in Nat \ {0} /\ MaxWakes \in Nat /\ MaxUpsets \in Nat

VARIABLES
    c5, c5_online,       \* StateManager of the C5
    silent,              \* the C5 has died without a word, or the wire has
    down,              \* the queue of the C5's controller and the wire to the
                       \* S3: one FIFO
    up,                \* the wire to the C5
    audio,             \* audio is on its way through the SPI bridge
    s3, s3_src, s3_online,                       \* StateManager of the S3
    task,              \* per task: what it is about to do
    queue, taken,      \* AppController's queue, and the message it is at
    prev_speaking,     \* prev_inter_ is SPEAKING
    aged,              \* inter_since_us_ is older than the watchdog's cap
    listening, speaking,                       \* AudioManager
    misled,            \* history: AudioManager last heard of a state that was
                       \* no longer the current one, or of one it cannot act on
    owed,              \* history: wake words less STARTs sent
    crossed,           \* history: the C5 went on to LISTENING or PROCESSING
                       \* while something was left of a reply
    wakes, upsets

c5Vars   == <<c5, c5_online, silent, crossed>>
wireVars == <<down, up, audio>>
smVars   == <<s3, s3_src>>
ctrlVars == <<queue, taken, prev_speaking, aged>>
amVars   == <<listening, speaking, misled>>
counters == <<wakes, owed, upsets>>
s3Vars   == <<smVars, s3_online, task, ctrlVars, amVars>>
vars     == <<c5Vars, wireVars, s3Vars, counters>>

Turns    == {"IDLE", "LISTENING", "PROCESSING", "SPEAKING"}
Sources  == {"WAKEWORD", "SERVER_COMMAND", "SYSTEM", "UNKNOWN"}
S3Tasks  == {"uart", "spi", "ctrl", "wake", "recv"}
Status    == [inter : Turns] \union [online : BOOLEAN]
            \union [inter : Turns, online : BOOLEAN]
Message   == [inter : Turns, src : Sources] \union [online : BOOLEAN]
Work      == [at : {"set", "tell"}, st : Turns, src : Sources]
Resting   == [at |-> "rest"]
None      == [at |-> "none"]

TypeOK ==
    /\ c5 \in Turns
    /\ down \in Seq(Status) /\ Len(down) <= StatusDepth
    /\ up \in Seq({"START", "SPEAK_DONE"}) /\ Len(up) <= Line
    /\ {silent, c5_online, audio, s3_online, aged, prev_speaking,
         listening, speaking, misled, crossed}
           \subseteq BOOLEAN
    /\ s3 \in Turns /\ s3_src \in Sources
    /\ task \in [S3Tasks -> Work \union {Resting}]
    /\ queue \in Seq(Message) /\ Len(queue) <= Depth
    /\ taken \in Message \union {None}

(* Both have been idle and online for long.                                *)
Init ==
    /\ c5 = "IDLE" /\ c5_online = TRUE
    /\ silent = FALSE
    /\ down = <<>> /\ up = <<>> /\ audio = FALSE
    /\ s3 = "IDLE" /\ s3_src = "UNKNOWN" /\ s3_online = TRUE
    /\ task = [t \in S3Tasks |-> Resting]
    /\ queue = <<>> /\ taken = None /\ prev_speaking = FALSE
    /\ aged = TRUE
    /\ listening = FALSE /\ speaking = FALSE
    /\ misled = FALSE /\ crossed = FALSE
    /\ wakes = 0 /\ owed = 0 /\ upsets = 0

upset == upsets < MaxUpsets /\ upsets' = upsets + 1

(* xQueueSend with no wait: a full queue loses the message.                *)
posted(q, depth, m) == IF Len(q) < depth THEN Append(q, m) ELSE q

-----------------------------------------------------------------------------
(* The S3's tasks rest, or sleep in a callback while the speaker drains.   *)
(* Any of their other steps is short beside a message between the chips.   *)
resting(t) == task[t] = Resting
drains(t)  == /\ task[t].at = "tell" /\ speaking
              /\ task[t].st \in {"IDLE", "LISTENING"}
quiet == \A t \in S3Tasks : resting(t)
calm  == \A t \in S3Tasks : resting(t) \/ drains(t)

-----------------------------------------------------------------------------
(* What is left of a reply between the chips: audio, the status, the S3's  *)
(* copy of the turn on its way through the tasks and the controller's      *)
(* queue, the SPEAK_DONE.                                                  *)
Speaks(m)  == "inter" \in DOMAIN m /\ m.inter = "SPEAKING"
Spoken(q)  == \E i \in DOMAIN q : Speaks(q[i])
Sent(x)    == \E i \in DOMAIN up : up[i] = x
TaskSpeaks == \E t \in S3Tasks : ~resting(t) /\ task[t].st = "SPEAKING"

ReplyTraces ==
    \/ audio \/ prev_speaking \/ s3 = "SPEAKING" \/ Speaks(taken)
    \/ Spoken(down) \/ Spoken(queue) \/ TaskSpeaks \/ Sent("SPEAK_DONE")

-----------------------------------------------------------------------------
(* The C5.                                                                 *)

C5Sets(to) ==
    /\ c5' = to
    /\ crossed' = (to \in {"LISTENING", "PROCESSING"} /\ ReplyTraces)
    /\ down' = IF c5 = to THEN down ELSE posted(down, StatusDepth, [inter |-> to])

(* Server, button, watchdog and race: any move (see VoiceTurn).            *)
C5Moves ==
    /\ ~silent /\ calm
    /\ \E to \in Turns \ {c5, "IDLE"} :
           /\ C5Sets(to)
           /\ IF <<c5, to>> \in {<<"LISTENING", "PROCESSING">>,
                                <<"PROCESSING", "SPEAKING">>}
                THEN UNCHANGED upsets ELSE upset
    /\ UNCHANGED <<c5_online, silent, up, audio, s3Vars, wakes, owed>>

(* The turn ends; the C5's watchdog sees to it (VoiceTurn, TurnEnds).      *)
C5Ends ==
    /\ ~silent /\ calm /\ c5 # "IDLE" /\ C5Sets("IDLE")
    /\ UNCHANGED <<c5_online, silent, up, audio, s3Vars, counters>>

(* TTS audio goes to the SPI bridge.                                       *)
C5Forwards ==
    /\ ~silent /\ calm /\ c5 = "SPEAKING" /\ ~audio /\ audio' = TRUE
    /\ UNCHANGED <<c5Vars, down, up, s3Vars, counters>>

C5ConnMoves ==
    /\ ~silent /\ calm
    /\ c5_online' = ~c5_online
    /\ c5_online => upset
    /\ ~c5_online => UNCHANGED upsets
    /\ down' = posted(down, StatusDepth, [online |-> c5_online'])
    /\ UNCHANGED <<c5, silent, crossed, up, audio, s3Vars, wakes, owed>>

(* Mutated form: statuses only follow changes.                             *)
NoHeartbeat == down = <<>> /\ UNCHANGED vars

(* processQueue: three seconds without a message, a heartbeat.             *)
Heartbeat ==
    /\ ~silent /\ calm /\ down = <<>>
    /\ down' = <<[inter |-> c5, online |-> c5_online]>>
    /\ UNCHANGED <<c5Vars, up, audio, s3Vars, counters>>

(* The UART task: START asks for a turn, which the C5 refuses when it is   *)
(* not online; SPEAK_DONE ends whatever turn there is.                     *)
C5Receives ==
    /\ calm /\ up # <<>> /\ up' = Tail(up)
    /\ \/ /\ ~silent /\ Head(up) = "START" /\ c5_online
          /\ C5Sets("LISTENING")
       \/ /\ ~silent /\ Head(up) = "SPEAK_DONE"
          /\ C5Sets("IDLE")
       \/ /\ silent \/ (Head(up) = "START" /\ ~c5_online)
          /\ UNCHANGED <<c5, crossed, down>>
    /\ UNCHANGED <<c5_online, silent, audio, s3Vars, counters>>

-----------------------------------------------------------------------------
(* What goes wrong.                                                        *)

LineNoise ==
    /\ calm /\ upset
    /\ \/ up # <<>> /\ up' = Tail(up) /\ UNCHANGED down
       \/ down # <<>> /\ down' = Tail(down) /\ UNCHANGED up
    /\ UNCHANGED <<c5Vars, audio, s3Vars, wakes, owed>>

C5Resets ==
    /\ ~silent /\ calm /\ upset
    /\ c5' = "IDLE" /\ c5_online' = FALSE /\ crossed' = FALSE
    /\ down' = <<>> /\ up' = <<>> /\ audio' = FALSE
    /\ UNCHANGED <<silent, s3Vars, wakes, owed>>

C5FallsSilent ==
    /\ ~silent /\ calm /\ upset /\ silent' = TRUE
    /\ UNCHANGED <<c5, c5_online, crossed, wireVars, s3Vars, wakes, owed>>

(* main() and start(): the tasks come up resting.                          *)
S3Resets ==
    /\ calm /\ upset
    /\ s3' = "IDLE" /\ s3_src' = "UNKNOWN" /\ s3_online' = FALSE
    /\ task' = [t \in S3Tasks |-> Resting]
    /\ queue' = <<>> /\ taken' = None /\ prev_speaking' = FALSE
    /\ aged' = FALSE
    /\ listening' = FALSE /\ speaking' = FALSE /\ misled' = FALSE
    /\ down' = <<>> /\ up' = <<>> /\ audio' = FALSE
    /\ owed' = 0
    /\ UNCHANGED <<c5Vars, wakes>>

-----------------------------------------------------------------------------
(* The S3's StateManager.  On a core a task runs when those above it rest, *)
(* sleep while the speaker drains, or wait for room on the wire.           *)
above(t) == CASE t = "uart" -> {"spi", "ctrl"} [] t = "ctrl" -> {"spi"}
              [] t = "recv" -> {"wake"} [] OTHER -> {}
waits == taken # None /\ Len(up) >= Line
mayRun(t) ==
    \A u \in above(t) : \/ resting(u) /\ (u = "ctrl" => taken = None \/ waits)
                        \/ drains(u)

willSet(t, st, src) ==
    task' = [task EXCEPT ![t] = [at |-> "set", st |-> st, src |-> src]]

Set(t) ==
    /\ mayRun(t) /\ task[t].at = "set"
    /\ LET w == task[t]
       IN IF s3 = w.st /\ s3_src = w.src
            THEN task' = [task EXCEPT ![t] = Resting] /\ UNCHANGED smVars
            ELSE /\ s3' = w.st /\ s3_src' = w.src
                 /\ task' = [task EXCEPT ![t].at = "tell"]
    /\ UNCHANGED <<c5Vars, wireVars, s3_online, ctrlVars, amVars, counters>>

(* Mutated form: PROCESSING does not pause the microphone.                 *)
listensOn(st) == st = "LISTENING" \/ (st # "IDLE" /\ listening)
listens(st)   == st = "LISTENING" \/ (st = "SPEAKING" /\ listening)

(* The subscribers, in their order: AudioManager::handleInteractionState,  *)
(* which may drain first, and the post to the controller.                  *)
Tell(t) ==
    /\ mayRun(t) /\ task[t].at = "tell"
    /\ LET st == task[t].st
       IN /\ listening' = listens(st)
          /\ speaking' = \/ st = "SPEAKING"
                         \/ st = "PROCESSING" /\ speaking
                         \/ st = "LISTENING" /\ listening /\ speaking
          /\ misled' = \/ st # s3
                       \/ misled /\ st # "IDLE"
                       \/ st = "SPEAKING" /\ listening
                       \/ st = "PROCESSING" /\ speaking
          /\ queue' = posted(queue, Depth, [inter |-> st, src |-> task[t].src])
    /\ task' = [task EXCEPT ![t] = Resting]
    /\ UNCHANGED <<c5Vars, wireVars, smVars, s3_online, taken, prev_speaking, aged,
                   counters>>

-----------------------------------------------------------------------------
(* The S3's UART task: the connection first, then the turn, decided on the *)
(* state as it is now and set later.                                       *)
mirrored(new, cur) ==
    /\ new # cur
    /\ ~(new = "PROCESSING" /\ cur = "SPEAKING")

status(m) ==
    [inter  |-> IF "inter" \in DOMAIN m THEN m.inter ELSE c5,
     online |-> IF "online" \in DOMAIN m THEN m.online ELSE c5_online]

mirrors(to) == willSet("uart", to, "UNKNOWN")

StatusUpdate ==
    /\ mayRun("uart") /\ resting("uart") /\ down # <<>> /\ down' = Tail(down)
    /\ LET m == status(Head(down))
       IN /\ s3_online' = m.online
          /\ queue' = IF m.online = s3_online
                        THEN queue ELSE posted(queue, Depth, [online |-> m.online])
          /\ IF mirrored(m.inter, s3) THEN mirrors(m.inter) ELSE UNCHANGED task
          /\ speaking' = (speaking /\ ~(m.inter = "LISTENING" /\ s3 = "SPEAKING"))
    /\ UNCHANGED <<c5Vars, up, audio, smVars, taken, prev_speaking, aged, listening,
                   misled, counters>>

(* onAudioDownlink: only PROCESSING becomes SPEAKING.                      *)
AudioDownlink ==
    /\ resting("spi") /\ audio /\ audio' = FALSE
    /\ IF s3 = "PROCESSING" THEN willSet("spi", "SPEAKING", "SERVER_COMMAND")
                            ELSE UNCHANGED task
    /\ UNCHANGED <<c5Vars, down, up, smVars, s3_online, ctrlVars, amVars,
                   counters>>

(* The detector is fed while the speaker is silent.                        *)
WakeWord ==
    /\ resting("wake") /\ ~speaking
    /\ wakes < MaxWakes /\ wakes' = wakes + 1 /\ owed' = owed + 1
    /\ s3_online /\ s3 # "LISTENING"
    /\ willSet("wake", "LISTENING", "WAKEWORD")
    /\ UNCHANGED <<c5Vars, wireVars, smVars, s3_online, ctrlVars, amVars,
                   upsets>>

(* audioRecvLoop: nothing to play for 5 s after the last frame.            *)
PlaybackEnds ==
    /\ mayRun("recv") /\ resting("recv") /\ speaking /\ ~audio
    /\ willSet("recv", "IDLE", "UNKNOWN")
    /\ UNCHANGED <<c5Vars, wireVars, smVars, s3_online, ctrlVars, amVars,
                   counters>>

-----------------------------------------------------------------------------
(* The S3's controller.  Before each message, and every second, it checks  *)
(* its watchdog against the stamp of the last INTERACTION message.         *)
(* Mutated form: the microphone is not watched.                            *)
overdueScreen == s3 = "PROCESSING" /\ aged
overdue == s3 \in {"LISTENING", "PROCESSING"} /\ aged

WatchdogFires ==
    /\ mayRun("ctrl") /\ resting("ctrl") /\ taken = None /\ overdue
    /\ \/ queue # <<>> /\ taken' = Head(queue) /\ queue' = Tail(queue)
       \/ queue = <<>> /\ UNCHANGED <<queue, taken>>
    /\ listening' = FALSE /\ speaking' = FALSE /\ misled' = FALSE
    /\ willSet("ctrl", "IDLE", "SYSTEM")
    /\ aged' = FALSE
    /\ UNCHANGED <<c5Vars, wireVars, smVars, s3_online, prev_speaking,
                   counters>>

(* The message at hand: the one the watchdog held up, or the next.         *)
Handle(m) ==
    /\ mayRun("ctrl") /\ resting("ctrl")
    /\ \/ taken = m /\ taken' = None /\ UNCHANGED queue
       \/ /\ taken = None /\ ~overdue /\ queue # <<>>
          /\ m = Head(queue) /\ queue' = Tail(queue) /\ UNCHANGED taken

(* Mutated form: every IDLE ends the turn on the C5.                       *)
endsTurn(m) == m.inter = "IDLE"
playedOut(m) == m.inter = "IDLE" /\ prev_speaking

(* onInteractionStateChanged: START for a trigger, SPEAK_DONE when what    *)
(* came before was SPEAKING.                                               *)
OnInteraction(m) ==
    /\ "inter" \in DOMAIN m /\ Handle(m) /\ Len(up) < Line
    /\ prev_speaking' = (m.inter = "SPEAKING") /\ aged' = FALSE
    /\ IF m.inter = "LISTENING" /\ m.src = "WAKEWORD"
         THEN up' = Append(up, "START") /\ owed' = owed - 1
         ELSE /\ up' = IF playedOut(m)
                         THEN Append(up, "SPEAK_DONE") ELSE up
              /\ UNCHANGED owed
    /\ UNCHANGED <<c5Vars, down, audio, smVars, s3_online, task, listening,
                   speaking, misled, wakes, upsets>>

(* onConnectionStateChanged: no turn without a connection, on this chip.   *)
OnConnectivity(m) ==
    /\ "online" \in DOMAIN m /\ Handle(m)
    /\ IF ~m.online /\ s3 \in {"LISTENING", "PROCESSING"}
         THEN /\ listening' = FALSE /\ speaking' = FALSE /\ misled' = FALSE
              /\ willSet("ctrl", "IDLE", "UNKNOWN")
         ELSE UNCHANGED <<amVars, task>>
    /\ UNCHANGED <<c5Vars, wireVars, smVars, s3_online, prev_speaking, aged,
                   counters>>

(* The watchdog's cap passes with nothing to do.  While the C5 is alive it *)
(* ends LISTENING and PROCESSING sooner, and its heartbeats are heard.     *)
TimePasses ==
    /\ quiet /\ queue = <<>> /\ taken = None /\ down = <<>>
    /\ ~aged
    /\ \/ silent
       \/ c5 = s3 /\ c5 \in {"IDLE", "SPEAKING"} /\ ~audio
          /\ down = <<>> /\ up = <<>>
    /\ aged' = TRUE
    /\ UNCHANGED <<c5Vars, wireVars, s3, s3_src, s3_online, task, queue, taken,
                   prev_speaking, amVars, counters>>

-----------------------------------------------------------------------------
Controller ==
    \/ WatchdogFires
    \/ \E m \in {taken} \union {queue[i] : i \in DOMAIN queue} :
           OnInteraction(m) \/ OnConnectivity(m)
Setter(t)  == Set(t) \/ Tell(t)

Next ==
    \/ C5Moves \/ C5Ends \/ C5Forwards \/ C5ConnMoves \/ Heartbeat \/ C5Receives
    \/ LineNoise \/ C5Resets \/ C5FallsSilent \/ S3Resets
    \/ \E t \in S3Tasks : Setter(t)
    \/ StatusUpdate \/ AudioDownlink \/ WakeWord \/ PlaybackEnds
    \/ Controller \/ TimePasses

(* Tasks go on, the C5 ends its turn, sends and receives, and time passes. *)
(* Nobody has to speak; playback need not end on the S3.                   *)
Fairness ==
    /\ SF_vars(C5Ends) /\ WF_vars(Heartbeat) /\ WF_vars(C5Receives)
    /\ WF_vars(\E t \in {"uart", "spi", "ctrl"} : Setter(t))
    /\ WF_vars(Setter("wake")) /\ WF_vars(Setter("recv"))
    /\ WF_vars(StatusUpdate)
    /\ WF_vars(Controller) /\ WF_vars(TimePasses)

Spec     == Init /\ [][Next]_vars
FairSpec == Spec /\ Fairness

-----------------------------------------------------------------------------
(* A START goes out for a wake word and for nothing else: a turn the C5    *)
(* began itself is mirrored without an answer, so the two never trigger    *)
(* each other.                                                             *)
EchoFree == owed >= 0

(* At rest AudioManager does what the state says: the microphone streams   *)
(* in LISTENING only, the speaker plays in SPEAKING only.  Callbacks run   *)
(* unlocked and on several tasks, so it may last have heard of a state     *)
(* that is over; a LISTENING that goes to SPEAKING, and a SPEAKING that    *)
(* goes to PROCESSING, leave the microphone or the speaker on.             *)
MicAgrees ==
    quiet /\ ~misled => /\ listening = (s3 = "LISTENING")
                        /\ speaking = (s3 = "SPEAKING")

(* SPEAK_DONE ends a reply, not the turn after it (onControlCmd looks at   *)
(* no state and the frame names no turn): whatever was lost or restarted,  *)
(* a turn that the C5 takes up when nothing is left of a reply hears no    *)
(* SPEAK_DONE before its own.  A turn begun over the remains of one may.   *)
SpeakDoneEndsReply ==
    [][C5Receives /\ Head(up) = "SPEAK_DONE"
           => c5 \in {"SPEAKING", "IDLE"} \/ crossed]_vars

(* The microphone is not left open: the C5, or the watchdog when the C5    *)
(* has died, closes it.                                                    *)
MicCloses == (listening /\ ~misled) ~> (~listening \/ misled)

(* Once the events are over, the S3 comes to show the turn the C5 has,     *)
(* whatever statuses were lost: heartbeats repeat it.                      *)
Converges == <>[](silent \/ s3 = c5)

(* The S3 mirrors the turn: its queues hold, it never answers the C5's own *)
(* state with a START, and its audio is what its state says.               *)
Mirrored == TypeOK /\ EchoFree /\ MicAgrees
=============================================================================
