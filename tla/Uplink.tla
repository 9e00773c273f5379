------------------------------- MODULE Uplink -------------------------------
(***************************************************************************)
(* The way of the user's voice: MicRead and MicStream on the S3, the queue *)
(* of SpiBridge, the C5's tx_buffer_, the task ws_tx, the server.  START   *)
(* and END, which tell the server which audio is the turn's, go another    *)
(* way: through the queue that ws_txt shares with heartbeats and logs.     *)
(* The two tasks meet at the lock of the WebSocket client only.            *)
(*                                                                         *)
(* A frame is two units, 1 for its length and 2 for the rest.  What the    *)
(* microphone left behind of one turn goes out at the head of the next     *)
(* one: nobody empties the buffers at the start of a turn, so whose voice  *)
(* a frame carries is left out.                                            *)
(***************************************************************************)
EXTENDS Naturals, Sequences

CONSTANTS
    SpiRoom,      \* frames of the S3's SPI queue: 16
    TxRoom,       \* units of tx_buffer_: 32 KB
    BatchRoom,    \* units of a message: 2047 bytes
    TextRoom,     \* WS_TEXT_QUEUE_DEPTH: 24
    MaxTurns,     \* bound: turns
    MaxFrames,    \* bound: frames recorded in all
    MaxLogs,      \* bound: texts of others
    MaxFaults     \* bound: sends that fail, losses of the connection

ASSUME UplinkBounds ==
    /\ {SpiRoom, TxRoom, BatchRoom, TextRoom} \subseteq Nat \ {0}
    /\ {MaxTurns, MaxFrames, MaxLogs, MaxFaults} \subseteq Nat

VARIABLES
    s3, listening,      \* the turn as the S3 has it; AudioManager::listening
    spi,                \* frames in tx_queue_
    asked,              \* START is on its way to the C5
    c5, online,         \* the C5's turn; connected_
    draining,           \* triggerListenEnd waits for tx_buffer_ to drain
    tx, batch,          \* tx_buffer_; what ws_tx has taken from it
    texts, text,        \* text_queue_; what ws_txt has taken from it
    lock,               \* who is in the WebSocket client
    srv,                \* the turn the server records, or 0
    turn, frames, logs, faults,
    split,              \* history: the last batch ended inside a frame
    inHand, mixed,      \* history: audio was with ws_tx when END was textQueued,
                        \* and another text with ws_txt
    lost                \* history: the turns with no END for the server: it found
                        \* the queue full, was not sent, or nobody sends one

s3Vars   == <<s3, listening, spi, asked>>
turnVars == <<c5, draining>>
sendVars == <<tx, batch, texts, text, lock>>
bounds   == <<turn, frames, logs, faults>>
hist     == <<split, inHand, mixed, lost>>
uplinkVars     == <<s3Vars, turnVars, online, sendVars, srv, bounds, hist>>

Turns == {"IDLE", "LISTENING", "PROCESSING"}
Text  == [text : {"START", "END", "LOG"}, turn : 0..MaxTurns]
None  == [text |-> "none", turn |-> 0]
Log   == [text |-> "LOG", turn |-> 0]

UplinkTypeOK ==
    /\ s3 \in Turns /\ c5 \in Turns /\ lock \in {"none", "bin", "text"}
    /\ {listening, asked, online, draining, split, inHand, mixed} \subseteq BOOLEAN
    /\ {srv} \union lost \subseteq 0..MaxTurns
    /\ spi \in 0..SpiRoom
    /\ tx \in Seq(1..2) /\ Len(tx) <= TxRoom
    /\ batch \in Seq(1..2) /\ Len(batch) <= BatchRoom
    /\ texts \in Seq(Text) /\ Len(texts) <= TextRoom /\ text \in Text \union {None}

UplinkInit ==
    /\ s3 = "IDLE" /\ listening = FALSE /\ spi = 0
    /\ asked = FALSE /\ c5 = "IDLE" /\ online = TRUE /\ draining = FALSE
    /\ tx = <<>> /\ batch = <<>> /\ texts = <<>> /\ text = None /\ lock = "none"
    /\ srv = 0
    /\ turn = 0 /\ frames = 0 /\ logs = 0 /\ faults = 0
    /\ split = FALSE /\ inHand = FALSE /\ mixed = FALSE /\ lost = {}

-----------------------------------------------------------------------------
(* The S3.                                                                 *)

(* startListening, after the wake word.                                    *)
StartListening ==
    /\ s3 = "IDLE" /\ c5 = "IDLE" /\ ~asked /\ ~draining
    /\ turn < MaxTurns /\ turn' = turn + 1
    /\ s3' = "LISTENING" /\ listening' = TRUE /\ asked' = TRUE
    /\ UNCHANGED <<spi, turnVars, online, sendVars, srv, frames, logs, faults,
                   hist>>

(* A status: pauseListening or stopListening.                              *)
HearStatus ==
    /\ ~asked /\ s3 # c5 /\ s3' = c5
    /\ listening' = (c5 = "LISTENING")
    /\ UNCHANGED <<spi, asked, turnVars, online, sendVars, srv, bounds,
                   hist>>

(* micReadLoop and micStreamLoop: samples make a frame, which is lost when *)
(* it finds no room in the SPI queue.                                      *)
Encode ==
    /\ listening /\ frames < MaxFrames /\ frames' = frames + 1
    /\ spi < SpiRoom /\ spi' = spi + 1
    /\ UNCHANGED <<s3, listening, asked, turnVars, online, sendVars, srv, turn,
                   logs, faults, hist>>

-----------------------------------------------------------------------------
(* The C5.  A transaction brings a frame to sendBinary, all or nothing.    *)
roomFor(n) == Len(tx) + n <= TxRoom

SpiTransfer ==
    /\ spi > 0 /\ spi' = spi - 1
    /\ tx' = IF online /\ roomFor(2) THEN tx \o <<1, 2>> ELSE tx
    /\ UNCHANGED <<s3, listening, asked, turnVars, online, batch, texts,
                   text, lock, srv, bounds, hist>>

(* enqueueText drops what finds the queue full, and nobody looks.          *)
textFits == Len(texts) < TextRoom

textQueued(t) == IF textFits THEN Append(texts, t) ELSE texts

triggerListenStart ==
    /\ asked /\ asked' = FALSE
    /\ IF online THEN /\ c5' = "LISTENING"
                      /\ texts' = textQueued([text |-> "START", turn |-> turn])
                 ELSE UNCHANGED <<c5, texts>>
    /\ UNCHANGED <<s3, listening, spi, draining, online, tx, batch, text,
                   lock, srv, bounds, hist>>

(* The button is released: the task polls tx_buffer_ while the tasks above *)
(* it wait, for a second at most, and empties it itself then.              *)
triggerListenEnd ==
    /\ c5 = "LISTENING" /\ ~draining /\ ~asked
    /\ draining' = TRUE
    /\ UNCHANGED <<s3Vars, c5, online, sendVars, srv, bounds, hist>>

(* Mutated form: END is not sent.                                          *)
endsUntold ==
    UNCHANGED <<texts, lost>> /\ c5' = "PROCESSING"
endsNow ==
    /\ texts' = IF online THEN textQueued([text |-> "END", turn |-> turn]) ELSE texts
    /\ c5' = "PROCESSING"
    /\ lost' = IF online /\ textFits THEN lost ELSE lost \union {turn}

(* Mutated form: END does not wait.                                        *)
drainedAlways == TRUE
drained       == tx = <<>>

DrainEnds ==
    /\ draining /\ (batch # <<>> => lock # "none") /\ draining' = FALSE
    /\ \/ drained /\ UNCHANGED tx
       \/ ~drained /\ tx' = <<>>
    /\ inHand' = (batch # <<>> \/ tx' # <<>>)
    /\ mixed' = (lock = "text")
    /\ endsNow
    /\ UNCHANGED <<s3Vars, online, batch, text, lock, srv, bounds, split>>

(* The cap on LISTENING sends END without a look at the buffer.            *)
CapEnds ==
    /\ c5 = "LISTENING" /\ ~draining /\ ~asked
    /\ endsNow /\ mixed' = TRUE
    /\ UNCHANGED <<s3Vars, draining, online, tx, batch, text, lock, srv,
                   bounds, split, inHand>>

(* audio_stop and a late SPEAK_DONE take LISTENING away, and a piece of    *)
(* the last reply is let do so, too, though on one core the priorities     *)
(* keep its task from it (VoiceTurn).  No END goes, but that of a drain    *)
(* that is under way.                                                      *)
TurnCut ==
    /\ c5 = "LISTENING" /\ online /\ ~asked
    /\ c5' \in {"IDLE", "PROCESSING"}
    /\ lost' = IF draining THEN lost ELSE lost \union {turn}
    /\ UNCHANGED <<s3Vars, draining, online, sendVars, srv, bounds, split,
                   inHand, mixed>>

(* The turn ends, by the reply or without one, or with the connection.     *)
TurnEnds ==
    /\ c5 = "PROCESSING" \/ (c5 = "LISTENING" /\ ~online)
    /\ ~draining /\ c5' = "IDLE"
    /\ UNCHANGED <<s3Vars, draining, online, sendVars, srv, bounds, hist>>

-----------------------------------------------------------------------------
(* txLoop and textLoop.  A task that lets the lock go may take it again    *)
(* before the one it woke runs.                                            *)

TakeBatch ==
    /\ online /\ batch = <<>> /\ tx # <<>>
    /\ batch' = SubSeq(tx, 1, IF Len(tx) <= BatchRoom THEN Len(tx) ELSE BatchRoom)
    /\ tx' = SubSeq(tx, Len(batch') + 1, Len(tx))
    /\ UNCHANGED <<s3Vars, turnVars, online, texts, text, lock, srv, bounds,
                   hist>>

BatchLocks ==
    /\ batch # <<>> /\ lock = "none" /\ lock' = "bin"
    /\ UNCHANGED <<s3Vars, turnVars, online, tx, batch, texts, text, srv,
                   bounds, hist>>

(* The server, as its simulation does: a message is frames from its first  *)
(* byte on, and the rest of it, if any, is dropped.                        *)
BatchSent ==
    /\ lock = "bin" /\ lock' = "none" /\ online
    /\ batch' = <<>>
    /\ split' = (batch[Len(batch)] = 1)
    /\ inHand' = FALSE
    /\ UNCHANGED <<s3Vars, turnVars, online, tx, texts, text, srv, bounds, mixed, lost>>

(* send_bin fails, or has waited 200 ms for the lock.  From the fifth      *)
(* failure in a row on, the buffer goes, too.                              *)
BatchFails ==
    /\ batch # <<>> /\ lock \in {"bin", "text"}
    /\ lock' = IF lock = "bin" THEN "none" ELSE lock
    /\ IF online THEN faults < MaxFaults /\ faults' = faults + 1 ELSE UNCHANGED faults
    /\ batch' = <<>> /\ inHand' = FALSE
    /\ split' = (batch[Len(batch)] = 1)
    /\ tx' \in {tx, <<>>}
    /\ UNCHANGED <<s3Vars, turnVars, online, texts, text, srv, turn,
                   frames, logs, mixed, lost>>

TakeText ==
    /\ text = None /\ texts # <<>>
    /\ texts' = Tail(texts)
    /\ text' = IF online THEN Head(texts) ELSE None
    /\ UNCHANGED <<s3Vars, turnVars, online, tx, batch, lock, srv, bounds,
                   hist>>

TextLocks ==
    /\ text # None /\ lock = "none" /\ lock' = "text"
    /\ UNCHANGED <<s3Vars, turnVars, online, tx, batch, texts, text, srv,
                   bounds, hist>>

TextSent ==
    /\ lock = "text" /\ lock' = "none" /\ text' = None
    /\ \/ /\ online /\ UNCHANGED faults
          /\ UNCHANGED lost
          /\ srv' = CASE text.text = "START" -> text.turn
                      [] text.text = "END"   -> 0
                      [] OTHER               -> srv
       \/ /\ IF online THEN faults < MaxFaults /\ faults' = faults + 1
                       ELSE UNCHANGED faults
          /\ lost' = IF text.text = "END" THEN lost \union {text.turn} ELSE lost
          /\ UNCHANGED srv
    /\ UNCHANGED <<s3Vars, turnVars, online, tx, batch, texts, turn, frames,
                   logs, split, inHand, mixed>>

(* Heartbeats, states, logs: sendMessage and LogManager::flush.            *)
SendLog ==
    /\ online /\ logs < MaxLogs /\ logs' = logs + 1
    /\ texts' = textQueued(Log)
    /\ UNCHANGED <<s3Vars, turnVars, online, tx, batch, text, lock, srv,
                   turn, frames, faults, hist>>

-----------------------------------------------------------------------------
(* The connection is lost; a new one starts with nothing.                  *)
Disconnected ==
    /\ online /\ faults < MaxFaults /\ faults' = faults + 1
    /\ online' = FALSE /\ tx' = <<>> /\ srv' = 0
    /\ UNCHANGED <<s3Vars, turnVars, batch, texts, text, lock, turn,
                   frames, logs, hist>>

(* connect, once the tasks of the old connection are gone.                 *)
Reconnected ==
    /\ ~online /\ batch = <<>> /\ text = None /\ lock = "none"
    /\ online' = TRUE /\ texts' = <<>> /\ tx' = <<>>
    /\ split' = FALSE
    /\ UNCHANGED <<s3Vars, turnVars, batch, text, lock, srv, bounds, inHand, mixed, lost>>

-----------------------------------------------------------------------------
TxTask  == TakeBatch \/ BatchLocks \/ BatchSent \/ BatchFails
TxtTask == TakeText \/ TextLocks \/ TextSent
UplinkNext ==
    \/ StartListening \/ HearStatus \/ Encode
    \/ SpiTransfer \/ triggerListenStart \/ triggerListenEnd \/ DrainEnds \/ CapEnds
    \/ TurnCut \/ TurnEnds \/ TxTask \/ TxtTask \/ SendLog \/ Disconnected \/ Reconnected

(* The tasks go on; a task that waits for the lock gets it in the end.     *)
UplinkFairness ==
    /\ WF_uplinkVars(HearStatus) /\ WF_uplinkVars(SpiTransfer) /\ WF_uplinkVars(triggerListenStart)
    /\ WF_uplinkVars(DrainEnds) /\ WF_uplinkVars(CapEnds) /\ WF_uplinkVars(TurnEnds)
    /\ SF_uplinkVars(TxTask) /\ SF_uplinkVars(TxtTask) /\ WF_uplinkVars(Reconnected)

UplinkSpec     == UplinkInit /\ [][UplinkNext]_uplinkVars
UplinkFairSpec == UplinkSpec /\ UplinkFairness

-----------------------------------------------------------------------------
(* Lengths are where the server looks for them: a message is frames one    *)
(* behind the other, and begins inside one only when the last ended there. *)
AlignedMessages ==
    [][BatchSent => /\ Head(batch) = 1 \/ split
                    /\ \A i \in 2..Len(batch) : batch[i] # batch[i-1]]_uplinkVars

(* END comes after the turn's audio, all of which tx_buffer_ had when the  *)
(* drain ended well, unless another text was being sent just then.         *)
EndIsLast == [][TextSent /\ text.text = "END" => ~inHand \/ mixed]_uplinkVars

(* The server does not record for ever: END ends what START began, unless  *)
(* it was lost on its way, or the turn was cut and none was sent.          *)
RecordingEnds == (srv # 0) ~> (srv = 0 \/ srv \in lost)

(* What the server gets: no buffer is overrun on the way, messages begin   *)
(* with a length, and END is behind the audio it ends.                     *)
OnTheWire == []UplinkTypeOK /\ AlignedMessages /\ EndIsLast
=============================================================================
