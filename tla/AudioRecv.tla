----------------------------- MODULE AudioRecv -----------------------------
(***************************************************************************)
(* The S3's way from the SPI bridge to the loudspeaker: the stream buffer  *)
(* of encoded bytes, AudioRecv, which finds the frames in it and decodes   *)
(* them, the stream buffer of samples, and SpkPlay.  A stop comes from any *)
(* task: it drains, clears `speaking` and resets both buffers under the    *)
(* readers' hands.  The stream carries no marks but the length before each *)
(* frame, so whoever loses a byte has lost the frames behind it.           *)
(*                                                                         *)
(* A frame is two bytes of length and one of payload.  Bytes taken for a   *)
(* length that are none have any value.  A wait that can expire expires    *)
(* when there is nothing to wait for.                                      *)
(***************************************************************************)
EXTENDS Naturals, Sequences

CONSTANTS
    PreBuf,      \* ENC_PREBUF in bytes: 2000 in the code
    EncRoom,     \* bytes of sb_spk_encoded: 64 KB
    PcmRoom,     \* frames of sb_spk_pcm: 16 KB
    PlayBuf,     \* PREBUF_BYTES in frames: 3840 bytes, two frames
    MaxErrors,   \* MAX_CONSECUTIVE_ERRORS: 3
    MaxReplies,  \* bound: replies the C5 sends
    MaxFrames,   \* bound: frames of a reply
    MaxCuts      \* bound: frames that arrive cut short (see Downlink)

ASSUME AudioBounds ==
    /\ {PreBuf, EncRoom, PcmRoom, PlayBuf, MaxErrors} \subseteq Nat \ {0}
    /\ {MaxReplies, MaxFrames, MaxCuts} \subseteq Nat
    /\ PreBuf <= EncRoom /\ PlayBuf <= PcmRoom

VARIABLES
    speaking,             \* AudioManager::speaking
    enc, pcm,             \* sb_spk_encoded and sb_spk_pcm
    recv, held, need,     \* where audioRecvLoop is, the bytes it has taken for
                          \* a frame and how many payload bytes it waits for
    enc_prebuffered, errors,
    decoded,              \* last_decode_tick > 0
    play_prebuffered, played,   \* spkPlayLoop; history: it has played
    stop,                 \* per caller of stopSpeaking: where it is
    reply, frames, cuts,  \* the reply that comes in, its frames so far
    torn,                 \* history: a buffer was reset while AudioRecv held
                          \* part of a frame, or a frame came cut short
    kept                  \* history: a stop could not reset sb_spk_pcm

recvVars == <<recv, held, need, enc_prebuffered, errors, decoded>>
playVars == <<play_prebuffered, played>>
inVars   == <<reply, frames, cuts>>
hist     == <<torn, kept>>
vars == <<speaking, enc, pcm, recvVars, playVars, stop, inVars, hist>>

Byte == [reply : 1..MaxReplies, frame : 1..MaxFrames, part : 1..3]
frameOf(r, f) == [i \in 1..3 |-> [reply |-> r, frame |-> f, part |-> i]]

TypeOK ==
    /\ {speaking, enc_prebuffered, decoded, play_prebuffered, played,
       torn, kept}
           \subseteq BOOLEAN
    /\ enc \in Seq(Byte) /\ Len(enc) <= EncRoom
    /\ pcm \in Seq(0..MaxReplies) /\ Len(pcm) <= PcmRoom
    /\ recv \in {"top", "header", "payload", "push", "scan", "trial", "drain",
                 "rest"}
    /\ held \in Seq(Byte) /\ Len(held) <= 4 /\ need \in 0..2
    /\ errors \in 0 .. MaxErrors - 1
    /\ stop \in [{"recv", "other"} -> {"none", "drain", "reset"}]
    /\ reply \in 0..MaxReplies /\ frames \in 0..MaxFrames /\ cuts \in 0..MaxCuts

Init ==
    /\ speaking = FALSE /\ enc = <<>> /\ pcm = <<>>
    /\ recv = "top" /\ held = <<>> /\ need = 0
    /\ enc_prebuffered = FALSE /\ errors = 0 /\ decoded = FALSE
    /\ play_prebuffered = FALSE /\ played = FALSE
    /\ stop = [t \in {"recv", "other"} |-> "none"]
    /\ reply = 0 /\ frames = 0 /\ cuts = 0
    /\ torn = FALSE /\ kept = FALSE

midFrame == recv \in {"payload", "scan", "trial"} \/ (recv = "header" /\ held # <<>>)

-----------------------------------------------------------------------------
(* Other tasks: a reply begins, its frames arrive, it is stopped.          *)

(* Where audioRecvLoop sleeps; what it does between is short beside the    *)
(* time from the end of one reply to the next.                             *)
asleep == \/ recv = "top" /\ ~enc_prebuffered
          \/ recv = "drain"
          \/ recv = "push" /\ Len(pcm) = PcmRoom
          \/ enc = <<>> /\ (recv = "header" \/ need > 0)

(* onAudioDownlink or a status: the state is SPEAKING now.                 *)
startSpeaking ==
    /\ asleep
    /\ reply < MaxReplies /\ reply' = reply + 1 /\ frames' = 0
    /\ \A t \in DOMAIN stop : stop[t] = "none"
    /\ ~speaking /\ speaking' = TRUE /\ played' = FALSE
    /\ UNCHANGED <<enc, pcm, recvVars, play_prebuffered, stop, cuts, hist>>

(* Mutated form: as much of a payload as fits is kept.                     *)
takenInPart(bytes) ==
    enc' = enc \o SubSeq(bytes, 1, IF Len(bytes) <= EncRoom - Len(enc)
                                     THEN Len(bytes) ELSE EncRoom - Len(enc))

taken(bytes) ==
    enc' = IF Len(bytes) <= EncRoom - Len(enc) THEN enc \o bytes ELSE enc

(* A payload: whole frames, or one that the C5 cut short.                  *)
onAudioDownlink ==
    /\ reply > 0 /\ frames < MaxFrames /\ frames' = frames + 1
    /\ \/ taken(frameOf(reply, frames')) /\ UNCHANGED <<cuts, hist>>
       \/ /\ cuts < MaxCuts /\ cuts' = cuts + 1 /\ torn' = TRUE /\ UNCHANGED kept
          /\ taken(Tail(frameOf(reply, frames')))
    /\ UNCHANGED <<speaking, pcm, recvVars, playVars, stop, reply>>

(* stopSpeaking: draining waits for SpkPlay, 300 ms at most; an interrupt  *)
(* does not drain.                                                         *)
stopSpeaking ==
    /\ speaking /\ stop["other"] = "none"
    /\ frames' = MaxFrames
    /\ \/ stop' = [stop EXCEPT !["other"] = "drain"] /\ UNCHANGED speaking
       \/ stop' = [stop EXCEPT !["other"] = "reset"] /\ speaking' = FALSE
    /\ UNCHANGED <<enc, pcm, recvVars, playVars, reply, cuts, hist>>

StopDrained(t) ==
    /\ stop[t] = "drain"
    /\ stop' = [stop EXCEPT ![t] = "reset"] /\ speaking' = FALSE
    /\ UNCHANGED <<enc, pcm, recvVars, playVars, inVars, hist>>

(* A buffer on which a task is blocked is not reset: AudioRecv blocks on   *)
(* the samples when they are full.                                         *)
blocked == recv = "push" /\ Len(pcm) = PcmRoom

(* Mutated form: the samples stay.                                         *)
resetPcmNever == pcm
resetPcm      == IF blocked THEN pcm ELSE <<>>

StopResets(t) ==
    /\ stop[t] = "reset" /\ stop' = [stop EXCEPT ![t] = "none"]
    /\ enc' = <<>> /\ pcm' = resetPcm
    /\ torn' = midFrame /\ kept' = blocked
    /\ UNCHANGED <<speaking, recvVars, playVars, inVars>>

-----------------------------------------------------------------------------
(* audioRecvLoop.                                                          *)
mine == stop["recv"] = "none"
goes(to) == recv' = to /\ held' = <<>> /\ need' = 0

(* Not speaking: everything is cleared, every 10 ms.  The look at the flag *)
(* and the resets are two steps.                                           *)
SeesRest ==
    /\ mine /\ recv = "top" /\ ~speaking /\ goes("rest")
    /\ UNCHANGED <<speaking, enc, pcm, enc_prebuffered, errors, decoded, playVars,
                   stop, inVars, hist>>

Rests ==
    /\ recv = "rest" /\ goes("top")
    /\ enc' = <<>> /\ pcm' = <<>>
    /\ enc_prebuffered' = FALSE /\ errors' = 0 /\ decoded' = FALSE
    /\ torn' = FALSE /\ kept' = FALSE
    /\ UNCHANGED <<speaking, playVars, stop, inVars>>

PreBuffers ==
    /\ mine /\ recv = "top" /\ speaking /\ ~enc_prebuffered
    /\ Len(enc) >= PreBuf
    /\ enc_prebuffered' = TRUE /\ errors' = 0 /\ decoded' = TRUE
    /\ goes("header")
    /\ UNCHANGED <<speaking, enc, pcm, playVars, stop, inVars, hist>>

(* SpkPlay's pre-buffer is full.                                           *)
playReady == Len(pcm) >= PlayBuf

(* Mutated form: a reply without frames never gets old.                    *)
staleNever == FALSE
stale      == decoded /\ Len(enc) < PreBuf

(* Five seconds without a frame, and what could be played has been: IDLE,  *)
(* and AudioManager's own callback stops the speaker on this task.         *)
Stale ==
    /\ mine /\ recv = "top" /\ speaking /\ ~enc_prebuffered
    /\ stale
    /\ IF play_prebuffered THEN pcm = <<>> ELSE ~playReady
    /\ stop' = [stop EXCEPT !["recv"] = "drain"] /\ frames' = MaxFrames
    /\ UNCHANGED <<speaking, enc, pcm, recvVars, playVars, reply, cuts, hist>>

GoesOn ==
    /\ mine /\ recv = "top" /\ speaking /\ enc_prebuffered /\ goes("header")
    /\ UNCHANGED <<speaking, enc, pcm, enc_prebuffered, errors, decoded, playVars,
                   stop, inVars, hist>>

(* The length two bytes stand for: 0 for one out of range.                 *)
lengths(a, b) ==
    IF a.part = 1 /\ b.part = 2 /\ a.frame = b.frame THEN {1} ELSE {0, 1, 2}

givesUp == errors + 1 >= MaxErrors

(* An error: the third in a row discards what comes for 500 ms.            *)
StartDrain ==
    /\ errors' = 0 /\ enc_prebuffered' = FALSE /\ enc' = <<>>
    /\ goes("drain") /\ torn' = FALSE /\ UNCHANGED kept

Failed ==
    IF givesUp THEN StartDrain
    ELSE /\ errors' = errors + 1 /\ goes("top")
         /\ UNCHANGED <<enc_prebuffered, enc, hist>>

ReadHeader ==
    /\ recv = "header" /\ enc # <<>>
    /\ LET h == Append(held, Head(enc))
       IN IF Len(h) < 2
            THEN /\ held' = h /\ enc' = Tail(enc)
                 /\ UNCHANGED <<recv, need, errors, enc_prebuffered, hist>>
            ELSE \E n \in lengths(h[1], h[2]) :
                   IF n = 0 /\ givesUp
                     THEN StartDrain
                     ELSE /\ enc' = Tail(enc) /\ held' = h /\ need' = n
                          /\ recv' = IF n = 0 THEN "scan" ELSE "payload"
                          /\ errors' = IF n = 0 THEN errors + 1 ELSE errors
                          /\ UNCHANGED <<enc_prebuffered, hist>>
    /\ UNCHANGED <<speaking, pcm, decoded, playVars, stop, inVars>>

(* 100 ms without the whole header: a byte read is lost.                   *)
HeaderLate ==
    /\ recv = "header" /\ enc = <<>> /\ goes("top")
    /\ enc_prebuffered' = FALSE
    /\ UNCHANGED <<speaking, enc, pcm, errors, decoded, playVars, stop, inVars,
                   hist>>

ReadPayload ==
    /\ recv \in {"payload", "trial"} /\ need > 0 /\ enc # <<>>
    /\ held' = Append(held, Head(enc)) /\ enc' = Tail(enc) /\ need' = need - 1
    /\ UNCHANGED <<speaking, pcm, recv, enc_prebuffered, errors, decoded, playVars,
                   stop, inVars, hist>>

PayloadLate ==
    /\ recv = "payload" /\ need > 0 /\ enc = <<>>
    /\ Failed
    /\ UNCHANGED <<speaking, pcm, decoded, playVars, stop, inVars>>

(* A frame in its place is decoded, anything else may be.                  *)
rightFrame == /\ Len(held) = 3
              /\ held = frameOf(held[1].reply, held[1].frame)
sound   == IF rightFrame THEN held[1].reply ELSE 0
decodes == IF rightFrame THEN {TRUE} ELSE BOOLEAN

Decode ==
    /\ recv = "payload" /\ need = 0
    /\ \E ok \in decodes :
           IF ok THEN recv' = "push" /\ UNCHANGED <<held, need, errors,
                                                     enc_prebuffered, enc, hist>>
                 ELSE Failed
    /\ UNCHANGED <<speaking, pcm, decoded, playVars, stop, inVars>>

(* 200 ms for room in the other buffer; then the samples are lost.         *)
Push ==
    /\ recv = "push" /\ goes("top")
    /\ \/ Len(pcm) < PcmRoom /\ pcm' = Append(pcm, sound)
       \/ Len(pcm) = PcmRoom /\ ~(speaking /\ play_prebuffered) /\ UNCHANGED pcm
    /\ errors' = 0 /\ decoded' = TRUE
    /\ UNCHANGED <<speaking, enc, enc_prebuffered, playVars, stop, inVars, hist>>

(* The search for a header: one byte on, and a trial of what it promises.  *)
Scan ==
    /\ recv = "scan"
    /\ IF enc = <<>> THEN goes("top") /\ UNCHANGED enc
       ELSE /\ enc' = Tail(enc)
            /\ held' = <<held[2], Head(enc)>>
            /\ \E n \in lengths(held[2], Head(enc)) :
                   need' = n /\ recv' = IF n = 0 THEN "scan" ELSE "trial"
    /\ UNCHANGED <<speaking, pcm, enc_prebuffered, errors, decoded, playVars,
                   stop, inVars, hist>>

Trial ==
    /\ recv = "trial"
    /\ \/ /\ need = 0
          /\ \E ok \in decodes :
                 IF ok THEN goes("top") /\ decoded' = TRUE
                       ELSE /\ recv' = "scan" /\ held' = SubSeq(held, 1, 2)
                            /\ UNCHANGED <<need, decoded>>
       \/ need > 0 /\ enc = <<>> /\ goes("top") /\ UNCHANGED decoded
    /\ UNCHANGED <<speaking, enc, pcm, enc_prebuffered, errors, playVars, stop,
                   inVars, hist>>

(* What arrives while draining is discarded; then a fresh start.           *)
Drain ==
    /\ recv = "drain" /\ enc' = <<>> /\ torn' = FALSE
    /\ UNCHANGED kept
    /\ recv' \in {"drain", "top"} /\ (recv' = "drain" => enc # <<>>)
    /\ UNCHANGED <<speaking, pcm, held, need, enc_prebuffered, errors, decoded,
                   playVars, stop, inVars>>

-----------------------------------------------------------------------------
(* spkPlayLoop.                                                            *)
PlayRests ==
    /\ ~speaking /\ play_prebuffered /\ play_prebuffered' = FALSE
    /\ UNCHANGED <<speaking, enc, pcm, recvVars, played, stop, inVars, hist>>

PlayPreBuffers ==
    /\ speaking /\ ~play_prebuffered /\ playReady
    /\ play_prebuffered' = TRUE
    /\ UNCHANGED <<speaking, enc, pcm, recvVars, played, stop, inVars, hist>>

Play ==
    /\ speaking /\ play_prebuffered /\ pcm # <<>>
    /\ pcm' = Tail(pcm) /\ played' = TRUE
    /\ UNCHANGED <<speaking, enc, recvVars, play_prebuffered, stop, inVars, hist>>

-----------------------------------------------------------------------------
Recv == \/ SeesRest \/ Rests \/ PreBuffers \/ Stale \/ GoesOn
        \/ ReadHeader \/ HeaderLate \/ ReadPayload \/ PayloadLate \/ Decode \/ Push
        \/ Scan \/ Trial \/ Drain
SpkPlay == PlayRests \/ PlayPreBuffers \/ Play
Next == \/ startSpeaking \/ onAudioDownlink \/ stopSpeaking
        \/ \E t \in DOMAIN stop : StopDrained(t) \/ StopResets(t)
        \/ Recv \/ SpkPlay

Fairness ==
    /\ WF_vars(Recv) /\ WF_vars(SpkPlay) /\ WF_vars(onAudioDownlink)
    /\ \A t \in {"recv", "other"} : WF_vars(StopDrained(t) \/ StopResets(t))

Spec     == Init /\ [][Next]_vars
FairSpec == Spec /\ Fairness

-----------------------------------------------------------------------------
(* AudioRecv reads lengths where lengths are.  It is lost only after a     *)
(* frame that came cut, or a stop that reset the buffer while it had part  *)
(* of a frame, and found again by the drain or the rest that follows.      *)
Aligned ==
    ~torn /\ recv \in {"top", "header"} /\ held = <<>> /\ enc # <<>>
        => Head(enc).part = 1

(* What a reply plays is its own: nothing of the reply before survives the *)
(* stop, in either buffer or in AudioRecv's hands, but for the samples a   *)
(* stop cannot reset while AudioRecv waits for room behind them.           *)
NoOldAudio == speaking /\ ~kept => \A i \in DOMAIN pcm : pcm[i] \in {0, reply}

(* A reply whose pre-buffer AudioRecv finds full is heard, unless somebody *)
(* stops it; the end of the stream does not come before its sound.         *)
ReplyStarts ==
    (speaking /\ ~torn /\ recv = "top" /\ Len(enc) >= PreBuf)
        ~> (played \/ stop["other"] # "none" \/ torn)

(* A reply once begun does not leave the speaker on for ever, whatever     *)
(* the stream is like; one shorter than the pre-buffer may.                *)
ReplyEnds == (speaking /\ decoded) ~> ~speaking

(* The two buffers are never overrun and AudioRecv reads lengths where     *)
(* lengths are.                                                            *)
StreamAligned == TypeOK /\ Aligned

(* A reply runs: once buffered it is heard, once begun it ends.            *)
ReplyRuns == ReplyStarts /\ ReplyEnds
=============================================================================
