------------------------------ MODULE Downlink ------------------------------
(***************************************************************************)
(* The reply's way through the C5: a WebSocket message holds whole frames  *)
(* [length][opus], it arrives in fragments cut anywhere, passes the gate   *)
(* of onBinary into a stream buffer, and the SPI slave task packs whole    *)
(* frames into the payload it arms; the S3 clocks it out when the          *)
(* handshake line is high or when it has audio of its own to send.         *)
(*                                                                         *)
(* A unit is its place in the stream; a frame is a header unit and BodyLen *)
(* body units.  A body unit read as a header gives any length, or one that *)
(* is refused.  One core: the WebSocket task (priority 5) runs between any *)
(* two steps of the slave task (4), the UART task (3), which runs START,   *)
(* only while the slave task waits.                                        *)
(***************************************************************************)
EXTENDS Integers, Sequences

CONSTANTS
    BodyLen,       \* body units of a frame
    MessageLen,    \* units of a message, whole frames
    PayloadLen,    \* units that fit in an SPI payload
    BufferLen,     \* capacity of dl_audio_sb_
    Fragmented,    \* may a message arrive in pieces?
    MaxUnits,      \* bound: units the server sends
    MaxStarts      \* bound: turns started over a reply

ASSUME LengthsAssumption ==
    /\ BodyLen \in Nat \ {0} /\ MessageLen \in Nat \ {0}
    /\ MessageLen % (BodyLen + 1) = 0
    /\ PayloadLen \in Nat /\ BodyLen < PayloadLen
    /\ BufferLen \in Nat /\ MaxUnits \in Nat /\ MaxStarts \in Nat
    /\ Fragmented \in BOOLEAN

VARIABLES
    at,                          \* units of the stream received so far
    dl_msg_dropping,
    session,                     \* speaking_session_active_
    state,                       \* "REPLY" (PROCESSING, SPEAKING), "LISTENING"
    dl_audio_sb,
    pending_header,              \* <<>> or <<[head, len]>>
    used,                        \* units in the payload packed or armed
    handshake, handshake_pending,
    pc,                          \* the slave task
    start_pc,                    \* the UART task in triggerListenStart
    last_head,                   \* history: header of the last frame packed
    repeated, garbled,           \* history: a header was packed again; what
                                 \* was packed was no frame
    reset_mid,                   \* history: the buffer was reset within the
                                 \* message that is arriving
    cuts,                        \* history: what broke the stream
    starts                       \* bound

wsVars    == <<at, dl_msg_dropping, session>>
slaveVars == <<pending_header, used, handshake_pending, pc>>
histVars  == <<last_head, repeated, garbled>>
vars == <<wsVars, state, dl_audio_sb, slaveVars, handshake, start_pc,
          histVars, reset_mid, cuts, starts>>

Units   == 1..MaxUnits
Lengths == 1..PayloadLen
Headers == [head : Units, len : Lengths]
Cuts    == {"dropped_fragment", "stale_header", "late_tail"}

FlagsOK ==
    /\ dl_msg_dropping \in BOOLEAN /\ session \in BOOLEAN
    /\ handshake \in BOOLEAN /\ handshake_pending \in BOOLEAN
    /\ repeated \in BOOLEAN /\ garbled \in BOOLEAN /\ reset_mid \in BOOLEAN
RangesOK ==
    /\ at \in 0..MaxUnits /\ state \in {"REPLY", "LISTENING"}
    /\ dl_audio_sb \in Seq(Units) /\ Len(dl_audio_sb) <= BufferLen
    /\ pending_header \in Seq(Headers) /\ Len(pending_header) <= 1
    /\ used \in 0..PayloadLen
    /\ pc \in {"prepare", "fill", "sample", "arm", "wait", "done", "lower"}
    /\ start_pc \in {"idle", "reset", "low", "set"}
    /\ last_head \in 0..MaxUnits /\ cuts \subseteq Cuts
    /\ starts \in 0..MaxStarts
(* No buffer is written past its capacity and no payload past its length.  *)
TypeOK == FlagsOK /\ RangesOK

(* The turn waits for its reply.                                           *)
Init ==
    /\ at = 0 /\ dl_msg_dropping = FALSE /\ session = FALSE
    /\ state = "REPLY"
    /\ dl_audio_sb = <<>> /\ pending_header = <<>> /\ used = 0
    /\ handshake = FALSE /\ handshake_pending = FALSE
    /\ pc = "wait" /\ start_pc = "idle"
    /\ last_head = 0 /\ repeated = FALSE /\ garbled = FALSE
    /\ reset_mid = FALSE /\ cuts = {}
    /\ starts = 0

-----------------------------------------------------------------------------
(* The WebSocket task: onBinary, with sendAudioDownlink in it.             *)
offset == at % MessageLen
Pieces == IF Fragmented THEN 1..(MessageLen - offset) ELSE {MessageLen}

units(from, n) == [i \in 1..n |-> from + i]

gateOpen      == session \/ state = "REPLY"
stillDropping == offset # 0 /\ dl_msg_dropping

(* Mutated form: what fits of a fragment is written.                       *)
fitsPartly(n) == n # 0 /\ Len(dl_audio_sb) < BufferLen
(* All of a fragment is written or none of it.                             *)
fits(n) == n <= BufferLen - Len(dl_audio_sb)

(* Up to capacity: only fewer than n if fits(n) is mistaken.               *)
written(n) ==
    LET all == dl_audio_sb \o units(at, n)
    IN  IF Len(all) > BufferLen THEN SubSeq(all, 1, BufferLen) ELSE all

Accepted(n) ==
    /\ gateOpen /\ ~stillDropping /\ fits(n)
    /\ dl_audio_sb' = written(n)
    /\ dl_msg_dropping' = FALSE
    /\ handshake' = TRUE
    /\ cuts' = IF reset_mid /\ offset # 0 THEN cuts \cup {"late_tail"} ELSE cuts

Overflows(n) ==
    /\ gateOpen /\ ~stillDropping /\ ~fits(n)
    /\ dl_msg_dropping' = TRUE
    /\ cuts' = IF offset # 0 THEN cuts \cup {"dropped_fragment"} ELSE cuts
    /\ UNCHANGED <<dl_audio_sb, handshake>>

Dropped ==
    /\ ~gateOpen \/ stillDropping
    /\ dl_msg_dropping' = TRUE
    /\ UNCHANGED <<dl_audio_sb, handshake, cuts>>

Fragment(n) ==
    /\ at + n <= MaxUnits /\ at' = at + n
    /\ session' = gateOpen
    /\ reset_mid' = (reset_mid /\ (at + n) % MessageLen # 0)
    /\ Accepted(n) \/ Overflows(n) \/ Dropped
    /\ UNCHANGED <<state, slaveVars, start_pc, histVars, starts>>

-----------------------------------------------------------------------------
(* The SPI slave task: prepareTxFrame, one frame per step.                 *)
headerThere == pending_header # <<>> \/ dl_audio_sb # <<>>

Prepare ==
    /\ pc = "prepare"
    /\ used' = 0
    /\ pc' = IF headerThere THEN "fill" ELSE "sample"
    /\ UNCHANGED <<wsVars, state, dl_audio_sb, pending_header, handshake,
                   handshake_pending, start_pc, histVars, reset_mid, cuts,
                   starts>>

isHeader(u) == (u - 1) % (BodyLen + 1) = 0
isFrame(head, body) == isHeader(head) /\ body = units(head, BodyLen)

(* What a unit gives when it is read as a header.                          *)
lengths(u) == IF isHeader(u) THEN {BodyLen} ELSE Lengths

(* The header kept from the last payload, or the next one in the buffer.   *)
Header ==
    IF pending_header # <<>> THEN {pending_header[1]}
    ELSE [head : {dl_audio_sb[1]}, len : lengths(dl_audio_sb[1])]
Rest == IF pending_header # <<>> THEN dl_audio_sb ELSE Tail(dl_audio_sb)

mayPackMore == used + 1 < PayloadLen /\ headerThere

fitsPayload(len) == used + 1 + len <= PayloadLen

Packed ==
    /\ pc' = "sample"
    /\ UNCHANGED <<wsVars, state, handshake, handshake_pending, start_pc,
                   reset_mid, cuts, starts>>

PackedAll ==
    /\ pc = "fill" /\ ~mayPackMore
    /\ UNCHANGED <<dl_audio_sb, pending_header, used, histVars>>
    /\ Packed

(* The frame does not fit or is not all there: its header is kept.         *)
KeepHeader ==
    /\ pc = "fill" /\ mayPackMore
    /\ \E h \in Header :
         /\ ~fitsPayload(h.len) \/ Len(Rest) < h.len
         /\ pending_header' = <<h>>
    /\ dl_audio_sb' = Rest
    /\ UNCHANGED <<used, histVars>>
    /\ Packed

(* A length that cannot be: the buffer is reset.                           *)
BadHeader ==
    /\ pc = "fill" /\ mayPackMore
    /\ pending_header = <<>> /\ ~isHeader(dl_audio_sb[1])
    /\ dl_audio_sb' = <<>>
    /\ UNCHANGED <<pending_header, used, histVars>>
    /\ Packed

(* Mutated form: has_pending_header_ stays set.                            *)
headerKept == pending_header

headerUsed == <<>>

PackFrame ==
    /\ pc = "fill" /\ mayPackMore
    /\ \E h \in Header :
         /\ fitsPayload(h.len) /\ h.len <= Len(Rest)
         /\ used' = used + 1 + h.len
         /\ dl_audio_sb' = SubSeq(Rest, h.len + 1, Len(Rest))
         /\ garbled' = (garbled \/ ~isFrame(h.head, SubSeq(Rest, 1, h.len)))
         /\ repeated' = (repeated \/ h.head <= last_head)
         /\ last_head' = h.head
    /\ pending_header' = headerUsed
    /\ UNCHANGED <<wsVars, state, handshake, handshake_pending, pc, start_pc,
                   reset_mid, cuts, starts>>

Sample ==
    /\ pc = "sample" /\ pc' = "arm"
    /\ handshake_pending' = (dl_audio_sb # <<>>)
    /\ UNCHANGED <<wsVars, state, dl_audio_sb, pending_header, used, handshake,
                   start_pc, histVars, reset_mid, cuts, starts>>

(* The DMA is loaded: post_setup_cb sets the line.                         *)
Arm ==
    /\ pc = "arm" /\ pc' = "wait"
    /\ handshake' = handshake_pending
    /\ UNCHANGED <<wsVars, state, dl_audio_sb, pending_header, used,
                   handshake_pending, start_pc, histVars, reset_mid, cuts,
                   starts>>

(* The S3 polls: it sees the line high or has audio to send.               *)
Transfer ==
    /\ pc = "wait" /\ pc' = "done"
    /\ UNCHANGED <<wsVars, state, dl_audio_sb, pending_header, used, handshake,
                   handshake_pending, start_pc, histVars, reset_mid, cuts,
                   starts>>

TransferDone ==
    /\ pc = "done"
    /\ pc' = IF dl_audio_sb = <<>> THEN "lower" ELSE "prepare"
    /\ UNCHANGED <<wsVars, state, dl_audio_sb, pending_header, used, handshake,
                   handshake_pending, start_pc, histVars, reset_mid, cuts,
                   starts>>

Lower ==
    /\ pc = "lower" /\ pc' = "prepare"
    /\ handshake' = FALSE
    /\ UNCHANGED <<wsVars, state, dl_audio_sb, pending_header, used,
                   handshake_pending, start_pc, histVars, reset_mid, cuts,
                   starts>>

-----------------------------------------------------------------------------
(* START over a reply, on the UART task: endSpeakingSession,               *)
(* resetDownlink (which leaves the kept header), LISTENING.                *)
uartMayRun == pc = "wait"

StartEndsSession ==
    /\ uartMayRun /\ start_pc = "idle"
    /\ starts < MaxStarts /\ starts' = starts + 1
    /\ session' = FALSE
    /\ start_pc' = "reset"
    /\ UNCHANGED <<at, dl_msg_dropping, state, dl_audio_sb, slaveVars,
                   handshake, histVars, reset_mid, cuts>>

StartResets ==
    /\ uartMayRun /\ start_pc = "reset"
    /\ dl_audio_sb' = <<>>
    /\ reset_mid' = (offset # 0)
    /\ cuts' = IF pending_header # <<>> THEN cuts \cup {"stale_header"} ELSE cuts
    /\ start_pc' = "low"
    /\ UNCHANGED <<wsVars, state, slaveVars, handshake, histVars, starts>>

StartLowers ==
    /\ uartMayRun /\ start_pc = "low"
    /\ handshake' = FALSE
    /\ start_pc' = "set"
    /\ UNCHANGED <<wsVars, state, dl_audio_sb, slaveVars, histVars, reset_mid,
                   cuts, starts>>

StartListens ==
    /\ uartMayRun /\ start_pc = "set"
    /\ state' = "LISTENING"
    /\ start_pc' = "idle"
    /\ UNCHANGED <<wsVars, dl_audio_sb, slaveVars, handshake, histVars,
                   reset_mid, cuts, starts>>

(* The user has spoken: PROCESSING.                                        *)
ListenEnds ==
    /\ uartMayRun /\ start_pc = "idle"
    /\ state = "LISTENING" /\ state' = "REPLY"
    /\ UNCHANGED <<wsVars, dl_audio_sb, slaveVars, handshake, start_pc,
                   histVars, reset_mid, cuts, starts>>

-----------------------------------------------------------------------------
SlaveTask == \/ Prepare \/ PackedAll \/ KeepHeader \/ BadHeader \/ PackFrame
             \/ Sample \/ Arm \/ Transfer \/ TransferDone \/ Lower

UartTask == \/ StartEndsSession \/ StartResets \/ StartLowers \/ StartListens
            \/ ListenEnds

Next == (\E n \in Pieces : Fragment(n)) \/ SlaveTask \/ UartTask

Spec == Init /\ [][Next]_vars

-----------------------------------------------------------------------------
(* What goes to the S3 as a frame is a frame the server sent, unless one   *)
(* of three things broke the stream before: a fragment was dropped behind  *)
(* others of its message, START reset the buffer with a header kept, or    *)
(* the rest of a message came in behind the reset.                         *)
GarbledHasCause == garbled => cuts # {}

(* No header is packed twice, and frames keep their order, whatever is     *)
(* dropped or reset between.                                               *)
NoFrameTwice == ~repeated

(* A header is kept only for a payload that has room for its frame: one    *)
(* that fits no payload would stay for ever and with it all audio after    *)
(* it.  Only a stream broken before gives such a length.                   *)
KeptHeaderFits ==
    pending_header # <<>> /\ cuts = {}
        => pending_header[1].len + 1 <= PayloadLen

(* The stream is intact: nothing is written past the end of a buffer or a  *)
(* payload, and only the three named breaks garble it or keep a header     *)
(* that never fits.                                                        *)
StreamIntact == TypeOK /\ GarbledHasCause /\ KeptHeaderFits
=============================================================================
