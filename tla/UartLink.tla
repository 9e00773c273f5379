------------------------------ MODULE UartLink ------------------------------
(***************************************************************************)
(* The S3's half of the UART: the controller's commands and the camera     *)
(* task's image chunks, byte by byte over a line without flow control,     *)
(* into the C5's receive ring, its FrameParser and its image assembly.     *)
(*                                                                         *)
(* A chunk's seq and an image's total take one byte each, and width and    *)
(* height none; MAX_PAYLOAD is small.  Types, the start byte and the CRC   *)
(* are the real ones, for it is their clash with payload bytes that makes  *)
(* the parser lose its place.  The C5 either streams chunks on (as the     *)
(* device profile wires it) or assembles them.                             *)
(***************************************************************************)
EXTENDS Naturals, FiniteSets, SequencesExt

CONSTANTS
    MAX_PAYLOAD,    \* 250 in UartProtocol.hpp
    RingSize,       \* bytes the C5's receive ring holds
    MaxTotal,       \* the longest image the C5 assembles (64 KB)
    Lengths,        \* the image lengths the camera may produce
    MaxRequests, MaxCommands, MaxFaults      \* bounds on the run

ASSUME MaxPayloadAssumption == MAX_PAYLOAD \in 4..250

(* What the model numbers or measures with a byte fits into one.           *)
ASSUME ByteAssumption ==
    /\ RingSize \in Nat /\ MaxTotal \in Nat /\ Lengths \subseteq 1..255
    /\ MaxRequests \in 0..255 /\ MaxCommands \in 0..255 /\ MaxFaults \in Nat

VARIABLES
    \* S3: a capture asked for, the camera task, its picture, chunks sent
    notified, camTask, picture, off,
    \* the line; did a fault move a frame's start, its length or its bytes?
    ring, faults, shifted,
    \* C5: the parser, image_chunk_cb_ set?, the assembly
    parser, streaming, img,
    \* history
    requests, taken, commands, sent, handled, images

s3Vars   == <<notified, camTask, picture, off>>
lineVars == <<ring, faults, shifted>>
c5Vars   == <<parser, streaming, img>>
histVars == <<requests, taken, commands, sent, handled, images>>
vars     == <<s3Vars, lineVars, c5Vars, histVars>>

FRAME_START == 85
CONTROL_CMD == 2
IMAGE_CHUNK == 7
FLAG_FIRST  == 1
FLAG_LAST   == 2
CHUNK_HDR   == 2
FIRST_HDR   == 1

NoImage == [buf |-> <<>>, total |-> 0, seq |-> 0, live |-> FALSE]

(* What the camera sees changes from picture to picture; the first one is  *)
(* full of start bytes.                                                    *)
Content(n, len) == [i \in 1..len |-> IF n = 1 THEN FRAME_START
                                     ELSE IF n = FRAME_START THEN 1 ELSE n]

-----------------------------------------------------------------------------
(* UartProtocol.hpp                                                        *)

xor(a, b) ==
    LET bit(w) == IF (a \div w) % 2 = (b \div w) % 2 THEN 0 ELSE w
    IN bit(1) + bit(2) + bit(4) + bit(8) + bit(16) + bit(32) + bit(64) + bit(128)

(* As tables: exclusive or, one round of the CRC's inner loop and all 8.   *)
XorTable == [a \in 0..255 |-> [b \in 0..255 |-> xor(a, b)]]
Shift    == [c \in 0..255 |-> IF c >= 128 THEN xor((c * 2) % 256, 7) ELSE c * 2]
CrcTable == [b \in 0..255 |->
               Shift[Shift[Shift[Shift[Shift[Shift[Shift[Shift[b]]]]]]]]]

crc8(data) ==
    LET crc[n \in 0..Len(data)] ==
            IF n = 0 THEN 0 ELSE CrcTable[XorTable[crc[n - 1]][data[n]]]
    IN crc[Len(data)]

buildFrame(type, payload) ==
    LET body == <<type, Len(payload)>> \o payload
    IN <<FRAME_START>> \o body \o <<crc8(body)>>

(* What type_, len_ and payload_ held is not read once a frame is over.    *)
Fresh == [state_ |-> "WAIT_START", type_ |-> 0, len_ |-> 0, payload_ |-> <<>>,
          ready |-> FALSE]

(* The length byte.  Mutated form: the longest payload is refused.         *)
feedLenShort(p, byte) ==
    IF byte >= MAX_PAYLOAD
      THEN [p EXCEPT !.len_ = byte, !.state_ = "WAIT_START"]
      ELSE [p EXCEPT !.len_ = byte, !.payload_ = <<>>,
                     !.state_ = IF byte > 0 THEN "PAYLOAD" ELSE "WAIT_CRC"]

feedLen(p, byte) ==
    IF byte > MAX_PAYLOAD
      THEN [p EXCEPT !.len_ = byte, !.state_ = "WAIT_START"]
      ELSE [p EXCEPT !.len_ = byte, !.payload_ = <<>>,
                     !.state_ = IF byte > 0 THEN "PAYLOAD" ELSE "WAIT_CRC"]

(* The CRC byte.  Mutated form: a broken frame is handed up all the same.  *)
feedCrcAny(p, byte) == [p EXCEPT !.state_ = "WAIT_START", !.ready = TRUE]

feedCrc(p, byte) ==
    [p EXCEPT !.state_ = "WAIT_START",
              !.ready = (byte = crc8(<<p.type_, p.len_>> \o p.payload_))]

(* FrameParser::feed; idx_ is the length of payload_.                      *)
feed(p, byte) ==
    CASE p.state_ = "WAIT_START" ->
            IF byte = FRAME_START THEN [p EXCEPT !.state_ = "WAIT_TYPE"] ELSE p
      [] p.state_ = "WAIT_TYPE" ->
            [p EXCEPT !.type_ = byte, !.state_ = "WAIT_LEN"]
      [] p.state_ = "WAIT_LEN" -> feedLen(p, byte)
      [] p.state_ = "PAYLOAD" ->
            [p EXCEPT !.payload_ = Append(@, byte),
                      !.state_ = IF Len(p.payload_) + 1 >= p.len_
                                   THEN "WAIT_CRC" ELSE @]
      [] p.state_ = "WAIT_CRC" -> feedCrc(p, byte)

(* The parser once it has a frame or the bytes are used up.                *)
Parse(p, bytes) ==
    LET after[n \in 0..Len(bytes)] ==
            IF n = 0 THEN [p |-> p, used |-> 0]
            ELSE LET a == after[n - 1]
                 IN IF a.p.ready THEN a
                    ELSE [p |-> feed(a.p, bytes[n]), used |-> n]
    IN after[Len(bytes)]

-----------------------------------------------------------------------------
TypeOK ==
    /\ notified \in BOOLEAN /\ camTask \in {"wait", "capture", "send"}
    /\ picture \in Seq(0..255) /\ off \in 0..Len(picture)
    /\ ring \in Seq(0..255) /\ Len(ring) <= RingSize
    /\ faults \in 0..MaxFaults /\ shifted \in BOOLEAN
    /\ parser.state_ \in {"WAIT_START", "WAIT_TYPE", "WAIT_LEN", "PAYLOAD",
                          "WAIT_CRC"}
    /\ parser.len_ \in 0..255 /\ Len(parser.payload_) <= MAX_PAYLOAD
    /\ streaming \in BOOLEAN
    /\ img.total <= MaxTotal /\ Len(img.buf) <= img.total
    /\ requests \in 0..MaxRequests /\ taken \in 0..requests
    /\ commands \in 0..MaxCommands

Init ==
    /\ notified = FALSE /\ camTask = "wait" /\ picture = <<>> /\ off = 0
    /\ ring = <<>> /\ faults = 0 /\ shifted = FALSE
    /\ parser = Fresh /\ streaming \in BOOLEAN
    /\ img = NoImage
    /\ requests = 0 /\ taken = 0 /\ commands = 0
    /\ sent = <<>> /\ handled = <<>> /\ images = <<>>

-----------------------------------------------------------------------------
(* The line (external): whole writes follow each other; noise loses a byte *)
(* or turns a bit; what the ring has no room for is gone.                  *)

Damaged(frame) ==
    {RemoveAt(frame, i) : i \in DOMAIN frame}
        \cup {[frame EXCEPT ![i] = xor(@, bit)] :
                 i \in DOMAIN frame, bit \in {1, 128}}

Room == RingSize - Len(ring)

uart_write_bytes(type, payload) ==
    LET frame == buildFrame(type, payload)
        Arrive(bytes) ==
          /\ ring' = ring \o bytes
          /\ shifted' = (\/ shifted \/ Len(bytes) # Len(frame)
                         \/ bytes[1] # frame[1] \/ bytes[3] # frame[3])
    IN /\ sent' = Append(sent, [type |-> type, payload |-> payload])
       /\ \/ Len(frame) <= Room /\ Arrive(frame) /\ UNCHANGED faults
          \/ /\ faults < MaxFaults /\ faults' = faults + 1
             /\ IF Len(frame) > Room
                  THEN Arrive(SubSeq(frame, 1, Room))
                  ELSE \E bytes \in Damaged(frame) : Arrive(bytes)

-----------------------------------------------------------------------------
(* The S3.                                                                 *)

sendControlCmd ==
    /\ commands < MaxCommands /\ commands' = commands + 1
    /\ uart_write_bytes(CONTROL_CMD, <<commands + 1>>)
    /\ UNCHANGED <<s3Vars, c5Vars, requests, taken, handled, images>>

(* CAMERA_CAPTURE from the server; requests collapse until the task takes  *)
(* them.                                                                   *)
CameraCapture ==
    /\ requests < MaxRequests /\ requests' = requests + 1
    /\ notified' = TRUE
    /\ UNCHANGED <<camTask, picture, off, lineVars, c5Vars, taken, commands,
                   sent, handled, images>>

TakeRequest ==
    /\ camTask = "wait" /\ notified
    /\ notified' = FALSE /\ camTask' = "capture"
    /\ UNCHANGED <<picture, off, lineVars, c5Vars, histVars>>

(* A camera that gives no usable frame ends the request silently.          *)
captureJpeg ==
    /\ camTask = "capture"
    /\ \/ \E len \in Lengths :
            /\ picture' = Content(taken + 1, len)
            /\ taken' = taken + 1
            /\ camTask' = "send"
       \/ camTask' = "wait" /\ UNCHANGED <<picture, taken>>
    /\ UNCHANGED <<notified, off, lineVars, c5Vars, requests, commands, sent,
                   handled, images>>

(* One round of sendImage's loop.                                          *)
sendImage ==
    LET first == off = 0
        head  == IF first THEN <<Len(picture)>> ELSE <<>>
        room  == MAX_PAYLOAD - CHUNK_HDR - Len(head)
        n     == Min({Len(picture) - off, room})
        last  == off + n >= Len(picture)
        later == MAX_PAYLOAD - CHUNK_HDR
        seq   == IF first THEN 0
                 ELSE 1 + (off - (later - FIRST_HDR)) \div later
        flags == (IF first THEN FLAG_FIRST ELSE 0)
                     + (IF last THEN FLAG_LAST ELSE 0)
    IN /\ camTask = "send"
       /\ uart_write_bytes(IMAGE_CHUNK,
                           <<seq, flags>> \o head
                               \o SubSeq(picture, off + 1, off + n))
       /\ off' = IF last THEN 0 ELSE off + n
       /\ camTask' = IF last THEN "wait" ELSE "send"
       /\ picture' = IF last THEN <<>> ELSE picture
       /\ UNCHANGED <<notified, c5Vars, requests, taken, commands,
                      handled, images>>

-----------------------------------------------------------------------------
(* The C5's rxLoop.                                                        *)

(* No frame is complete yet.                                               *)
rxPartial ==
    LET r == Parse(parser, ring)
    IN /\ ring # <<>> /\ ~r.p.ready
       /\ parser' = r.p
       /\ ring' = <<>>
       /\ UNCHANGED <<s3Vars, faults, shifted, streaming, img,
                      histVars>>

(* The next frame, and what it is; one that is neither is ignored.         *)
isChunk(p)   == p.type_ = IMAGE_CHUNK /\ Len(p.payload_) >= CHUNK_HDR
isControl(p) == p.type_ = CONTROL_CMD /\ Len(p.payload_) >= 1
kind(p)      == IF isChunk(p) THEN "chunk"
                ELSE IF isControl(p) THEN "control" ELSE "ignored"

rxFrame(kinds) ==
    LET r == Parse(parser, ring)
    IN /\ r.p.ready /\ kind(r.p) \in kinds
       /\ parser' = Fresh
       /\ ring' = SubSeq(ring, r.used + 1, Len(ring))
       /\ handled' = IF kind(r.p) # "ignored"
                       THEN Append(handled, [type |-> r.p.type_,
                                             payload |-> r.p.payload_])
                       ELSE handled
       /\ UNCHANGED <<s3Vars, faults, shifted, streaming, requests,
                      taken, commands, sent>>

rxControl ==
    /\ rxFrame({"control", "ignored"})
    /\ UNCHANGED <<img, images>>

(* image_chunk_cb_: one WebSocket message per chunk, if it goes out.       *)
forwardChunk ==
    /\ streaming
    /\ rxFrame({"chunk"})
    /\ UNCHANGED <<img, images>>

(* Mutated form: a gap in the sequence is not looked at.                   *)
assembleNoGapCheck(seq, flags, data) ==
    LET first == flags % 2 = FLAG_FIRST
        begun == IF ~first THEN img
                 ELSE IF data = <<>> \/ data[1] \notin 1..MaxTotal THEN NoImage
                 ELSE [NoImage EXCEPT !.total = data[1], !.live = TRUE]
        more  == IF first THEN Tail(data) ELSE data
        grown == [begun EXCEPT !.buf = @ \o more, !.seq = @ + 1]
        done  == flags >= FLAG_LAST
    IN IF ~begun.live
         THEN img' = begun /\ UNCHANGED images
       ELSE IF Len(grown.buf) > begun.total
         THEN img' = NoImage /\ UNCHANGED images
       ELSE /\ img' = IF done THEN NoImage ELSE grown
            /\ images' = IF done /\ Len(grown.buf) = grown.total
                           THEN Append(images, grown.buf) ELSE images

(* A first chunk starts afresh; a gap or an image that grows too long      *)
(* drops it; the last chunk hands it over if it is complete.  There is     *)
(* memory for the buffer or there is not.                                  *)
assemble(seq, flags, data) ==
    LET first == flags % 2 = FLAG_FIRST
        begun == IF ~first THEN img
                 ELSE IF data = <<>> \/ data[1] \notin 1..MaxTotal THEN NoImage
                 ELSE [NoImage EXCEPT !.total = data[1], !.live = TRUE]
        more  == IF first THEN Tail(data) ELSE data
        grown == [begun EXCEPT !.buf = @ \o more, !.seq = @ + 1]
        done  == flags >= FLAG_LAST
    IN IF ~begun.live
         THEN img' = begun /\ UNCHANGED images
       ELSE IF seq # begun.seq \/ Len(grown.buf) > begun.total
         THEN img' = NoImage /\ UNCHANGED images
       ELSE /\ img' = IF done THEN NoImage ELSE grown
            /\ images' = IF done /\ Len(grown.buf) = grown.total
                           THEN Append(images, grown.buf) ELSE images

assembleChunk ==
    /\ ~streaming
    /\ rxFrame({"chunk"})
    /\ LET p == Last(handled').payload
       IN \/ assemble(p[1], p[2], SubSeq(p, 3, Len(p)))
          \/ p[2] % 2 = FLAG_FIRST /\ img' = NoImage /\ UNCHANGED images

Next ==
    \/ sendControlCmd \/ CameraCapture \/ TakeRequest \/ captureJpeg
    \/ sendImage \/ rxPartial \/ rxControl \/ forwardChunk \/ assembleChunk

Spec == Init /\ [][Next]_vars

-----------------------------------------------------------------------------
(* Every frame sent is different, so a frame stands for its place.         *)
PlaceOf(frame) == CHOOSE i \in DOMAIN sent : sent[i] = frame
Gone   == {i \in DOMAIN sent : sent[i] \notin Range(handled)}
Forged == ~(Range(handled) \subseteq Range(sent))
Plain(frame) == FRAME_START \notin
                    Range(Tail(buildFrame(frame.type, frame.payload)))

(* What comes out of the parser is sound: it is bounded by its buffers,    *)
(* and nothing else than what was sent.  An 8-bit CRC lets a frame that    *)
(* was never sent through only where a fault has shifted the bytes: then   *)
(* one false frame in 256 fits by chance.                                  *)
NothingForged == Forged => shifted
FramesSound   == TypeOK /\ NothingForged

(* Frames come up in the order they were sent, each once.                  *)
InSendingOrder ==
    \A i, j \in DOMAIN handled :
       i < j /\ {handled[i], handled[j]} \subseteq Range(sent)
         => PlaceOf(handled[i]) < PlaceOf(handled[j])

(* A parser that has lost its place finds it again, and goes on in order:  *)
(* with no fault every frame gets through, a fault costs one run of        *)
(* frames, and the run ends at the latest after as many frames without a   *)
(* start byte in them as fit into one false frame.                         *)
PlaceIsFound ==
    LET span == 1 + (MAX_PAYLOAD + 3) \div 5
    IN /\ InSendingOrder
       /\ ring = <<>> =>
            /\ faults = 0 => Gone = {}
            /\ \A i, j \in Gone : i..j \subseteq Gone
            /\ \A i \in Gone :
                  (\A j \in (i + 1)..(i + span) : j \in Gone /\ Plain(sent[j]))
                      => i + span + 1 \notin Gone

(* An assembled image is one whole picture.  The sequence restarts with    *)
(* every picture, so a picture's tail could be joined to another's head    *)
(* only where one run of losses takes as many chunks as the picture has.   *)
Chunks(len) == 1 + len \div (MAX_PAYLOAD - 2)
WholeImage ==
    \A im \in Range(images) :
       \/ Forged
       \/ im \in {Content(n, Len(im)) : n \in 1..MaxRequests}
       \/ Cardinality(Gone) >= Chunks(Len(im))
=============================================================================
