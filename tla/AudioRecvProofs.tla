-------------------------- MODULE AudioRecvProofs --------------------------
(***************************************************************************)
(* Why AudioRecv finds the frames and why a reply plays only its own, for  *)
(* any sizes of the two buffers and any number of replies and frames.      *)
(***************************************************************************)
EXTENDS AudioRecv, SequenceTheorems, TLAPS

InFrame == {"header", "payload", "push", "scan", "trial"}

(* What AudioRecv has in its hands, by where it is.                        *)
HeldOK ==
    /\ recv \in {"top", "drain", "rest"} => held = <<>>
    /\ recv = "header" => Len(held) <= 1
    /\ recv \in {"payload", "trial", "push"} =>
           Len(held) >= 2 /\ Len(held) + need <= 4
    /\ recv = "scan" => Len(held) = 2
    /\ recv \notin {"payload", "trial"} => need = 0
    /\ recv \in InFrame => enc_prebuffered

(* The part of a frame that AudioRecv takes next.                          *)
place == CASE recv = "header" /\ held # <<>> -> 2
           [] recv = "payload" /\ need > 0   -> 3
           [] OTHER                          -> 1

(* Bytes as they follow each other in a stream of whole frames.            *)
Follows(a, b) == \/ a.part = 3 /\ b.part = 1
                 \/ a.part < 3 /\ b.part = a.part + 1 /\ b.frame = a.frame

Whole(bytes) ==
    /\ \A i \in 1 .. Len(bytes) - 1 : Follows(bytes[i], bytes[i + 1])
    /\ bytes # <<>> => bytes[Len(bytes)].part = 3

(* Unless it is torn, the stream is the rest of the frame AudioRecv is in  *)
(* and whole frames behind it.                                             *)
InStep ==
    /\ recv \notin {"scan", "trial"}
    /\ recv = "payload" => need <= 1
    /\ Whole(enc)
    /\ enc # <<>> => enc[1].part = place
    /\ place # 1 => enc # <<>>
    /\ place = 2 => held[1].part = 1 /\ enc[1].frame = held[1].frame

StreamOK == ~torn => InStep

(* A reply that is over has no more to come, and nothing of it is left     *)
(* when the last stop is done.                                             *)
Stopping == \E t \in DOMAIN stop : stop[t] # "none"
StopOK ==
    /\ reply > 0 /\ (~speaking \/ Stopping) => frames = MaxFrames
    /\ \A t \in DOMAIN stop : stop[t] = "reset" => ~speaking
    /\ recv = "rest" => ~speaking
    /\ ~speaking /\ ~Stopping => enc = <<>>
    /\ ~speaking /\ ~Stopping /\ ~kept =>
           pcm = <<>> \/ (enc_prebuffered /\ recv \in {"top", "rest"})

(* While a reply plays, what comes in is its own, and so is a frame in     *)
(* AudioRecv's hands that can be told from rubbish.                        *)
BytesOwn == speaking => \A i \in DOMAIN enc : enc[i].reply = reply

FrameOwn ==
    speaking /\ ~kept /\ recv \in {"payload", "push"} /\ need = 0 /\ rightFrame
        => held[1].reply = reply

IInv == /\ TypeOK /\ HeldOK /\ StreamOK
        /\ StopOK /\ BytesOwn /\ FrameOwn /\ NoOldAudio

-----------------------------------------------------------------------------
(* The bounds of AudioBounds one by one.                                   *)
LEMMA Bounds ==
    /\ PreBuf \in Nat \ {0} /\ EncRoom \in Nat \ {0} /\ PcmRoom \in Nat \ {0}
    /\ PlayBuf \in Nat \ {0} /\ MaxErrors \in Nat \ {0}
    /\ MaxReplies \in Nat /\ MaxFrames \in Nat /\ MaxCuts \in Nat
  BY AudioBounds

USE Bounds

FlagsOK == {speaking, enc_prebuffered, decoded, play_prebuffered, played,
            torn, kept} \subseteq BOOLEAN

Tasks == {"recv", "other"}
Points == {"top", "header", "payload", "push", "scan", "trial", "drain", "rest"}
Stops  == {"none", "drain", "reset"}

HandsOK ==
    /\ enc \in Seq(Byte) /\ Len(enc) <= EncRoom
    /\ recv \in Points
    /\ held \in Seq(Byte) /\ Len(held) <= 4 /\ need \in 0..2
    /\ errors \in 0 .. MaxErrors - 1

RestOK ==
    /\ pcm \in Seq(0..MaxReplies) /\ Len(pcm) <= PcmRoom
    /\ stop \in [Tasks -> Stops]
    /\ reply \in 0..MaxReplies /\ frames \in 0..MaxFrames /\ cuts \in 0..MaxCuts

RangesOK == HandsOK /\ RestOK

(* TypeOK in two parts: flags, for Zenon, and ranges, for SMT.             *)
LEMMA TypeParts == TypeOK <=> FlagsOK /\ RangesOK
  BY Zenon DEF TypeOK, FlagsOK, RangesOK, HandsOK, RestOK, Points, Stops, Tasks

-----------------------------------------------------------------------------
(* Sequences: what is left when the first is taken, what is there when one *)
(* or a whole frame is put behind.                                         *)
LEMMA EmptyLen == ASSUME NEW S, NEW q \in Seq(S) PROVE Len(q) \in Nat /\ (q = <<>> <=> Len(q) = 0)
  BY EmptySeq, LenProperties

(* What a receive from the front of a buffer leaves.                       *)
LEMMA TailSeq ==
    ASSUME NEW S, NEW q \in Seq(S), q # <<>>
    PROVE  /\ Tail(q) \in Seq(S) /\ Len(Tail(q)) = Len(q) - 1
           /\ Len(q) \in Nat \ {0}
           /\ \A i \in 1 .. Len(q) - 1 : Tail(q)[i] = q[i + 1]
           /\ Head(q) = q[1] /\ q[1] \in S
           /\ Tail(q) # <<>> <=> Len(q) > 1
  <1>1. /\ Tail(q) \in Seq(S) /\ Len(Tail(q)) = Len(q) - 1
        /\ \A i \in 1 .. Len(q) - 1 : Tail(q)[i] = q[i + 1]
        /\ Head(q) \in S
    BY HeadTailProperties
  <1>2. Len(q) \in Nat \ {0}
    BY EmptyLen
  <1>3. Head(q) = q[1]
    BY <1>2
  <1>4. Tail(q) = <<>> <=> Len(Tail(q)) = 0
    BY <1>1, EmptyLen
  <1>5. QED
    BY <1>1, <1>2, <1>3, <1>4

(* What a send to the end of a buffer adds.                                *)
LEMMA AppendSeq ==
    ASSUME NEW S, NEW q \in Seq(S), NEW x \in S
    PROVE  /\ Append(q, x) \in Seq(S) /\ Len(Append(q, x)) = Len(q) + 1
           /\ \A i \in 1 .. Len(q) : Append(q, x)[i] = q[i]
           /\ Append(q, x)[Len(q) + 1] = x
           /\ Append(q, x) # <<>>
  BY AppendProperties

(* Two buffers, one behind the other.                                      *)
LEMMA ConcatSeq ==
    ASSUME NEW S, NEW q \in Seq(S), NEW b \in Seq(S)
    PROVE  /\ q \o b \in Seq(S) /\ Len(q \o b) = Len(q) + Len(b)
           /\ \A i \in 1 .. Len(q) + Len(b) :
                  (q \o b)[i] = IF i <= Len(q) THEN q[i] ELSE b[i - Len(q)]
  BY ConcatProperties

(* A frame from SPI is two bytes of length and one of payload, in order.   *)
LEMMA FrameSeq ==
    ASSUME NEW r \in 1..MaxReplies, NEW f \in 1..MaxFrames
    PROVE  /\ frameOf(r, f) \in Seq(Byte) /\ Len(frameOf(r, f)) = 3
           /\ frameOf(r, f) # <<>>
           /\ \A i \in 1..3 : /\ frameOf(r, f)[i].reply = r
                              /\ frameOf(r, f)[i].frame = f
                              /\ frameOf(r, f)[i].part = i
  <1>1. \A i \in 1..3 : [reply |-> r, frame |-> f, part |-> i] \in Byte
    BY DEF Byte
  <1>2. frameOf(r, f) \in [1..3 -> Byte]
    BY <1>1 DEF frameOf
  <1>3. frameOf(r, f) \in Seq(Byte) /\ Len(frameOf(r, f)) = 3
    <2>1. frameOf(r, f) \in Seq(Byte)
      BY <1>2, SeqDef
    <2>2. DOMAIN frameOf(r, f) = 1..3
      BY DEF frameOf
    <2>3. QED
      BY <2>1, <2>2, LenProperties
  <1>4. QED
    BY <1>3, EmptySeq DEF frameOf

(* A buffer of whole frames stays one without its first byte.              *)
LEMMA WholeTail ==
    ASSUME NEW q \in Seq(Byte), Whole(q), q # <<>>
    PROVE  /\ Whole(Tail(q))
           /\ Tail(q) # <<>> => Follows(q[1], Tail(q)[1])
           /\ Tail(q) = <<>> => q[1].part = 3
  BY TailSeq DEF Whole

(* A buffer of whole frames stays one with a frame behind it.              *)
LEMMA WholeJoin ==
    ASSUME NEW q \in Seq(Byte), Whole(q),
           NEW r \in 1..MaxReplies, NEW f \in 1..MaxFrames
    PROVE  /\ Whole(q \o frameOf(r, f))
           /\ q \o frameOf(r, f) # <<>>
           /\ (q \o frameOf(r, f))[1] = IF q = <<>> THEN frameOf(r, f)[1] ELSE q[1]
  <1> DEFINE b == frameOf(r, f)
  <1>1. /\ b \in Seq(Byte) /\ Len(b) = 3 /\ b # <<>>
        /\ \A i \in 1..3 : b[i].part = i /\ b[i].frame = f
    BY FrameSeq
  <1> HIDE DEF b
  <1> DEFINE w == q \o b
             n == Len(q)
  <1>0. n \in Nat /\ (q = <<>> <=> n = 0)
    BY EmptyLen
  <1>2. /\ w \in Seq(Byte) /\ Len(w) = n + 3
        /\ \A i \in 1 .. n : w[i] = q[i]
        /\ \A i \in 1..3 : w[n + i] = b[i]
    <2>1. /\ w \in Seq(Byte) /\ Len(w) = n + Len(b)
          /\ \A i \in 1 .. n + Len(b) : w[i] = IF i <= n THEN q[i] ELSE b[i - n]
      BY <1>1, ConcatSeq
    <2> HIDE DEF w, n
    <2>2. ASSUME NEW i \in 1..3 PROVE w[n + i] = b[i]
      BY <2>1, <1>1, <1>0
    <2>3. QED
      BY <2>1, <2>2, <1>1, <1>0
  <1>w. /\ \A i \in 1 .. n - 1 : Follows(q[i], q[i + 1])
        /\ q # <<>> => q[n].part = 3
    BY DEF Whole
  <1> HIDE DEF w, n
  <1>l. Len(w) = n + 3
    BY <1>2
  <1>n. \A i \in 1 .. n : i \in 1 .. Len(w) /\ w[i] = q[i]
    BY <1>2, <1>0
  <1>m. w[n + 1] = b[1] /\ w[n + 2] = b[2] /\ w[n + 3] = b[3]
    BY <1>2
  <1>3. /\ w[n + 1].part = 1 /\ w[n + 2].part = 2 /\ w[n + 3].part = 3
        /\ w[n + 1].frame = f /\ w[n + 2].frame = f /\ w[n + 3].frame = f
    BY <1>1, <1>m
  <1>4. ASSUME NEW i \in 1 .. Len(w) - 1 PROVE Follows(w[i], w[i + 1])
    <2>1. CASE i < n
      <3>1. i \in 1 .. n - 1 /\ i \in 1 .. n /\ i + 1 \in 1 .. n
        BY <2>1, <1>0, <1>l
      <3>2. w[i] = q[i] /\ w[i + 1] = q[i + 1]
        BY <3>1, <1>n
      <3>3. QED
        BY <3>1, <3>2, <1>w
    <2>2. CASE i = n
      <3>1. w[i].part = 3
        <4>1. n \in 1 .. n /\ q # <<>>
          BY <2>2, <1>0, <1>2
        <4>2. w[n] = q[n]
          BY <4>1, <1>n
        <4>3. QED
          BY <2>2, <4>1, <4>2, <1>w
      <3>2. QED
        BY <2>2, <3>1, <1>3 DEF Follows
    <2>3. CASE i = n + 1
      <3>1. i + 1 = n + 2
        BY <2>3, <1>0
      <3>2. QED
        BY <2>3, <3>1, <1>3 DEF Follows
    <2>4. CASE i = n + 2
      <3>1. i + 1 = n + 3
        BY <2>4, <1>0
      <3>2. QED
        BY <2>4, <3>1, <1>3 DEF Follows
    <2>5. QED
      BY <2>1, <2>2, <2>3, <2>4, <1>2, <1>0
  <1>5. Whole(w)
    BY <1>4, <1>3, <1>2, <1>0 DEF Whole
  <1>6. w # <<>> /\ w[1] = IF q = <<>> THEN b[1] ELSE q[1]
    BY <1>2, <1>0, EmptyLen
  <1>7. QED
    BY <1>5, <1>6 DEF w, b

-----------------------------------------------------------------------------
(* At boot both buffers are empty and no reply runs.                       *)
LEMMA InitIInv == Init => IInv
  <1> SUFFICES ASSUME Init PROVE IInv
    OBVIOUS
  <1> USE DEF Init
  <1>1. FlagsOK
    BY Zenon DEF FlagsOK
  <1>2. RangesOK
    BY EmptySeq DEF RangesOK, HandsOK, RestOK, Points, Stops, Tasks
  <1>3. HeldOK
    BY EmptySeq DEF HeldOK, InFrame
  <1>4. StreamOK
    BY EmptySeq DEF StreamOK, InStep, Whole, place
  <1>5. StopOK /\ BytesOwn /\ FrameOwn /\ NoOldAudio
    BY DEF StopOK, Stopping, BytesOwn, FrameOwn, NoOldAudio
  <1>6. QED
    BY <1>1, <1>2, <1>3, <1>4, <1>5, TypeParts DEF IInv

(* The flags stay flags.                                                   *)
LEMMA NextFlagsOK == FlagsOK /\ [Next]_vars => FlagsOK'
  <1> SUFFICES ASSUME FlagsOK, [Next]_vars PROVE FlagsOK'
    OBVIOUS
  <1> USE Zenon DEF FlagsOK, recvVars, playVars, inVars, hist
  <1>1. CASE startSpeaking \/ onAudioDownlink \/ stopSpeaking
    BY <1>1 DEF startSpeaking, onAudioDownlink, stopSpeaking
  <1>2. ASSUME NEW t \in DOMAIN stop, StopDrained(t) \/ StopResets(t) PROVE FlagsOK'
    <2>1. midFrame \in BOOLEAN /\ blocked \in BOOLEAN
      BY DEF midFrame, blocked
    <2>2. QED
      BY <1>2, <2>1 DEF StopDrained, StopResets
  <1>3. CASE SeesRest \/ Rests \/ PreBuffers \/ Stale \/ GoesOn
    BY <1>3 DEF SeesRest, Rests, PreBuffers, Stale, GoesOn
  <1>4. CASE ReadHeader
    BY <1>4 DEF ReadHeader, StartDrain
  <1>5. CASE HeaderLate \/ ReadPayload \/ Push \/ Scan \/ Trial \/ Drain
    BY <1>5 DEF HeaderLate, ReadPayload, Push, Scan, Trial, Drain
  <1>6. CASE PayloadLate \/ Decode
    BY <1>6 DEF PayloadLate, Decode, Failed, StartDrain
  <1>7. CASE SpkPlay
    BY <1>7 DEF SpkPlay, PlayRests, PlayPreBuffers, Play
  <1>8. CASE UNCHANGED vars
    BY <1>8 DEF vars
  <1>9. QED
    BY <1>1, <1>2, <1>3, <1>4, <1>5, <1>6, <1>7, <1>8 DEF Next, Recv

(* A reset buffer is a buffer.                                             *)
LEMMA EmptyIsSeq == \A S : <<>> \in Seq(S) /\ Len(<<>>) = 0
  BY EmptySeq

(* The buffers are never overrun, and AudioRecv's hands fit what it is at. *)

(* No step leaves the ranges of the counters and the PCM buffer.           *)
LEMMA NextRestOK == HandsOK /\ RestOK /\ [Next]_vars => RestOK'
  <1> SUFFICES ASSUME HandsOK, RestOK, [Next]_vars PROVE RestOK'
    OBVIOUS
  <1> USE DEF RestOK, recvVars, playVars, inVars
  <1>0. <<>> \in Seq(0..MaxReplies) /\ Len(<<>>) <= PcmRoom
    BY EmptyIsSeq
  <1>1. CASE startSpeaking \/ stopSpeaking \/ Stale
    BY <1>1 DEF startSpeaking, stopSpeaking, Stale, Stops
  <1>2. CASE onAudioDownlink
    BY <1>2 DEF onAudioDownlink
  <1>3. ASSUME NEW t \in DOMAIN stop, StopDrained(t) \/ StopResets(t) PROVE RestOK'
    BY <1>0, <1>3 DEF StopDrained, StopResets, resetPcm, Stops
  <1>4. CASE SeesRest \/ Rests \/ PreBuffers \/ GoesOn \/ HeaderLate
    BY <1>0, <1>4 DEF SeesRest, Rests, PreBuffers, GoesOn, HeaderLate
  <1>5. CASE ReadHeader \/ ReadPayload \/ PayloadLate \/ Decode \/ Scan \/ Trial \/ Drain
    BY <1>5 DEF ReadHeader, ReadPayload, PayloadLate, Decode, Scan, Trial, Drain
  <1>6. CASE Push
    <2>1. sound \in 0..MaxReplies
      <3>1. rightFrame => held[1] \in Byte
        <4>1. Len(held) = 3 => 1 \in 1 .. Len(held)
          OBVIOUS
        <4>2. held \in Seq(Byte)
          BY DEF HandsOK
        <4>3. QED
          BY <4>1, <4>2, ElementOfSeq DEF rightFrame
      <3>2. \A b \in Byte : b.reply \in 0..MaxReplies
        BY DEF Byte
      <3>3. QED
        BY <3>1, <3>2 DEF sound
    <2>2. Len(pcm) < PcmRoom => /\ Append(pcm, sound) \in Seq(0..MaxReplies)
                                /\ Len(Append(pcm, sound)) <= PcmRoom
      BY <2>1, AppendSeq, EmptyLen
    <2>3. QED
      BY <1>6, <2>2 DEF Push
  <1>7. CASE SpkPlay
    <2>1. pcm # <<>> => Tail(pcm) \in Seq(0..MaxReplies) /\ Len(Tail(pcm)) <= PcmRoom
      BY TailSeq
    <2>2. QED
      BY <1>7, <2>1 DEF SpkPlay, PlayRests, PlayPreBuffers, Play
  <1>8. CASE UNCHANGED vars
    BY <1>8 DEF vars
  <1>9. QED
    BY <1>1, <1>2, <1>3, <1>4, <1>5, <1>6, <1>7, <1>8 DEF Next, Recv

(* The buffer is never overrun, and AudioRecv's hands fit what it is at.   *)
Fits == HandsOK /\ HeldOK

(* A reset encoded buffer is one.                                          *)
LEMMA ByteEmpty == <<>> \in Seq(Byte) /\ Len(<<>>) = 0
  BY EmptySeq

(* A buffer that is kept or reset stays within its room.                   *)
LEMMA NextEnc ==
    ASSUME enc \in Seq(Byte), Len(enc) <= EncRoom, enc' \in {enc, <<>>}
    PROVE  enc' \in Seq(Byte) /\ Len(enc') <= EncRoom
  <1>1. CASE enc' = enc
    BY <1>1
  <1>2. CASE enc' = <<>>
    BY <1>2, ByteEmpty
  <1>3. QED
    BY <1>1, <1>2

(* A step back to the top, to the drain or to rest has empty hands.        *)
LEMMA GoesFits ==
    ASSUME HandsOK, enc' \in Seq(Byte), Len(enc') <= EncRoom,
           goes("top") \/ goes("drain") \/ goes("rest"), errors' \in 0 .. MaxErrors - 1
    PROVE  Fits'
  <1>1. /\ recv' \in {"top", "drain", "rest"} /\ recv' \notin InFrame
        /\ held' = <<>> /\ need' = 0
    BY DEF goes, InFrame
  <1>2. /\ held' \in Seq(Byte) /\ Len(held') = 0
    BY <1>1, ByteEmpty
  <1>3. HandsOK'
    BY <1>1, <1>2 DEF HandsOK, Points
  <1>4. HeldOK'
    BY <1>1, <1>2 DEF HeldOK, InFrame
  <1>5. QED
    BY <1>3, <1>4 DEF Fits

(* Likewise after a frame that could not be decoded.                       *)
LEMMA FailedFits ==
    ASSUME HandsOK, Failed
    PROVE  Fits'
  <1>1. errors + 1 < MaxErrors => errors + 1 \in 0 .. MaxErrors - 1
    BY DEF HandsOK
  <1>2. 0 \in 0 .. MaxErrors - 1
    OBVIOUS
  <1>3. HandsOK => errors \in Int /\ enc \in Seq(Byte) /\ Len(enc) <= EncRoom
    BY DEF HandsOK
  <1>4. CASE givesUp
    BY <1>2, <1>4, GoesFits, ByteEmpty DEF Failed, StartDrain
  <1>5. CASE ~givesUp
    BY <1>1, <1>3, <1>5, GoesFits DEF Failed, givesUp
  <1>6. QED
    BY <1>4, <1>5

(* The header is read into hands that hold one byte at most.               *)
LEMMA ReadHeaderFits ==
    ASSUME HandsOK, HeldOK, ReadHeader
    PROVE  Fits'
  <1> DEFINE h == Append(held, Head(enc))
  <1>1. /\ enc # <<>> /\ recv = "header" /\ Len(held) <= 1 /\ enc_prebuffered
        /\ held \in Seq(Byte) /\ enc \in Seq(Byte) /\ need = 0
        /\ Len(enc) <= EncRoom /\ errors \in 0 .. MaxErrors - 1
    BY DEF ReadHeader, HandsOK, HeldOK, InFrame
  <1>2. Tail(enc) \in Seq(Byte) /\ Len(Tail(enc)) <= EncRoom /\ Head(enc) \in Byte
    BY <1>1, TailSeq
  <1>3. h \in Seq(Byte) /\ Len(h) = Len(held) + 1 /\ Len(h) \in 1..2
    BY <1>1, <1>2, AppendSeq, EmptyLen
  <1>4. CASE Len(h) < 2
    <2>1. /\ held' = h /\ enc' = Tail(enc)
          /\ UNCHANGED <<recv, need, errors, enc_prebuffered>>
      BY <1>4 DEF ReadHeader
    <2> HIDE DEF h
    <2>2. QED
      BY <1>1, <1>2, <1>3, <1>4, <2>1 DEF Fits, HandsOK, HeldOK, InFrame, Points
  <1>5. CASE ~(Len(h) < 2)
    <2>1. PICK n \in lengths(h[1], h[2]) :
             IF n = 0 /\ givesUp
               THEN StartDrain
               ELSE /\ enc' = Tail(enc) /\ held' = h /\ need' = n
                    /\ recv' = IF n = 0 THEN "scan" ELSE "payload"
                    /\ errors' = IF n = 0 THEN errors + 1 ELSE errors
                    /\ UNCHANGED <<enc_prebuffered, hist>>
      BY <1>5 DEF ReadHeader
    <2>2. n \in 0..2
      BY DEF lengths
    <2> HIDE DEF h
    <2>3. CASE n = 0 /\ givesUp
      BY <2>1, <2>3, GoesFits, ByteEmpty DEF StartDrain
    <2>4. CASE n = 0 /\ ~givesUp
      <3>1. errors' \in 0 .. MaxErrors - 1
        BY <1>1, <2>1, <2>4 DEF givesUp
      <3>2. recv' = "scan" /\ need' = 0 /\ held' = h /\ Len(h) = 2 /\ enc' = Tail(enc)
        BY <1>3, <1>5, <2>1, <2>4
      <3>3. HandsOK'
        BY <1>2, <1>3, <3>1, <3>2 DEF HandsOK, Points
      <3>4. HeldOK'
        BY <1>1, <2>1, <2>4, <3>2 DEF HeldOK, InFrame
      <3>5. QED
        BY <3>3, <3>4 DEF Fits
    <2>5. CASE n # 0
      <3>1. errors' = errors
        BY <2>1, <2>5
      <3>2. recv' = "payload" /\ need' = n /\ held' = h /\ Len(h) = 2 /\ enc' = Tail(enc)
        BY <1>3, <1>5, <2>1, <2>5
      <3>3. HandsOK'
        BY <1>1, <1>2, <1>3, <2>2, <3>1, <3>2 DEF HandsOK, Points
      <3>4. HeldOK'
        BY <1>1, <2>1, <2>2, <2>5, <3>2 DEF HeldOK, InFrame
      <3>5. QED
        BY <3>3, <3>4 DEF Fits
    <2>6. QED
      BY <2>3, <2>4, <2>5
  <1>6. QED
    BY <1>4, <1>5

(* Resynchronising drops one byte and keeps one.                           *)
LEMMA ScanFits ==
    ASSUME HandsOK, HeldOK, Scan
    PROVE  Fits'
  <1>1. /\ recv = "scan" /\ Len(held) = 2 /\ enc_prebuffered
        /\ held \in Seq(Byte) /\ enc \in Seq(Byte) /\ Len(enc) <= EncRoom
        /\ errors \in 0 .. MaxErrors - 1
        /\ UNCHANGED <<enc_prebuffered, errors>>
    BY DEF Scan, HandsOK, HeldOK, InFrame
  <1>2. CASE enc = <<>>
    BY <1>1, <1>2, GoesFits DEF Scan
  <1>3. CASE enc # <<>>
    <2>1. Tail(enc) \in Seq(Byte) /\ Len(Tail(enc)) <= EncRoom /\ Head(enc) \in Byte
      BY <1>1, <1>3, TailSeq
    <2>2. held[2] \in Byte
      <3>1. 2 \in 1 .. Len(held)
        BY <1>1
      <3>2. QED
        BY <1>1, <3>1, ElementOfSeq
    <2> DEFINE b == Head(enc)
               a == held[2]
    <2>3. PICK n \in lengths(a, b) :
             need' = n /\ recv' = IF n = 0 THEN "scan" ELSE "trial"
      BY <1>3 DEF Scan
    <2>4. n \in 0..2
      BY DEF lengths
    <2>5. held' = <<a, b>> /\ enc' = Tail(enc)
      BY <1>3 DEF Scan
    <2> HIDE DEF a, b
    <2>6. <<a, b>> \in Seq(Byte) /\ Len(<<a, b>>) = 2
      BY <2>1, <2>2 DEF a, b
    <2>7. QED
      BY <1>1, <2>1, <2>3, <2>4, <2>5, <2>6
         DEF Fits, HandsOK, HeldOK, InFrame, Points
  <1>4. QED
    BY <1>2, <1>3

(* The trial decode takes what the length it found asks for.               *)
LEMMA TrialFits ==
    ASSUME HandsOK, HeldOK, Trial
    PROVE  Fits'
  <1>1. /\ recv = "trial" /\ Len(held) >= 2 /\ enc_prebuffered
        /\ held \in Seq(Byte) /\ UNCHANGED <<enc, enc_prebuffered, errors>>
        /\ enc \in Seq(Byte) /\ Len(enc) <= EncRoom /\ errors \in 0 .. MaxErrors - 1
    BY DEF Trial, HandsOK, HeldOK, InFrame
  <1>2. SubSeq(held, 1, 2) \in Seq(Byte) /\ Len(SubSeq(held, 1, 2)) = 2
    <2>1. \A i \in 1..2 : held[i] \in Byte
      BY <1>1, ElementOfSeq, EmptyLen
    <2>2. QED
      BY <2>1, SubSeqProperties
  <1>3. CASE goes("top")
    BY <1>1, <1>3, GoesFits
  <1>4. CASE recv' = "scan" /\ held' = SubSeq(held, 1, 2) /\ need = 0 /\ need' = need
    BY <1>1, <1>2, <1>4 DEF Fits, HandsOK, HeldOK, InFrame, Points
  <1>5. QED
    BY <1>3, <1>4 DEF Trial

(* Every step keeps the encoded buffer and what AudioRecv holds in range.  *)
LEMMA NextFits == Fits /\ RestOK /\ [Next]_vars => Fits'
  <1> SUFFICES ASSUME HandsOK, HeldOK, RestOK, [Next]_vars PROVE Fits'
    BY DEF Fits
  <1> USE DEF recvVars, playVars, inVars
  <1>0. /\ enc \in Seq(Byte) /\ Len(enc) <= EncRoom /\ errors \in 0 .. MaxErrors - 1
        /\ 0 \in 0 .. MaxErrors - 1 /\ held \in Seq(Byte) /\ Len(held) \in Nat
    BY EmptyLen DEF HandsOK
  <1>1. CASE startSpeaking \/ stopSpeaking \/ Stale
    BY <1>1 DEF startSpeaking, stopSpeaking, Stale, Fits, HandsOK, HeldOK
  <1>2. CASE onAudioDownlink
    <2> DEFINE f == frameOf(reply, frames')
    <2>1. reply \in 1..MaxReplies /\ frames' \in 1..MaxFrames
      BY <1>2 DEF onAudioDownlink, RestOK
    <2>2. f \in Seq(Byte) /\ f # <<>> /\ Tail(f) \in Seq(Byte)
      BY <2>1, FrameSeq, TailSeq
    <2>3. ASSUME NEW b \in Seq(Byte), taken(b)
          PROVE  enc' \in Seq(Byte) /\ Len(enc') <= EncRoom
      <3>1. /\ enc \o b \in Seq(Byte) /\ Len(enc \o b) = Len(enc) + Len(b)
            /\ Len(enc) \in Nat /\ Len(b) \in Nat
        BY <1>0, ConcatProperties, EmptyLen
      <3>2. QED
        BY <1>0, <2>3, <3>1 DEF taken
    <2>4. taken(f) \/ taken(Tail(f))
      BY <1>2 DEF onAudioDownlink
    <2>5. UNCHANGED recvVars
      BY <1>2 DEF onAudioDownlink
    <2> HIDE DEF f
    <2>6. enc' \in Seq(Byte) /\ Len(enc') <= EncRoom
      BY <2>2, <2>3, <2>4
    <2>7. QED
      BY <2>5, <2>6 DEF Fits, HandsOK, HeldOK
  <1>3. ASSUME NEW t \in DOMAIN stop, StopDrained(t) \/ StopResets(t) PROVE Fits'
    <2>1. UNCHANGED <<recv, held, need, enc_prebuffered, errors>>
      BY <1>3 DEF StopDrained, StopResets
    <2>2. enc' \in Seq(Byte) /\ Len(enc') <= EncRoom
      BY <1>0, <1>3, NextEnc DEF StopDrained, StopResets
    <2>3. HandsOK'
      BY <2>1, <2>2 DEF HandsOK
    <2>4. HeldOK'
      BY <2>1 DEF HeldOK
    <2>5. QED
      BY <2>3, <2>4 DEF Fits
  <1>4. CASE SeesRest \/ Rests \/ HeaderLate
    <2>1. errors' \in 0 .. MaxErrors - 1 /\ (goes("rest") \/ goes("top"))
      BY <1>0, <1>4 DEF SeesRest, Rests, HeaderLate
    <2>2. enc' \in Seq(Byte) /\ Len(enc') <= EncRoom
      BY <1>0, <1>4, NextEnc DEF SeesRest, Rests, HeaderLate
    <2>3. QED
      BY <2>1, <2>2, GoesFits
  <1>5. CASE PreBuffers \/ GoesOn
    BY <1>0, <1>5, ByteEmpty
       DEF PreBuffers, GoesOn, goes, Fits, HandsOK, HeldOK, InFrame, Points
  <1>6. CASE ReadPayload
    <2>1. /\ Tail(enc) \in Seq(Byte) /\ Len(Tail(enc)) <= EncRoom
          /\ Append(held, Head(enc)) \in Seq(Byte)
          /\ Len(Append(held, Head(enc))) = Len(held) + 1
      BY <1>0, <1>6, TailSeq, AppendSeq DEF ReadPayload
    <2>2. QED
      BY <1>0, <1>6, <2>1 DEF ReadPayload, Fits, HandsOK, HeldOK
  <1>7. CASE PayloadLate
    BY <1>7, FailedFits DEF PayloadLate
  <1>8. CASE Decode
    <2>1. CASE Failed
      BY <2>1, FailedFits
    <2>2. CASE /\ recv' = "push" /\ recv = "payload" /\ need = 0
               /\ UNCHANGED <<held, need, errors, enc_prebuffered, enc>>
      BY <1>0, <2>2 DEF Fits, HandsOK, HeldOK, InFrame, Points
    <2>3. QED
      BY <1>8, <2>1, <2>2 DEF Decode
  <1>9. CASE Push
    BY <1>0, <1>9, GoesFits DEF Push
  <1>10. CASE Drain
    BY <1>10, ByteEmpty DEF Drain, Fits, HandsOK, HeldOK, InFrame, Points
  <1>11. CASE SpkPlay \/ UNCHANGED vars
    BY <1>11 DEF SpkPlay, PlayRests, PlayPreBuffers, Play, vars, Fits, HandsOK, HeldOK
  <1>12. QED
    BY <1>1, <1>2, <1>3, <1>4, <1>5, <1>6, <1>7, <1>8, <1>9, <1>10, <1>11,
       ReadHeaderFits, ScanFits, TrialFits DEF Next, Recv

-----------------------------------------------------------------------------
(* Between frames with nothing in the buffer, or as before.                *)
LEMMA Fresh ==
    ASSUME enc' = <<>>, recv' \in Points \ {"scan", "trial", "payload"},
           recv' = "header" => held' = <<>>
    PROVE  InStep' /\ StreamOK'
  <1>1. place' = 1
    BY DEF place
  <1>2. Whole(<<>>)
    BY ByteEmpty DEF Whole
  <1>3. InStep'
    BY <1>1, <1>2 DEF InStep
  <1>4. QED
    BY <1>3 DEF StreamOK

(* A step that takes nothing, at the start of a frame, stays in step.      *)
LEMMA Between ==
    ASSUME StreamOK, UNCHANGED <<enc, torn>>, place = 1,
           recv' \in Points \ {"scan", "trial", "payload"},
           recv' = "header" => held' = <<>>
    PROVE  StreamOK'
  <1>1. place' = 1
    BY DEF place
  <1>2. InStep => InStep'
    BY <1>1 DEF InStep
  <1>3. QED
    BY <1>2 DEF StreamOK

(* A step of somebody else's stays in step.                                *)
LEMMA Still ==
    ASSUME StreamOK, UNCHANGED <<enc, torn, recv, held, need>>
    PROVE  StreamOK'
  BY DEF StreamOK, InStep, place

(* A whole frame, if it fits.                                              *)
LEMMA ArrivesInStep ==
    ASSUME HandsOK, RestOK, StreamOK, onAudioDownlink
    PROVE  StreamOK'
  <1>1. CASE torn'
    BY <1>1 DEF StreamOK
  <1>2. CASE ~torn'
    <2> DEFINE f == frameOf(reply, frames')
    <2>1. /\ taken(f) /\ torn' = torn /\ UNCHANGED <<recv, held, need>>
      BY <1>2 DEF onAudioDownlink, recvVars, hist
    <2>2. reply \in 1..MaxReplies /\ frames' \in 1..MaxFrames
      BY DEF onAudioDownlink, RestOK
    <2>3. f[1].part = 1
      BY <2>2, FrameSeq
    <2>4. InStep /\ enc \in Seq(Byte)
      BY <1>2, <2>1 DEF StreamOK, HandsOK
    <2>5. CASE enc' = enc
      BY <2>1, <2>5, Still
    <2>6. CASE enc' = enc \o f
      <3>1. /\ Whole(enc') /\ enc' # <<>>
            /\ enc'[1] = IF enc = <<>> THEN f[1] ELSE enc[1]
        BY <2>2, <2>4, <2>6, WholeJoin DEF InStep
      <3>2. place' = place
        BY <2>1 DEF place
      <3> HIDE DEF f
      <3>3. enc'[1].part = place'
        BY <2>3, <2>4, <3>1, <3>2 DEF InStep
      <3>4. place = 2 => enc'[1] = enc[1]
        BY <2>4, <3>1 DEF InStep
      <3>5. InStep'
        BY <2>1, <2>4, <3>1, <3>2, <3>3, <3>4 DEF InStep
      <3>6. QED
        BY <3>5 DEF StreamOK
    <2>7. QED
      BY <2>1, <2>5, <2>6 DEF taken
  <1>3. QED
    BY <1>1, <1>2

(* The length is where a length is, so the payload waits for one byte.     *)
LEMMA HeaderInStep ==
    ASSUME HandsOK, HeldOK, StreamOK, ReadHeader
    PROVE  StreamOK'
  <1> DEFINE h == Append(held, Head(enc))
  <1>1. /\ enc # <<>> /\ recv = "header" /\ Len(held) <= 1
        /\ held \in Seq(Byte) /\ enc \in Seq(Byte)
    BY DEF ReadHeader, HandsOK, HeldOK
  <1>2. /\ Head(enc) = enc[1] /\ enc[1] \in Byte /\ Tail(enc) \in Seq(Byte)
    BY <1>1, TailSeq
  <1>3. /\ Len(h) = Len(held) + 1 /\ Len(held) \in 0..1 /\ h[Len(held) + 1] = enc[1]
        /\ \A i \in 1 .. Len(held) : h[i] = held[i]
        /\ held = <<>> <=> Len(held) = 0
        /\ h # <<>>
    <2>1. Len(held) \in 0..1 /\ (held = <<>> <=> Len(held) = 0)
      <3> HIDE DEF h
      <3>1. held \in Seq(Byte)
        BY <1>1
      <3>2. Len(held) \in Nat /\ (held = <<>> <=> Len(held) = 0)
        BY <3>1, EmptyLen
      <3>3. Len(held) <= 1
        BY <1>1
      <3>4. ASSUME NEW n \in Nat, n <= 1 PROVE n \in 0..1
        BY <3>4
      <3>5. Len(held) \in 0..1
        BY <3>2, <3>3, <3>4
      <3>6. QED
        BY <3>2, <3>5, Zenon
    <2>2. /\ Len(h) = Len(held) + 1 /\ h[Len(held) + 1] = Head(enc) /\ h # <<>>
          /\ \A i \in 1 .. Len(held) : h[i] = held[i]
      BY <1>1, <1>2, AppendSeq
    <2> HIDE DEF h
    <2>3. QED
      BY <1>2, <2>1, <2>2
  <1>4. CASE StartDrain
    BY <1>4, Fresh DEF StartDrain, goes, Points
  <1>5. CASE ~StartDrain /\ torn
    BY <1>5 DEF ReadHeader, StreamOK, hist
  <1>6. CASE ~StartDrain /\ ~torn
    <2>1. InStep
      BY <1>6 DEF StreamOK
    <2>2. /\ Whole(Tail(enc))
          /\ Tail(enc) # <<>> => Follows(enc[1], Tail(enc)[1])
          /\ Tail(enc) = <<>> => enc[1].part = 3
      BY <1>1, <2>1, WholeTail DEF InStep
    <2>3. CASE Len(h) < 2
      <3>1. held = <<>> /\ place = 1 /\ h[1] = enc[1]
        BY <1>1, <1>3, <2>3 DEF place
      <3>2. enc[1].part = 1
        BY <1>1, <2>1, <3>1 DEF InStep
      <3>3. held' = h /\ enc' = Tail(enc) /\ recv' = "header" /\ need' = need
        BY <1>1, <2>3 DEF ReadHeader
      <3> HIDE DEF h
      <3>4. place' = 2
        BY <1>3, <3>3 DEF place
      <3>5. Tail(enc) # <<>> /\ Tail(enc)[1].part = 2 /\ Tail(enc)[1].frame = enc[1].frame
        BY <2>2, <3>2 DEF Follows
      <3>6. held'[1].part = 1 /\ enc'[1].frame = held'[1].frame
        BY <3>1, <3>2, <3>3, <3>5
      <3>7. InStep'
        BY <2>2, <3>3, <3>4, <3>5, <3>6 DEF InStep
      <3>8. QED
        BY <3>7 DEF StreamOK
    <2>4. CASE ~(Len(h) < 2)
      <3>1. held # <<>> /\ place = 2 /\ h[1] = held[1] /\ h[2] = enc[1]
        BY <1>1, <1>3, <2>4 DEF place
      <3>2. held[1].part = 1 /\ enc[1].frame = held[1].frame /\ enc[1].part = 2
        BY <1>1, <2>1, <3>1 DEF InStep
      <3>3. lengths(h[1], h[2]) = {1}
        BY <3>1, <3>2 DEF lengths
      <3>4. enc' = Tail(enc) /\ held' = h /\ need' = 1 /\ recv' = "payload"
        <4>1. \E n \in {1} :
                IF n = 0 /\ givesUp
                  THEN StartDrain
                  ELSE /\ enc' = Tail(enc) /\ held' = h /\ need' = n
                       /\ recv' = IF n = 0 THEN "scan" ELSE "payload"
                       /\ errors' = IF n = 0 THEN errors + 1 ELSE errors
                       /\ UNCHANGED <<enc_prebuffered, hist>>
          BY <2>4, <3>3 DEF ReadHeader
        <4> HIDE DEF h
        <4>2. QED
          BY <4>1
      <3> HIDE DEF h
      <3>5. place' = 3
        BY <3>4 DEF place
      <3>6. Tail(enc) # <<>> /\ Tail(enc)[1].part = 3
        BY <2>2, <3>2 DEF Follows
      <3>7. InStep'
        BY <2>2, <3>4, <3>5, <3>6 DEF InStep
      <3>8. QED
        BY <3>7 DEF StreamOK
    <2>5. QED
      BY <2>3, <2>4
  <1>7. QED
    BY <1>4, <1>5, <1>6

(* The last byte of a frame is the one the payload waits for.              *)
LEMMA PayloadInStep ==
    ASSUME HandsOK, StreamOK, ReadPayload
    PROVE  StreamOK'
  <1>1. /\ enc # <<>> /\ enc \in Seq(Byte) /\ need > 0 /\ need \in 0..2
        /\ enc' = Tail(enc) /\ need' = need - 1 /\ UNCHANGED <<recv, torn>>
    BY DEF ReadPayload, HandsOK, hist
  <1>2. CASE torn
    BY <1>1, <1>2 DEF StreamOK
  <1>3. CASE ~torn
    <2>1. InStep
      BY <1>3 DEF StreamOK
    <2>2. recv = "payload" /\ need = 1 /\ place = 3
      BY <1>1, <2>1 DEF ReadPayload, InStep, place
    <2>3. enc[1].part = 3
      BY <1>1, <2>1, <2>2 DEF InStep
    <2>4. /\ Whole(Tail(enc))
          /\ Tail(enc) # <<>> => Follows(enc[1], Tail(enc)[1])
      BY <1>1, <2>1, WholeTail DEF InStep
    <2>5. Tail(enc) # <<>> => Tail(enc)[1].part = 1
      BY <2>3, <2>4 DEF Follows
    <2>6. place' = 1
      BY <1>1, <2>2 DEF place
    <2>7. InStep'
      BY <1>1, <2>2, <2>4, <2>5, <2>6 DEF InStep
    <2>8. QED
      BY <2>7 DEF StreamOK
  <1>4. QED
    BY <1>2, <1>3

(* A failed decode is behind a whole frame, or the stream is torn.         *)
LEMMA FailedInStep ==
    ASSUME HandsOK, StreamOK, Failed, torn \/ place = 1
    PROVE  StreamOK'
  <1>1. CASE StartDrain
    BY <1>1, Fresh DEF StartDrain, goes, Points
  <1>2. CASE goes("top") /\ UNCHANGED <<enc, torn>>
    <2>1. CASE torn
      BY <1>2, <2>1 DEF StreamOK
    <2>2. CASE place = 1
      BY <1>2, <2>2, Between DEF goes, Points
    <2>3. QED
      BY <2>1, <2>2
  <1>3. QED
    BY <1>1, <1>2 DEF Failed, hist

(* Only a cut frame or a reset in the middle of one breaks the stream.     *)
LEMMA NextStreamOK == HandsOK /\ HeldOK /\ RestOK /\ StreamOK /\ [Next]_vars => StreamOK'
  <1> SUFFICES ASSUME HandsOK, HeldOK, RestOK, StreamOK, [Next]_vars PROVE StreamOK'
    OBVIOUS
  <1> USE DEF recvVars, hist
  <1>1. CASE startSpeaking \/ stopSpeaking \/ Stale
    BY <1>1, Still DEF startSpeaking, stopSpeaking, Stale
  <1>2. ASSUME NEW t \in DOMAIN stop, StopDrained(t) PROVE StreamOK'
    BY <1>2, Still DEF StopDrained
  <1>3. ASSUME NEW t \in DOMAIN stop, StopResets(t) PROVE StreamOK'
    <2>1. torn' <=> midFrame
      BY <1>3, Zenon DEF StopResets
    <2>2. enc' = <<>> /\ UNCHANGED <<recv, held>> /\ recv \in Points
      BY <1>3 DEF StopResets, HandsOK
    <2>3. CASE midFrame
      BY <2>1, <2>3 DEF StreamOK
    <2>4. CASE ~midFrame
      BY <2>2, <2>4, Fresh DEF midFrame
    <2>5. QED
      BY <2>3, <2>4
  <1>4. CASE Rests \/ HeaderLate
    BY <1>4, Fresh DEF Rests, HeaderLate, goes, Points
  <1>5. CASE Drain
    <2>1. enc' = <<>> /\ recv' \in {"drain", "top"}
      BY <1>5 DEF Drain
    <2>2. QED
      BY <2>1, Fresh DEF Points
  <1>6. CASE SeesRest \/ PreBuffers \/ GoesOn \/ Push
    <2>1. place = 1
      BY <1>6 DEF SeesRest, PreBuffers, GoesOn, Push, place
    <2>2. QED
      BY <1>6, <2>1, Between DEF SeesRest, PreBuffers, GoesOn, Push, goes, Points
  <1>7. CASE PayloadLate
    <2>1. torn \/ place = 1
      BY <1>7 DEF PayloadLate, StreamOK, InStep
    <2>2. QED
      BY <1>7, <2>1, FailedInStep DEF PayloadLate
  <1>8. CASE Decode
    <2>1. place = 1
      BY <1>8 DEF Decode, place
    <2>2. CASE Failed
      BY <2>1, <2>2, FailedInStep
    <2>3. CASE recv' = "push" /\ UNCHANGED <<enc, torn>>
      BY <2>1, <2>3, Between DEF Points
    <2>4. QED
      BY <1>8, <2>2, <2>3 DEF Decode
  <1>9. CASE Scan \/ Trial
    BY <1>9 DEF Scan, Trial, StreamOK, InStep
  <1>10. CASE SpkPlay \/ UNCHANGED vars
    BY <1>10, Still DEF SpkPlay, PlayRests, PlayPreBuffers, Play, vars
  <1>11. QED
    BY <1>1, <1>2, <1>3, <1>4, <1>5, <1>6, <1>7, <1>8, <1>9, <1>10,
       ArrivesInStep, HeaderInStep, PayloadInStep DEF Next, Recv

-----------------------------------------------------------------------------
(* A reply that is over has nothing more to come and leaves nothing.       *)
LEMMA NextStopOK == HandsOK /\ RestOK /\ HeldOK /\ StopOK /\ [Next]_vars => StopOK'
  <1> SUFFICES ASSUME HandsOK, RestOK, HeldOK, StopOK, [Next]_vars PROVE StopOK'
    OBVIOUS
  <1> USE DEF recvVars, playVars, inVars, hist
  <1>0. /\ DOMAIN stop = Tasks /\ stop \in [Tasks -> Stops]
        /\ reply \in Nat /\ frames \in 0..MaxFrames
    BY DEF RestOK
  <1>1. CASE startSpeaking
    <2>0. recv = "rest" => need = 0
      BY DEF HeldOK
    <2>1. /\ speaking' = TRUE /\ ~Stopping /\ recv # "rest" /\ UNCHANGED <<recv, stop>>
      BY <1>1, <2>0 DEF startSpeaking, asleep, Stopping
    <2>2. ~Stopping' /\ \A t \in DOMAIN stop' : stop'[t] # "reset"
      BY <2>1 DEF Stopping
    <2>3. QED
      BY <2>1, <2>2 DEF StopOK
  <1>2. CASE onAudioDownlink
    <2>1. /\ reply > 0 /\ frames # MaxFrames /\ UNCHANGED <<speaking, stop, recv>>
      BY <1>0, <1>2 DEF onAudioDownlink
    <2>2. speaking /\ ~Stopping
      BY <2>1 DEF StopOK
    <2>3. QED
      BY <2>1, <2>2 DEF StopOK, Stopping
  <1>3. CASE stopSpeaking
    <2>1. /\ frames' = MaxFrames /\ UNCHANGED <<recv, pcm, enc>>
          /\ \/ stop' = [stop EXCEPT !["other"] = "drain"] /\ UNCHANGED speaking
             \/ stop' = [stop EXCEPT !["other"] = "reset"] /\ speaking' = FALSE
      BY <1>3 DEF stopSpeaking
    <2>2. Stopping'
      BY <1>0, <2>1 DEF Stopping, Tasks
    <2>3. recv' = "rest" => ~speaking'
      BY <1>3, <2>1 DEF StopOK, stopSpeaking
    <2>4. \A t \in DOMAIN stop' : stop'[t] = "reset" => ~speaking'
      BY <1>0, <2>1 DEF StopOK, Tasks
    <2>5. QED
      BY <2>1, <2>2, <2>3, <2>4 DEF StopOK
  <1>4. ASSUME NEW t \in DOMAIN stop, StopDrained(t) PROVE StopOK'
    <2>1. /\ speaking' = FALSE /\ stop' = [stop EXCEPT ![t] = "reset"] /\ stop[t] = "drain"
          /\ UNCHANGED <<reply, frames>>
      BY <1>4 DEF StopDrained
    <2>2. Stopping /\ Stopping'
      BY <1>0, <2>1 DEF Stopping
    <2>3. QED
      BY <2>1, <2>2 DEF StopOK
  <1>5. ASSUME NEW t \in DOMAIN stop, StopResets(t) PROVE StopOK'
    <2>1. /\ stop[t] = "reset" /\ stop' = [stop EXCEPT ![t] = "none"]
          /\ enc' = <<>> /\ pcm' = resetPcm
          /\ UNCHANGED <<speaking, recv, enc_prebuffered, reply, frames>>
      BY <1>5 DEF StopResets
    <2>2. Stopping /\ ~speaking
      BY <2>1 DEF Stopping, StopOK
    <2>3. kept' <=> blocked
      BY <1>5, Zenon DEF StopResets
    <2>4. QED
      BY <2>1, <2>2, <2>3 DEF StopOK, resetPcm
  <1>6. CASE SeesRest
    BY <1>6 DEF SeesRest, goes, StopOK, Stopping
  <1>7. CASE Rests
    BY <1>7 DEF Rests, goes, StopOK, Stopping
  <1>8. CASE PreBuffers \/ GoesOn
    BY <1>8 DEF PreBuffers, GoesOn, goes, StopOK, Stopping
  <1>9. CASE Stale
    <2>1. /\ speaking /\ mine /\ stop' = [stop EXCEPT !["recv"] = "drain"]
          /\ frames' = MaxFrames /\ UNCHANGED <<speaking, recv>>
      BY <1>9 DEF Stale
    <2>2. \A t \in DOMAIN stop' : stop'[t] # "reset"
      BY <1>0, <2>1 DEF StopOK, Tasks
    <2>3. QED
      BY <2>1, <2>2 DEF StopOK
  <1>10. ASSUME recv \in InFrame, UNCHANGED <<speaking, stop, reply, frames, kept, pcm>>,
                recv' # "rest", enc = <<>> => enc' = <<>>
         PROVE  StopOK'
    BY <1>10 DEF StopOK, Stopping, InFrame
  <1>11. CASE ReadHeader
    <2>1. recv' # "rest" /\ UNCHANGED kept
      BY <1>11 DEF ReadHeader, StartDrain, goes
    <2>2. QED
      BY <1>10, <1>11, <2>1 DEF ReadHeader, InFrame
  <1>12. CASE HeaderLate \/ ReadPayload \/ Scan \/ Trial
    BY <1>10, <1>12 DEF HeaderLate, ReadPayload, Scan, Trial, goes, InFrame
  <1>13. CASE PayloadLate \/ Decode
    BY <1>10, <1>13 DEF PayloadLate, Decode, Failed, StartDrain, goes, InFrame
  <1>14. CASE Push
    <2>1. /\ recv' = "top" /\ UNCHANGED <<speaking, stop, reply, frames, kept, enc, enc_prebuffered>>
          /\ enc_prebuffered
      BY <1>14 DEF Push, goes, HeldOK, InFrame
    <2>2. QED
      BY <2>1 DEF StopOK, Stopping
  <1>15. CASE Drain
    BY <1>15 DEF Drain, StopOK, Stopping
  <1>16. CASE SpkPlay \/ UNCHANGED vars
    BY <1>16 DEF SpkPlay, PlayRests, PlayPreBuffers, Play, vars, StopOK, Stopping
  <1>17. QED
    BY <1>1, <1>2, <1>3, <1>4, <1>5, <1>6, <1>7, <1>8, <1>9, <1>11, <1>12, <1>13,
       <1>14, <1>15, <1>16 DEF Next, Recv

-----------------------------------------------------------------------------
(* What a reply plays is its own.                                          *)
LEMMA OwnTail ==
    ASSUME NEW q \in Seq(Byte), q # <<>>, NEW r, \A i \in DOMAIN q : q[i].reply = r
    PROVE  /\ \A i \in DOMAIN Tail(q) : Tail(q)[i].reply = r
           /\ Head(q).reply = r
  <1>1. /\ Tail(q) \in Seq(Byte) /\ Len(Tail(q)) = Len(q) - 1 /\ Len(q) \in Nat \ {0}
        /\ \A i \in 1 .. Len(q) - 1 : Tail(q)[i] = q[i + 1]
        /\ Head(q) = q[1]
    BY TailSeq
  <1>2. DOMAIN Tail(q) = 1 .. Len(q) - 1 /\ DOMAIN q = 1 .. Len(q)
    BY <1>1, LenProperties
  <1>3. QED
    BY <1>1, <1>2

(* Two runs of one reply's bytes are one of that reply's.                  *)
LEMMA OwnJoin ==
    ASSUME NEW q \in Seq(Byte), NEW b \in Seq(Byte), NEW r,
           \A i \in DOMAIN q : q[i].reply = r, \A i \in DOMAIN b : b[i].reply = r
    PROVE  \A i \in DOMAIN (q \o b) : (q \o b)[i].reply = r
  <1> DEFINE w == q \o b
  <1>1. /\ w \in Seq(Byte) /\ Len(w) = Len(q) + Len(b)
        /\ \A i \in 1 .. Len(q) + Len(b) :
               w[i] = IF i <= Len(q) THEN q[i] ELSE b[i - Len(q)]
        /\ Len(q) \in Nat /\ Len(b) \in Nat
    BY ConcatProperties, LenProperties
  <1> HIDE DEF w
  <1>2. DOMAIN w = 1 .. Len(q) + Len(b) /\ DOMAIN q = 1 .. Len(q) /\ DOMAIN b = 1 .. Len(b)
    BY <1>1, LenProperties
  <1>3. ASSUME NEW i \in DOMAIN w PROVE w[i].reply = r
    <2>1. CASE i <= Len(q)
      BY <1>1, <1>2, <2>1
    <2>2. CASE ~(i <= Len(q))
      <3>1. i - Len(q) \in 1 .. Len(b)
        BY <1>1, <1>2, <2>2
      <3>2. w[i] = b[i - Len(q)]
        BY <1>1, <1>2, <2>2
      <3>3. QED
        BY <1>2, <3>1, <3>2
    <2>3. QED
      BY <2>1, <2>2
  <1>4. QED
    BY <1>3 DEF w

(* The bytes that come in are of the reply that plays.                     *)
LEMMA NextBytesOwn ==
    HandsOK /\ RestOK /\ StopOK /\ BytesOwn /\ [Next]_vars => BytesOwn'
  <1> SUFFICES ASSUME HandsOK, RestOK, StopOK, BytesOwn, [Next]_vars PROVE BytesOwn'
    OBVIOUS
  <1> USE DEF recvVars, playVars, inVars, hist
  <1>0. enc \in Seq(Byte) /\ DOMAIN <<>> = {}
    BY DEF HandsOK
  <1>1. CASE startSpeaking
    <2>1. enc = <<>> /\ enc' = enc
      BY <1>1 DEF startSpeaking, StopOK, Stopping
    <2>2. QED
      BY <1>0, <2>1 DEF BytesOwn
  <1>2. CASE onAudioDownlink
    <2> DEFINE f == frameOf(reply, frames')
    <2>1. reply \in 1..MaxReplies /\ frames' \in 1..MaxFrames
      BY <1>2 DEF onAudioDownlink, RestOK
    <2>2. /\ f \in Seq(Byte) /\ Len(f) = 3 /\ f # <<>>
          /\ \A i \in 1..3 : f[i].reply = reply
      BY <2>1, FrameSeq
    <2>3. (taken(f) \/ taken(Tail(f))) /\ UNCHANGED <<speaking, reply>>
      BY <1>2 DEF onAudioDownlink
    <2> HIDE DEF f
    <2>4. \A i \in DOMAIN f : f[i].reply = reply
      BY <2>2, LenProperties
    <2>5. Tail(f) \in Seq(Byte) /\ \A i \in DOMAIN Tail(f) : Tail(f)[i].reply = reply
      BY <2>2, <2>4, OwnTail, TailSeq
    <2>6. ASSUME NEW b \in Seq(Byte), taken(b), \A i \in DOMAIN b : b[i].reply = reply
          PROVE  BytesOwn'
      <3>1. CASE enc' = enc
        BY <2>3, <3>1 DEF BytesOwn
      <3>2. CASE enc' = enc \o b
        BY <1>0, <2>3, <2>6, <3>2, OwnJoin DEF BytesOwn
      <3>3. QED
        BY <2>6, <3>1, <3>2 DEF taken
    <2>7. QED
      BY <2>2, <2>3, <2>4, <2>5, <2>6
  <1>3. ASSUME enc' \in {enc, <<>>}, UNCHANGED reply, speaking' => speaking
        PROVE  BytesOwn'
    BY <1>0, <1>3 DEF BytesOwn
  <1>4. ASSUME enc # <<>>, enc' = Tail(enc), UNCHANGED <<speaking, reply>>
        PROVE  BytesOwn'
    BY <1>0, <1>4, OwnTail DEF BytesOwn
  <1>5. CASE stopSpeaking
    BY <1>3, <1>5 DEF stopSpeaking
  <1>6. ASSUME NEW t \in DOMAIN stop, StopDrained(t) \/ StopResets(t) PROVE BytesOwn'
    BY <1>3, <1>6 DEF StopDrained, StopResets
  <1>7. CASE SeesRest \/ Rests \/ PreBuffers \/ Stale \/ GoesOn
    BY <1>3, <1>7 DEF SeesRest, Rests, PreBuffers, Stale, GoesOn
  <1>8. CASE ReadHeader
    <2>1. /\ enc # <<>> /\ UNCHANGED <<speaking, reply>>
          /\ enc' = Tail(enc) \/ enc' = <<>>
      BY <1>8 DEF ReadHeader, StartDrain
    <2>2. QED
      BY <1>3, <1>4, <2>1
  <1>9. CASE ReadPayload
    BY <1>4, <1>9 DEF ReadPayload
  <1>10. CASE PayloadLate \/ Decode
    BY <1>3, <1>10 DEF PayloadLate, Decode, Failed, StartDrain
  <1>11. CASE Scan
    BY <1>3, <1>4, <1>11 DEF Scan
  <1>12. CASE HeaderLate \/ Push \/ Trial \/ Drain
    BY <1>3, <1>12 DEF HeaderLate, Push, Trial, Drain
  <1>13. CASE SpkPlay \/ UNCHANGED vars
    BY <1>3, <1>13 DEF SpkPlay, PlayRests, PlayPreBuffers, Play, vars
  <1>14. QED
    BY <1>1, <1>2, <1>5, <1>6, <1>7, <1>8, <1>9, <1>10, <1>11, <1>12, <1>13
       DEF Next, Recv

(* A frame in its place, whose last byte is of the reply, is the reply's.  *)
LEMMA NextFrameOwn ==
    HandsOK /\ HeldOK /\ RestOK /\ StopOK /\ BytesOwn /\ FrameOwn /\ [Next]_vars
        => FrameOwn'
  <1> SUFFICES ASSUME HandsOK, HeldOK, RestOK, StopOK, BytesOwn, FrameOwn, [Next]_vars
               PROVE  FrameOwn'
    OBVIOUS
  <1> USE DEF recvVars, playVars, inVars, hist
  <1>0. /\ held \in Seq(Byte) /\ Len(held) \in Nat /\ need \in 0..2
        /\ enc \in Seq(Byte)
    BY EmptyLen DEF HandsOK
  <1>1. CASE startSpeaking
    <2>1. kept' = kept /\ recv' = recv /\ need' = need /\ held' = held
      BY <1>1 DEF startSpeaking
    <2>2. ~(recv = "payload" /\ need = 0)
      BY <1>1 DEF startSpeaking, asleep
    <2>3. recv = "push" => kept
      <3>1. recv = "push" => Len(pcm) = PcmRoom
        BY <1>1 DEF startSpeaking, asleep, HeldOK
      <3>2. pcm = <<>> => Len(pcm) = 0
        BY ByteEmpty
      <3>3. recv = "push" => pcm # <<>>
        BY <3>1, <3>2
      <3>4. QED
        BY <1>1, <3>3 DEF startSpeaking, StopOK, Stopping
    <2>4. QED
      BY <2>1, <2>2, <2>3 DEF FrameOwn
  <1>2. ASSUME recv' \notin {"payload", "push"} PROVE FrameOwn'
    BY <1>2 DEF FrameOwn
  <1>3. ASSUME UNCHANGED <<recv, need, held, reply>>, speaking' => speaking,
               ~kept' => ~kept
        PROVE  FrameOwn'
    BY <1>3 DEF FrameOwn, rightFrame
  <1>4. CASE onAudioDownlink \/ stopSpeaking \/ Stale
    BY <1>3, <1>4 DEF onAudioDownlink, stopSpeaking, Stale
  <1>5. ASSUME NEW t \in DOMAIN stop, StopDrained(t) PROVE FrameOwn'
    BY <1>3, <1>5 DEF StopDrained
  <1>6. ASSUME NEW t \in DOMAIN stop, StopResets(t) PROVE FrameOwn'
    <2>1. ~speaking /\ speaking' = speaking
      BY <1>6 DEF StopResets, StopOK
    <2>2. QED
      BY <2>1 DEF FrameOwn
  <1>7. CASE SeesRest \/ Rests \/ PreBuffers \/ GoesOn \/ HeaderLate
    BY <1>2, <1>7 DEF SeesRest, Rests, PreBuffers, GoesOn, HeaderLate, goes
  <1>8. CASE ReadHeader
    <2> DEFINE h == Append(held, Head(enc))
    <2>1. CASE recv' \in {"payload", "push"}
      <3>1. recv = "header" /\ Len(held) <= 1 /\ enc # <<>>
        BY <1>8 DEF ReadHeader, HeldOK
      <3>2. held' = h
        BY <1>8, <2>1, <3>1 DEF ReadHeader, StartDrain, goes
      <3>3. Len(h) = Len(held) + 1
        BY <1>0, <3>1, TailSeq, AppendSeq
      <3> HIDE DEF h
      <3>4. Len(held') # 3
        BY <1>0, <3>1, <3>2, <3>3
      <3>5. QED
        BY <3>4 DEF FrameOwn, rightFrame
    <2>2. QED
      BY <1>2, <2>1
  <1>9. CASE ReadPayload
    <2>1. /\ enc # <<>> /\ held' = Append(held, Head(enc)) /\ UNCHANGED <<speaking, reply>>
      BY <1>9 DEF ReadPayload
    <2>2. /\ Len(held') = Len(held) + 1 /\ held'[Len(held) + 1] = Head(enc)
      BY <1>0, <2>1, TailSeq, AppendSeq
    <2>3. speaking' => Head(enc).reply = reply'
      BY <1>0, <2>1, OwnTail DEF BytesOwn
    <2>4. rightFrame' => held'[3].reply = held'[1].reply
      BY DEF rightFrame, frameOf
    <2>5. rightFrame' => held'[3] = Head(enc)
      BY <1>0, <2>2 DEF rightFrame
    <2>6. QED
      BY <2>3, <2>4, <2>5 DEF FrameOwn
  <1>10. CASE PayloadLate \/ Decode
    <2>1. CASE Failed
      <3>1. recv' \notin {"payload", "push"}
        BY <2>1 DEF Failed, StartDrain, goes
      <3>2. QED
        BY <1>2, <3>1
    <2>2. CASE /\ recv = "payload" /\ need = 0
               /\ UNCHANGED <<held, need, kept, speaking, reply>>
      BY <2>2 DEF FrameOwn, rightFrame
    <2>3. QED
      BY <1>10, <2>1, <2>2 DEF PayloadLate, Decode
  <1>11. CASE Push \/ Scan \/ Trial \/ Drain
    BY <1>2, <1>11 DEF Push, Scan, Trial, Drain, goes
  <1>12. CASE SpkPlay \/ UNCHANGED vars
    BY <1>3, <1>12 DEF SpkPlay, PlayRests, PlayPreBuffers, Play, vars
  <1>13. QED
    BY <1>1, <1>4, <1>5, <1>6, <1>7, <1>8, <1>9, <1>10, <1>11, <1>12 DEF Next, Recv

(* What is to be played is the reply's, or cannot be told from rubbish.    *)
LEMMA NextNoOldAudio ==
    /\ HandsOK /\ HeldOK /\ RestOK /\ StopOK /\ FrameOwn /\ NoOldAudio /\ [Next]_vars
    => NoOldAudio'
  <1> SUFFICES ASSUME HandsOK, HeldOK, RestOK, StopOK, FrameOwn, NoOldAudio, [Next]_vars
               PROVE  NoOldAudio'
    OBVIOUS
  <1> USE DEF recvVars, playVars, inVars, hist
  <1>0. pcm \in Seq(0..MaxReplies) /\ DOMAIN <<>> = {}
    BY DEF RestOK
  <1>1. CASE startSpeaking
    <2>1. ~speaking /\ ~Stopping /\ kept' = kept /\ pcm' = pcm
      BY <1>1 DEF startSpeaking, Stopping
    <2>2. ~(enc_prebuffered /\ recv \in {"top", "rest"})
      BY <1>1 DEF startSpeaking, asleep, HeldOK
    <2>3. ~kept => pcm = <<>>
      BY <2>1, <2>2 DEF StopOK
    <2>4. QED
      BY <1>0, <2>1, <2>3 DEF NoOldAudio
  <1>2. ASSUME pcm' \in {pcm, <<>>}, UNCHANGED reply, speaking' => speaking,
               speaking' /\ ~kept' => ~kept
        PROVE  NoOldAudio'
    BY <1>0, <1>2 DEF NoOldAudio
  <1>3. CASE onAudioDownlink \/ stopSpeaking \/ Stale
    BY <1>2, <1>3 DEF onAudioDownlink, stopSpeaking, Stale
  <1>4. ASSUME NEW t \in DOMAIN stop, StopDrained(t) PROVE NoOldAudio'
    BY <1>2, <1>4 DEF StopDrained
  <1>5. ASSUME NEW t \in DOMAIN stop, StopResets(t) PROVE NoOldAudio'
    <2>1. ~speaking /\ speaking' = speaking
      BY <1>5 DEF StopResets, StopOK
    <2>2. QED
      BY <2>1 DEF NoOldAudio
  <1>6. CASE Rests
    <2>1. ~speaking /\ speaking' = speaking
      BY <1>6 DEF Rests, StopOK
    <2>2. QED
      BY <2>1 DEF NoOldAudio
  <1>7. CASE SeesRest \/ PreBuffers \/ GoesOn \/ HeaderLate
    BY <1>2, <1>7 DEF SeesRest, PreBuffers, GoesOn, HeaderLate
  <1>8. CASE ReadHeader \/ ReadPayload
    BY <1>2, <1>8 DEF ReadHeader, ReadPayload, StartDrain
  <1>9. CASE PayloadLate \/ Decode
    BY <1>2, <1>9 DEF PayloadLate, Decode, Failed, StartDrain
  <1>10. CASE Push
    <2>1. UNCHANGED <<speaking, reply, kept>>
      BY <1>10 DEF Push
    <2>2. CASE pcm' = pcm
      BY <1>2, <2>1, <2>2
    <2>3. CASE pcm' = Append(pcm, sound) /\ speaking /\ ~kept
      <3>1. sound \in {0, reply}
        BY <1>10, <2>3 DEF Push, sound, FrameOwn, HeldOK
      <3>2. sound \in 0..MaxReplies
        BY <3>1 DEF RestOK
      <3>3. /\ pcm' \in Seq(0..MaxReplies) /\ Len(pcm') = Len(pcm) + 1
            /\ \A i \in 1 .. Len(pcm) : pcm'[i] = pcm[i]
            /\ pcm'[Len(pcm) + 1] = sound
        BY <1>0, <2>3, <3>2, AppendSeq
      <3>4. DOMAIN pcm' = 1 .. Len(pcm) + 1 /\ DOMAIN pcm = 1 .. Len(pcm) /\ Len(pcm) \in Nat
        BY <1>0, <3>3, LenProperties
      <3>5. QED
        BY <2>1, <2>3, <3>1, <3>3, <3>4 DEF NoOldAudio
    <2>4. CASE ~(speaking /\ ~kept)
      BY <2>1, <2>4 DEF NoOldAudio
    <2>5. QED
      BY <1>10, <2>2, <2>3, <2>4 DEF Push
  <1>11. CASE Scan \/ Trial \/ Drain
    BY <1>2, <1>11 DEF Scan, Trial, Drain
  <1>12. CASE Play
    <2>1. pcm # <<>> /\ pcm' = Tail(pcm) /\ UNCHANGED <<speaking, reply, kept>>
      BY <1>12 DEF Play
    <2>2. /\ pcm' \in Seq(0..MaxReplies) /\ Len(pcm') = Len(pcm) - 1 /\ Len(pcm) \in Nat
          /\ \A i \in 1 .. Len(pcm) - 1 : pcm'[i] = pcm[i + 1]
      BY <1>0, <2>1, TailSeq
    <2>3. DOMAIN pcm' = 1 .. Len(pcm) - 1 /\ DOMAIN pcm = 1 .. Len(pcm)
      BY <1>0, <2>2, LenProperties
    <2>4. QED
      BY <2>1, <2>2, <2>3 DEF NoOldAudio
  <1>13. CASE PlayRests \/ PlayPreBuffers \/ UNCHANGED vars
    BY <1>2, <1>13 DEF PlayRests, PlayPreBuffers, vars
  <1>14. QED
    BY <1>1, <1>3, <1>4, <1>5, <1>6, <1>7, <1>8, <1>9, <1>10, <1>11, <1>12, <1>13
       DEF Next, Recv, SpkPlay

-----------------------------------------------------------------------------
(* The invariant holds, for any sizes and any number of replies.           *)
THEOREM Invariant == Spec => []IInv
  <1>1. IInv /\ [Next]_vars => IInv'
    <2> SUFFICES ASSUME IInv, [Next]_vars PROVE IInv'
      OBVIOUS
    <2>1. /\ FlagsOK /\ HandsOK /\ RestOK /\ HeldOK /\ StreamOK /\ StopOK
          /\ BytesOwn /\ FrameOwn /\ NoOldAudio
      BY TypeParts DEF IInv, RangesOK
    <2>2. FlagsOK' /\ RestOK' /\ HandsOK' /\ HeldOK'
      BY <2>1, NextFlagsOK, NextRestOK, NextFits DEF Fits
    <2>3. TypeOK'
      BY <2>2, TypeParts DEF TypeOK, FlagsOK, RangesOK, HandsOK, RestOK, Points, Stops, Tasks
    <2>4. StreamOK' /\ StopOK' /\ BytesOwn' /\ FrameOwn' /\ NoOldAudio'
      BY <2>1, NextStreamOK, NextStopOK, NextBytesOwn, NextFrameOwn, NextNoOldAudio
    <2>5. QED
      BY <2>2, <2>3, <2>4 DEF IInv
  <1>2. QED
    BY InitIInv, <1>1, PTL DEF Spec

(* The two buffers are never overrun, and AudioRecv reads lengths where    *)
(* lengths are, unless a frame came cut or a stop reset the buffer while   *)
(* it had part of one (audioRecvLoop, stopSpeaking).                       *)
THEOREM AudioRecvStaysAligned == Spec => []StreamAligned
  <1>1. IInv => StreamAligned
    <2> SUFFICES ASSUME IInv PROVE StreamAligned
      OBVIOUS
    <2>1. TypeOK /\ HandsOK /\ StreamOK
      BY TypeParts DEF IInv, RangesOK
    <2>2. ASSUME ~torn, recv \in {"top", "header"}, held = <<>>, enc # <<>>
          PROVE  Head(enc).part = 1
      <3>1. InStep
        BY <2>1, <2>2 DEF StreamOK
      <3>2. place = 1
        BY <2>2 DEF place
      <3>3. Head(enc) = enc[1]
        BY <2>1, <2>2, TailSeq DEF HandsOK
      <3>4. QED
        BY <2>2, <3>1, <3>2, <3>3 DEF InStep
    <2>3. QED
      BY <2>1, <2>2 DEF StreamAligned, Aligned
  <1>2. QED
    BY <1>1, Invariant, PTL

(* What a reply plays is its own, but for the samples a stop could not     *)
(* reset while AudioRecv waited for room behind them (stopSpeaking).       *)
THEOREM OldAudioNeverPlays == Spec => []NoOldAudio
  <1>1. IInv => NoOldAudio
    BY DEF IInv
  <1>2. QED
    BY <1>1, Invariant, PTL
=============================================================================
