-------------------------- MODULE AudioLinkProofs --------------------------
(***************************************************************************)
(* Proofs about the audio's two ways through the C5.                       *)
(*                                                                         *)
(* Downlink: whatever the lengths, the fragments, the turns started and    *)
(* the order of the three tasks, no frame is packed twice, and an unbroken *)
(* stream is packed as the frames the server sent.  Both rest on the queue *)
(* the slave task reads: the kept header, if there is one, and what is in  *)
(* the stream buffer behind it.                                            *)
(*                                                                         *)
(* Uplink, in the second half: what the server gets is whole frames, with  *)
(* END behind them.  It rests on tx_buffer_ and the batch taken from it    *)
(* being one stream, and on who holds the client's lock.                   *)
(***************************************************************************)
EXTENDS Downlink, Uplink, SequenceTheorems, TLAPS

FrameLen == BodyLen + 1

(* What is still to be packed, in order.                                   *)
keptHead == IF pending_header = <<>> THEN <<>> ELSE <<pending_header[1].head>>
queued   == keptHead \o dl_audio_sb

(* A queue in the stream's order, behind low and up to high.               *)
InOrder(q, low, high) ==
    /\ \A i, j \in 1..Len(q) : i < j => q[i] < q[j]
    /\ \A i \in 1..Len(q) : low < q[i] /\ q[i] <= high
    /\ low <= high

OrderInv == InOrder(queued, last_head, at) /\ NoFrameTwice

(* A queue of whole frames, the last one maybe short.                      *)
Framed(q) ==
    /\ q # <<>> => isHeader(q[1])
    /\ \A i \in 1..Len(q) : isHeader(q[i]) =>
         /\ \A j \in 0..BodyLen : i + j <= Len(q) => q[i + j] = q[i] + j
         /\ i + FrameLen <= Len(q) => isHeader(q[i + FrameLen])

(* Its last frame is short.                                                *)
Short(q) ==
    \E i \in 1..Len(q) : isHeader(q[i]) /\ Len(q) - i < BodyLen

(* START has closed the gate and is about to reset the buffer.             *)
aboutToReset == start_pc = "reset" /\ ~gateOpen

(* The rest of a short frame is what comes next, and it is let in.         *)
ShortGoesOn ==
    Short(queued) =>
        /\ ~aboutToReset =>
              queued[Len(queued)] = at /\ ~dl_msg_dropping
        /\ \/ start_pc \in {"low", "set"}
           \/ start_pc = "idle" /\ state = "LISTENING"
           => session

(* Within a frame, unless the message is dropped or was reset: the queue   *)
(* ends in the frame's first part.                                         *)
MidFrame ==
    ~isHeader(at + 1) /\ ~dl_msg_dropping /\ ~reset_mid =>
        Short(queued) /\ queued[Len(queued)] = at

Unbroken ==
    /\ Framed(queued)
    /\ ShortGoesOn
    /\ MidFrame
    /\ pending_header # <<>> => pending_header[1].len = BodyLen
    /\ ~garbled

IntactInv == TypeOK /\ (cuts = {} => Unbroken)

IInv == OrderInv /\ IntactInv

-----------------------------------------------------------------------------
(* Remainders.                                                             *)
LEMMA Division ==
    ASSUME NEW F \in Nat \ {0}, NEW x \in Nat
    PROVE  x \div F \in Nat /\ x % F \in 0..(F - 1)
               /\ x = F * (x \div F) + (x % F)
OBVIOUS

(* A multiple of F and less than F more has that remainder.                *)
LEMMA Remainder ==
    ASSUME NEW F \in Nat \ {0}, NEW k \in Nat, NEW d \in 0..(F - 1)
    PROVE  (F * k + d) % F = d
OBVIOUS

(* A unit a frame further on has the same place in its frame.              *)
LEMMA RemainderNext ==
    ASSUME NEW F \in Nat \ {0}, NEW x \in Nat
    PROVE  (x + F) % F = x % F
<1>. DEFINE k == x \div F
            d == x % F
<1>1. k \in Nat /\ d \in 0..(F - 1) /\ x = F * k + d
    BY Division
<1>. HIDE DEF k, d
<1>2. x + F = F * (k + 1) + d
    BY <1>1
<1>3. (F * (k + 1) + d) % F = d
    BY <1>1, Remainder
<1>. QED
    BY <1>2, <1>3 DEF d

(* Places inside a frame are told from its first by the remainder.         *)
LEMMA RemainderInside ==
    ASSUME NEW F \in Nat \ {0}, NEW x \in Nat, x % F = 0, NEW d \in 0..(F - 1)
    PROVE  (x + d) % F = d
<1>. DEFINE k == x \div F
<1>1. k \in Nat /\ x = F * k
    BY Division
<1>. HIDE DEF k
<1>2. (F * k + d) % F = d
    BY <1>1, Remainder
<1>. QED
    BY <1>1, <1>2

(* A message of whole frames begins where a frame begins.                  *)
LEMMA RemainderDivides ==
    ASSUME NEW F \in Nat \ {0}, NEW M \in Nat \ {0}, M % F = 0,
           NEW x \in Nat, x % M = 0
    PROVE  x % F = 0
<1>. DEFINE k == x \div M
            l == M \div F
<1>1. k \in Nat /\ x = M * k
    BY Division
<1>2. l \in Nat /\ M = F * l
    BY Division
<1>. HIDE DEF k, l
<1>3. l * k \in Nat /\ x = F * (l * k) + 0
    BY <1>1, <1>2
<1>4. 0 \in 0..(F - 1)
    OBVIOUS
<1>5. (F * (l * k) + 0) % F = 0
    BY <1>3, <1>4, Remainder
<1>. QED
    BY <1>3, <1>5

-----------------------------------------------------------------------------
(* Headers: one in FrameLen units.                                         *)
LEMMA FrameLenFact == FrameLen \in Nat \ {0} /\ BodyLen \in Nat \ {0}
BY LengthsAssumption DEF FrameLen

(* Headers are one frame apart.                                            *)
LEMMA HeaderNext ==
    ASSUME NEW u \in Nat \ {0}, isHeader(u)
    PROVE  isHeader(u + FrameLen)
<1>1. u - 1 \in Nat /\ (u + FrameLen) - 1 = (u - 1) + FrameLen
    BY FrameLenFact
<1>2. ((u - 1) + FrameLen) % FrameLen = (u - 1) % FrameLen
    BY <1>1, FrameLenFact, RemainderNext
<1>. QED
    BY <1>1, <1>2 DEF isHeader, FrameLen

(* No header is inside a frame.                                            *)
LEMMA HeaderInside ==
    ASSUME NEW u \in Nat \ {0}, isHeader(u), NEW j \in 1..BodyLen
    PROVE  ~isHeader(u + j)
<1>1. u - 1 \in Nat /\ (u + j) - 1 = (u - 1) + j /\ j \in 0..(FrameLen - 1)
    BY FrameLenFact DEF FrameLen
<1>2. (u - 1) % FrameLen = 0
    BY DEF isHeader, FrameLen
<1>3. ((u - 1) + j) % FrameLen = j
    BY <1>1, <1>2, FrameLenFact, RemainderInside
<1>. QED
    BY <1>1, <1>3 DEF isHeader, FrameLen

(* The header of the frame a unit is in.                                   *)
LEMMA HeaderOf ==
    ASSUME NEW u \in Nat \ {0}
    PROVE  \E h \in 1..u : isHeader(h) /\ u - h \in 0..BodyLen
<1>. DEFINE k == (u - 1) \div FrameLen
            d == (u - 1) % FrameLen
<1>1. u - 1 \in Nat
    OBVIOUS
<1>2. k \in Nat /\ d \in 0..(FrameLen - 1) /\ u - 1 = FrameLen * k + d
    BY <1>1, FrameLenFact, Division
<1>. HIDE DEF k, d
<1>3. FrameLen * k \in Nat
    BY <1>2, FrameLenFact
<1>4. (FrameLen * k + 0) % FrameLen = 0
    BY <1>2, FrameLenFact, Remainder
<1>5. u - d \in 1..u /\ (u - d) - 1 = FrameLen * k + 0 /\ u - (u - d) = d
    BY <1>2, <1>3, FrameLenFact
<1>6. isHeader(u - d)
    BY <1>4, <1>5 DEF isHeader, FrameLen
<1>7. u - (u - d) \in 0..BodyLen
    BY <1>2, <1>5, FrameLenFact DEF FrameLen
<1>. QED
    BY <1>5, <1>6, <1>7

(* A message begins with a header.                                         *)
LEMMA MessageHeader ==
    ASSUME NEW a \in Nat, a % MessageLen = 0
    PROVE  isHeader(a + 1)
<1>1. MessageLen \in Nat \ {0} /\ MessageLen % FrameLen = 0
    BY LengthsAssumption DEF FrameLen
<1>2. a % FrameLen = 0
    BY <1>1, FrameLenFact, RemainderDivides
<1>. QED
    BY <1>2 DEF isHeader, FrameLen

-----------------------------------------------------------------------------
(* Queues: what a fragment appended and a frame taken off do to them.      *)
LEMMA Appended ==
    ASSUME NEW q \in Seq(Nat \ {0}), NEW a \in Nat, NEW n \in Nat
    PROVE  LET r == q \o units(a, n) IN
           /\ r \in Seq(Nat \ {0}) /\ Len(r) = Len(q) + n
           /\ \A i \in 1..Len(q) : r[i] = q[i]
           /\ \A i \in 1..Len(r) : i > Len(q) => r[i] = a + (i - Len(q))
<1>. DEFINE u == units(a, n)
            r == q \o u
<1>1. u \in Seq(Nat \ {0}) /\ Len(u) = n
    BY DEF units
<1>2. \A i \in 1..n : u[i] = a + i
    BY DEF units
<1>. SUFFICES /\ r \in Seq(Nat \ {0}) /\ Len(r) = Len(q) + n
              /\ \A i \in 1..Len(q) : r[i] = q[i]
              /\ \A i \in 1..Len(r) : i > Len(q) => r[i] = a + (i - Len(q))
    OBVIOUS
<1>. HIDE DEF u
<1>3. r \in Seq(Nat \ {0}) /\ Len(r) = Len(q) + n
    BY <1>1, ConcatProperties
<1>4. \A i \in 1..Len(q) : r[i] = q[i]
    BY <1>1
<1>5. \A i \in 1..Len(r) : i > Len(q) => r[i] = u[i - Len(q)] /\ i - Len(q) \in 1..n
    BY <1>1
<1>. QED
    BY <1>2, <1>3, <1>4, <1>5

(* Units appended where the queue ends keep it framed.                     *)
LEMMA FramedAppend ==
    ASSUME NEW q \in Seq(Nat \ {0}), Framed(q), NEW a \in Nat, NEW n \in Nat,
           Short(q) => q[Len(q)] = a,
           ~isHeader(a + 1) => Short(q)
    PROVE  Framed(q \o units(a, n))
<1>. DEFINE r == q \o units(a, n)
<1>1. /\ r \in Seq(Nat \ {0}) /\ Len(r) = Len(q) + n
      /\ \A i \in 1..Len(q) : r[i] = q[i]
      /\ \A i \in 1..Len(r) : i > Len(q) => r[i] = a + (i - Len(q))
    BY Appended, Zenon
<1>. SUFFICES Framed(r)
    OBVIOUS
<1>. HIDE DEF r
<1>2. ASSUME r # <<>>
      PROVE  isHeader(r[1])
  <2>1. CASE q = <<>>
    <3>1. isHeader(a + 1)
        BY <2>1 DEF Short
    <3>2. r[1] = a + 1
        BY <1>1, <1>2, <2>1
    <3>. QED
        BY <3>1, <3>2
  <2>2. CASE q # <<>>
    <3>1. isHeader(q[1])
        BY <2>2 DEF Framed
    <3>2. r[1] = q[1]
        BY <1>1, <2>2
    <3>. QED
        BY <3>1, <3>2
  <2>. QED
      BY <2>1, <2>2
<1>3. ASSUME NEW i \in 1..Len(r), isHeader(r[i])
      PROVE  /\ \A j \in 0..BodyLen : i + j <= Len(r) => r[i + j] = r[i] + j
             /\ i + FrameLen <= Len(r) => isHeader(r[i + FrameLen])
  <2>1. r[i] \in Nat \ {0} /\ Len(q) \in Nat
      BY <1>1
  <2>2. CASE i > Len(q)
    <3>1. \A j \in 0..FrameLen : i + j <= Len(r) => r[i + j] = r[i] + j
        BY <1>1, <2>1, <2>2, FrameLenFact
    <3>2. isHeader(r[i] + FrameLen)
        BY <1>3, <2>1, HeaderNext
    <3>. QED
        BY <3>1, <3>2, FrameLenFact DEF FrameLen
  <2>3. CASE i <= Len(q) /\ Len(q) - i < BodyLen
    <3>1. i \in 1..Len(q) /\ isHeader(q[i]) /\ r[i] = q[i]
        BY <1>1, <1>3, <2>1, <2>3
    <3>2. q[Len(q)] = a
        BY <2>3, <3>1 DEF Short
    <3>3. \A j \in 0..BodyLen : i + j <= Len(q) => q[i + j] = q[i] + j
        BY <3>1 DEF Framed
    <3>4. Len(q) - i \in 0..BodyLen /\ i + (Len(q) - i) = Len(q)
        BY <2>1, <2>3, FrameLenFact
    <3>5. a = q[i] + (Len(q) - i)
        BY <3>2, <3>3, <3>4, <2>1
    <3>6. \A j \in 0..FrameLen : i + j <= Len(r) => r[i + j] = r[i] + j
      <4>. TAKE j \in 0..FrameLen
      <4>. HAVE i + j <= Len(r)
      <4>1. CASE i + j <= Len(q)
        <5>1. j \in 0..BodyLen /\ i + j \in 1..Len(q)
            BY <4>1, <2>1, <2>3, <3>1, FrameLenFact DEF FrameLen
        <5>. QED
            BY <5>1, <4>1, <3>1, <3>3, <1>1
      <4>2. CASE i + j > Len(q)
        <5>1. i + j \in 1..Len(r)
            BY <1>1, FrameLenFact
        <5>2. r[i + j] = a + ((i + j) - Len(q))
            BY <5>1, <4>2, <1>1
        <5>. QED
            BY <5>2, <3>1, <3>5, <2>1, FrameLenFact, SMTT(30)
      <4>. QED
          BY <4>1, <4>2, <2>1, <1>1, FrameLenFact
    <3>7. isHeader(r[i] + FrameLen)
        BY <1>3, <2>1, HeaderNext
    <3>. QED
        BY <3>6, <3>7, FrameLenFact DEF FrameLen
  <2>4. CASE i <= Len(q) /\ Len(q) - i >= BodyLen
    <3>1. i \in 1..Len(q) /\ isHeader(q[i]) /\ r[i] = q[i]
        BY <1>1, <1>3, <2>1, <2>4, SMTT(30)
    <3>2. /\ \A j \in 0..BodyLen : i + j <= Len(q) => q[i + j] = q[i] + j
          /\ i + FrameLen <= Len(q) => isHeader(q[i + FrameLen])
        BY <3>1 DEF Framed
    <3>3. \A j \in 0..BodyLen : i + j \in 1..Len(q) /\ q[i + j] = q[i] + j
        BY <2>4, <2>1, <3>1, <3>2, FrameLenFact
    <3>4. \A j \in 0..BodyLen : r[i + j] = r[i] + j
        BY <3>1, <3>3, <1>1
    <3>5. CASE i + FrameLen <= Len(q)
      <4>1. i + FrameLen \in 1..Len(q)
          BY <3>5, <3>1, <2>1, FrameLenFact
      <4>. QED
          BY <4>1, <3>2, <3>4, <3>5, <1>1
    <3>6. CASE i + FrameLen > Len(q)
      <4>1. i + BodyLen = Len(q) /\ i + FrameLen = Len(q) + 1
          BY <3>6, <2>4, <2>1, FrameLenFact, SMTT(30) DEF FrameLen
      <4>2. isHeader(a + 1)
        <5>. SUFFICES ASSUME ~isHeader(a + 1)
                      PROVE  FALSE
            OBVIOUS
        <5>1. PICK k \in 1..Len(q) : isHeader(q[k]) /\ Len(q) - k < BodyLen
            BY DEF Short
        <5>2. k - i \in 1..BodyLen /\ i + (k - i) = k
            BY <5>1, <4>1, <2>1, FrameLenFact
        <5>3. q[k] = q[i] + (k - i)
            BY <5>2, <3>3
        <5>4. ~isHeader(q[i] + (k - i))
            BY <5>2, <3>1, HeaderInside, SMTT(30)
        <5>. QED
            BY <5>1, <5>3, <5>4, SMTT(30)
      <4>3. i + FrameLen <= Len(r) => r[i + FrameLen] = a + 1
          BY <4>1, <2>1, <1>1, SMTT(30)
      <4>. QED
          BY <4>2, <4>3, <3>4
    <3>. QED
        BY <3>5, <3>6, <2>1, FrameLenFact
  <2>. QED
      BY <2>1, <2>2, <2>3, <2>4, FrameLenFact
<1>. QED
    BY <1>2, <1>3 DEF Framed

(* A fragment that ends within a frame leaves the frame's first part last. *)
LEMMA ShortAppend ==
    ASSUME NEW q \in Seq(Nat \ {0}), Framed(q), NEW a \in Nat,
           NEW n \in Nat \ {0},
           ~isHeader(a + 1) => Short(q) /\ q[Len(q)] = a,
           ~isHeader(a + n + 1)
    PROVE  Short(q \o units(a, n))
<1>. DEFINE r == q \o units(a, n)
<1>1. /\ r \in Seq(Nat \ {0}) /\ Len(r) = Len(q) + n
      /\ \A i \in 1..Len(q) : r[i] = q[i]
      /\ \A i \in 1..Len(r) : i > Len(q) => r[i] = a + (i - Len(q))
    BY Appended
<1>. SUFFICES Short(r)
    OBVIOUS
<1>. HIDE DEF r
<1>2. a + n \in Nat \ {0} /\ Len(q) \in Nat
    OBVIOUS
<1>3. PICK h \in 1..(a + n) : isHeader(h) /\ (a + n) - h \in 0..BodyLen
    BY <1>2, HeaderOf
<1>4. (a + n) - h < BodyLen
  <2>. SUFFICES ASSUME (a + n) - h = BodyLen
                PROVE  FALSE
      BY <1>3, FrameLenFact
  <2>1. isHeader(h + FrameLen)
      BY <1>3, HeaderNext
  <2>2. h + FrameLen = a + n + 1
      BY <1>3, FrameLenFact DEF FrameLen
  <2>. QED
      BY <2>1, <2>2
<1>5. CASE h > a
  <2>. DEFINE i == Len(q) + (h - a)
  <2>1. i \in 1..Len(r) /\ i > Len(q) /\ i - Len(q) = h - a
      BY <1>1, <1>2, <1>3, <1>5
  <2>2. r[i] = h
      BY <2>1, <1>1, <1>3
  <2>3. Len(r) - i < BodyLen
      BY <1>1, <1>2, <1>3, <1>4, FrameLenFact
  <2>. QED
      BY <2>1, <2>2, <2>3, <1>3 DEF Short
<1>6. CASE h <= a
  <2>1. (a + 1) - h \in 1..BodyLen /\ h + ((a + 1) - h) = a + 1
      BY <1>3, <1>4, <1>6, FrameLenFact
  <2>2. ~isHeader(a + 1)
      BY <1>3, <2>1, HeaderInside
  <2>3. PICK i \in 1..Len(q) : isHeader(q[i]) /\ Len(q) - i < BodyLen
      BY <2>2 DEF Short
  <2>4. q[i] \in Nat \ {0} /\ Len(q) - i \in 0..BodyLen
            /\ i + (Len(q) - i) = Len(q)
      BY <2>3, FrameLenFact
  <2>5. \A j \in 0..BodyLen : i + j <= Len(q) => q[i + j] = q[i] + j
      BY <2>3 DEF Framed
  <2>6. a = q[i] + (Len(q) - i)
      BY <2>2, <2>4, <2>5, <1>2
  <2>7. PICK p \in Nat \ {0} : p = q[i]
      BY <2>4
  <2>8. isHeader(p) /\ p <= a /\ a - p \in 0..BodyLen
    <3>1. isHeader(p)
        BY <2>3, <2>7
    <3>2. a - p = Len(q) - i
        BY <2>6, <2>7, <1>2, SMTT(30)
    <3>. QED
        BY <3>1, <3>2, <2>4, <2>7, FrameLenFact
  <2>9. ~(p < h)
    <3>. SUFFICES ASSUME p < h
                  PROVE  FALSE
        OBVIOUS
    <3>1. h - p \in 1..BodyLen
        BY <2>8, <1>3, <1>6, FrameLenFact
    <3>2. ~isHeader(p + (h - p))
        BY <3>1, <2>8, HeaderInside
    <3>3. p + (h - p) = h
        BY <1>3
    <3>. QED
        BY <3>2, <3>3, <1>3
  <2>10. ~(p > h)
    <3>. SUFFICES ASSUME p > h
                  PROVE  FALSE
        OBVIOUS
    <3>1. p - h \in 1..BodyLen
        BY <2>8, <1>3, FrameLenFact
    <3>2. ~isHeader(h + (p - h))
        BY <3>1, <1>3, HeaderInside
    <3>3. h + (p - h) = p
        BY <1>3
    <3>. QED
        BY <3>2, <3>3, <2>8
  <2>11. i \in 1..Len(r) /\ r[i] = h /\ Len(r) - i < BodyLen
      BY <2>4, <2>6, <2>7, <2>9, <2>10, <1>1, <1>2, <1>3, <1>4, SMTT(30)
  <2>. QED
      BY <2>11, <1>3 DEF Short
<1>. QED
    BY <1>3, <1>5, <1>6

(* The first frame is taken off a queue that holds all of it.              *)
LEMMA FramedDrop ==
    ASSUME NEW q \in Seq(Nat \ {0}), Framed(q), FrameLen <= Len(q),
           NEW r \in Seq(Nat \ {0}), Len(r) = Len(q) - FrameLen,
           \A i \in 1..Len(r) : r[i] = q[i + FrameLen]
    PROVE  /\ Framed(r)
           /\ Short(r) <=> Short(q)
           /\ Short(r) => r[Len(r)] = q[Len(q)]
<1>1. Len(q) \in Nat /\ Len(r) \in Nat
    OBVIOUS
<1>2. 1 \in 1..Len(q) /\ q # <<>>
    BY <1>1, FrameLenFact
<1>3. isHeader(q[1])
    BY <1>2 DEF Framed
<1>4. /\ \A j \in 0..BodyLen : 1 + j <= Len(q) => q[1 + j] = q[1] + j
      /\ 1 + FrameLen <= Len(q) => isHeader(q[1 + FrameLen])
    BY <1>2, <1>3 DEF Framed
<1>5. ASSUME r # <<>>
      PROVE  isHeader(r[1])
  <2>1. 1 \in 1..Len(r) /\ 1 + FrameLen <= Len(q)
      BY <1>5, <1>1, FrameLenFact
  <2>. QED
      BY <2>1, <1>4
<1>6. ASSUME NEW i \in 1..Len(r), isHeader(r[i])
      PROVE  /\ \A j \in 0..BodyLen : i + j <= Len(r) => r[i + j] = r[i] + j
             /\ i + FrameLen <= Len(r) => isHeader(r[i + FrameLen])
  <2>. DEFINE k == i + FrameLen
  <2>1. k \in 1..Len(q) /\ isHeader(q[k]) /\ r[i] = q[k]
    <3>1. k \in 1..Len(q)
        BY <1>1, FrameLenFact
    <3>2. r[i] = q[i + FrameLen]
        OBVIOUS
    <3>. QED
        BY <3>1, <3>2, <1>6
  <2>2. /\ \A j \in 0..BodyLen : k + j <= Len(q) => q[k + j] = q[k] + j
        /\ k + FrameLen <= Len(q) => isHeader(q[k + FrameLen])
      BY <2>1 DEF Framed
  <2>3. \A j \in 0..FrameLen : i + j <= Len(r) =>
            k + j <= Len(q) /\ r[i + j] = q[k + j]
    <3>. TAKE j \in 0..FrameLen
    <3>. HAVE i + j <= Len(r)
    <3> DEFINE n == i + j
    <3>1. n \in 1..Len(r) /\ n + FrameLen = k + j /\ k + j <= Len(q)
        BY <1>1, FrameLenFact
    <3>2. r[n] = q[n + FrameLen]
        BY <3>1
    <3>. QED
        BY <3>1, <3>2
  <2>4. FrameLen \in 0..FrameLen /\ \A j \in 0..BodyLen : j \in 0..FrameLen
    <3>1. FrameLen = BodyLen + 1
        BY DEF FrameLen
    <3>. QED
        BY <3>1, FrameLenFact, SMTT(30)
  <2>. HIDE DEF k
  <2>5. \A j \in 0..BodyLen : i + j <= Len(r) => r[i + j] = r[i] + j
    <3>. TAKE j \in 0..BodyLen
    <3>. HAVE i + j <= Len(r)
    <3>1. k + j <= Len(q) /\ r[i + j] = q[k + j]
        BY <2>3, <2>4, Zenon
    <3>2. q[k + j] = q[k] + j
        BY <3>1, <2>2, Zenon
    <3>. QED
        BY <3>1, <3>2, <2>1, Zenon
  <2>6. i + FrameLen <= Len(r) => isHeader(r[i + FrameLen])
      BY <2>1, <2>2, <2>3, <2>4, Zenon
  <2>. QED
      BY <2>5, <2>6
<1>7. ASSUME Short(q)
      PROVE  Short(r)
  <2>1. PICK i \in 1..Len(q) : isHeader(q[i]) /\ Len(q) - i < BodyLen
      BY <1>7 DEF Short
  <2>2. i # 1
      BY <2>1, <1>1, FrameLenFact DEF FrameLen
  <2>3. i > FrameLen
    <3>. SUFFICES ASSUME i <= FrameLen
                  PROVE  FALSE
        BY <1>1, FrameLenFact
    <3>1. i - 1 \in 1..BodyLen /\ 1 + (i - 1) = i
        BY <2>2, FrameLenFact DEF FrameLen
    <3>2. q[i] = q[1] + (i - 1)
        BY <3>1, <1>4
    <3>3. q[1] \in Nat \ {0}
        BY <1>2
    <3>4. ~isHeader(q[1] + (i - 1))
        BY <3>1, <3>3, <1>3, HeaderInside
    <3>. QED
        BY <3>2, <3>1, <3>4, <2>1
  <2>4. i - FrameLen \in 1..Len(r) /\ (i - FrameLen) + FrameLen = i
      BY <2>3, <1>1, FrameLenFact
  <2>5. r[i - FrameLen] = q[i] /\ Len(r) - (i - FrameLen) = Len(q) - i
      BY <2>4, <1>1, FrameLenFact
  <2>. QED
      BY <2>1, <2>4, <2>5 DEF Short
<1>8. ASSUME Short(r)
      PROVE  Short(q) /\ r[Len(r)] = q[Len(q)]
  <2>1. PICK i \in 1..Len(r) : isHeader(r[i]) /\ Len(r) - i < BodyLen
      BY <1>8 DEF Short
  <2>2. i + FrameLen \in 1..Len(q) /\ r[i] = q[i + FrameLen]
            /\ Len(q) - (i + FrameLen) = Len(r) - i
      BY <1>1, FrameLenFact
  <2>3. Len(r) \in 1..Len(r) /\ Len(r) + FrameLen = Len(q)
      BY <1>1, FrameLenFact, SMTT(30)
  <2>4. r[Len(r)] = q[Len(q)]
      BY <2>3
  <2>. QED
      BY <2>1, <2>2, <2>4 DEF Short
<1>. QED
    BY <1>5, <1>6, <1>7, <1>8 DEF Framed

-----------------------------------------------------------------------------
(* The queue as the slave task reads it.                                   *)
LEMMA PiecesAreUnits ==
    ASSUME RangesOK, NEW n \in Pieces
    PROVE  n \in Nat \ {0}
<1>1. MessageLen \in Nat \ {0} /\ at \in Nat
    BY LengthsAssumption DEF RangesOK
<1>2. offset \in 0..(MessageLen - 1)
    BY <1>1, Division DEF offset
<1>. QED
    BY <1>1, <1>2 DEF Pieces

(* A buffer of units is a sequence of places in the stream.                *)
LEMMA UnitsArePlaces ==
    ASSUME NEW s \in Seq(Units)
    PROVE  s \in Seq(Nat \ {0})
<1>. Units \subseteq Nat \ {0}
    BY DEF Units
<1>. QED
    BY SeqMonotonic

(* The queue is the kept header, if any, and the buffer behind it.         *)
LEMMA QueueShape ==
    ASSUME RangesOK
    PROVE  /\ keptHead \in Seq(Nat \ {0}) /\ dl_audio_sb \in Seq(Nat \ {0})
           /\ queued \in Seq(Nat \ {0})
           /\ pending_header = <<>> => queued = dl_audio_sb
           /\ pending_header # <<>> =>
                 /\ pending_header[1] \in Headers
                 /\ keptHead = <<pending_header[1].head>>
                 /\ Len(queued) = Len(dl_audio_sb) + 1
                 /\ queued[1] = pending_header[1].head
                 /\ \A i \in 1..Len(dl_audio_sb) : queued[i + 1] = dl_audio_sb[i]
<1>1. dl_audio_sb \in Seq(Nat \ {0})
    BY UnitsArePlaces DEF RangesOK
<1>2. CASE pending_header = <<>>
  <2>1. keptHead = <<>>
      BY <1>2 DEF keptHead
  <2>. QED
      BY <2>1, <1>1, <1>2, ConcatEmptySeq DEF queued
<1>3. CASE pending_header # <<>>
  <2>1. pending_header[1] \in Headers
      BY <1>3 DEF RangesOK
  <2>. DEFINE h == pending_header[1].head
  <2>2. h \in Nat \ {0}
      BY <2>1 DEF Headers, Units
  <2>3. keptHead = <<h>>
      BY <1>3 DEF keptHead
  <2>. HIDE DEF h
  <2>4. <<h>> \in Seq(Nat \ {0}) /\ Len(<<h>>) = 1 /\ <<h>>[1] = h
      BY <2>2
  <2>5. queued = <<h>> \o dl_audio_sb
      BY <2>3 DEF queued
  <2>6. /\ queued \in Seq(Nat \ {0})
        /\ Len(queued) = Len(dl_audio_sb) + 1
        /\ queued[1] = h
        /\ \A i \in 1..Len(dl_audio_sb) : queued[i + 1] = dl_audio_sb[i]
      BY <2>4, <2>5, <1>1, ConcatProperties
  <2>. QED
      BY <2>1, <2>2, <2>3, <2>4, <2>6, <1>1, <1>3 DEF h
<1>. QED
    BY <1>2, <1>3

(* Its first unit is the header, what is behind it is Rest.                *)
LEMMA QueueParts ==
    ASSUME RangesOK, headerThere
    PROVE  /\ queued # <<>> /\ queued[1] \in Nat \ {0}
           /\ Rest \in Seq(Units) /\ Len(Rest) <= BufferLen
           /\ Len(queued) = Len(Rest) + 1
           /\ \A i \in 1..Len(Rest) : queued[i + 1] = Rest[i]
           /\ \A h \in Header : h \in Headers /\ h.head = queued[1]
<1>1. CASE pending_header # <<>>
  <2>1. Rest = dl_audio_sb /\ Header = {pending_header[1]}
      BY <1>1 DEF Rest, Header
  <2>2. /\ pending_header[1] \in Headers
        /\ queued \in Seq(Nat \ {0})
        /\ Len(queued) = Len(dl_audio_sb) + 1
        /\ queued[1] = pending_header[1].head
        /\ \A i \in 1..Len(dl_audio_sb) : queued[i + 1] = dl_audio_sb[i]
      BY <1>1, QueueShape
  <2>3. dl_audio_sb \in Seq(Units) /\ Len(dl_audio_sb) <= BufferLen
      BY DEF RangesOK
  <2>. QED
      BY <2>1, <2>2, <2>3
<1>2. CASE pending_header = <<>>
  <2>1. queued = dl_audio_sb /\ dl_audio_sb # <<>>
      BY <1>2, QueueShape DEF headerThere
  <2>2. dl_audio_sb \in Seq(Units) /\ Len(dl_audio_sb) <= BufferLen
      BY DEF RangesOK
  <2>3. Rest = Tail(dl_audio_sb)
      BY <1>2 DEF Rest
  <2>4. /\ Rest \in Seq(Units) /\ Len(Rest) = Len(dl_audio_sb) - 1
        /\ \A i \in 1..Len(Rest) : dl_audio_sb[i + 1] = Rest[i]
      BY <2>1, <2>2, <2>3, HeadTailProperties
  <2>5. dl_audio_sb[1] \in Units
      BY <2>1, <2>2
  <2>6. lengths(dl_audio_sb[1]) \subseteq Lengths
      BY LengthsAssumption DEF lengths, Lengths
  <2>7. \A h \in Header : h \in Headers /\ h.head = dl_audio_sb[1]
      BY <2>5, <2>6, <1>2 DEF Header, Headers
  <2>8. Len(dl_audio_sb) \in Nat /\ BufferLen \in Nat
      BY <2>2, LengthsAssumption
  <2>. QED
      BY <2>1, <2>2, <2>4, <2>5, <2>7, <2>8 DEF Units
<1>. QED
    BY <1>1, <1>2

(* A header kept stays first in the queue.                                 *)
LEMMA QueueOfKept ==
    ASSUME RangesOK, headerThere, NEW h \in Header
    PROVE  <<h.head>> \o Rest = queued
<1>1. /\ queued # <<>> /\ queued[1] \in Nat \ {0}
      /\ Rest \in Seq(Units)
      /\ Len(queued) = Len(Rest) + 1
      /\ \A i \in 1..Len(Rest) : queued[i + 1] = Rest[i]
      /\ h.head = queued[1]
    BY QueueParts
<1>2. queued \in Seq(Nat \ {0}) /\ Rest \in Seq(Nat \ {0})
    BY <1>1, QueueShape, UnitsArePlaces
<1>. DEFINE one == <<h.head>>
            r == one \o Rest
<1>3. one \in Seq(Nat \ {0}) /\ Len(one) = 1 /\ one[1] = queued[1]
    BY <1>1
<1>. SUFFICES r = queued
    OBVIOUS
<1>. HIDE DEF one
<1>4. /\ r \in Seq(Nat \ {0}) /\ Len(r) = Len(one) + Len(Rest)
      /\ \A i \in 1..(Len(one) + Len(Rest)) :
            r[i] = IF i <= Len(one) THEN one[i] ELSE Rest[i - Len(one)]
    BY <1>2, <1>3, ConcatProperties
<1>. HIDE DEF r
<1>5. \A i \in 1..Len(queued) : r[i] = queued[i]
  <2>. TAKE i \in 1..Len(queued)
  <2>1. CASE i = 1
      BY <2>1, <1>1, <1>2, <1>3, <1>4
  <2>2. CASE i # 1
    <3>1. i - 1 \in 1..Len(Rest) /\ (i - 1) + 1 = i
        BY <2>2, <1>1, <1>2
    <3>2. queued[i] = Rest[i - 1]
        BY <3>1, <1>1
    <3>3. r[i] = Rest[i - 1]
        BY <3>1, <1>1, <1>2, <1>3, <1>4, <2>2, SMTT(30)
    <3>. QED
        BY <3>2, <3>3
  <2>. QED
      BY <2>1, <2>2
<1>6. Len(r) = Len(queued)
    BY <1>1, <1>2, <1>3, <1>4
<1>. QED
    BY <1>2, <1>4, <1>5, <1>6, SeqEqual

-----------------------------------------------------------------------------
(* What each action does to the queue.                                     *)
LEMMA Associative ==
    ASSUME NEW S, NEW p \in Seq(S), NEW q \in Seq(S), NEW r \in Seq(S)
    PROVE  (p \o q) \o r = p \o (q \o r)
BY ConcatAssociative, SMTT(30)

(* Taking a frame off the queue moves every place by its length.           *)
LEMMA FrameOff ==
    ASSUME NEW q \in Seq(Nat \ {0}), NEW rest \in Seq(Units),
           Len(q) = Len(rest) + 1, \A i \in 1..Len(rest) : q[i + 1] = rest[i],
           NEW l \in Nat \ {0}, l <= Len(rest)
    PROVE  LET r == SubSeq(rest, l + 1, Len(rest))
           IN  /\ r \in Seq(Units) /\ Len(r) = Len(q) - (l + 1)
               /\ \A i \in 1..Len(r) : r[i] = q[i + (l + 1)]
<1>. DEFINE r == SubSeq(rest, l + 1, Len(rest))
<1>1. Len(rest) \in Nat
    OBVIOUS
<1>2. \A i \in (l + 1)..Len(rest) : rest[i] \in Units
    BY <1>1
<1>. DEFINE last == Len(rest)
<1>3. /\ r \in Seq(Units)
      /\ Len(r) = IF l + 1 <= last THEN last - (l + 1) + 1 ELSE 0
      /\ \A i \in 1..(last - (l + 1) + 1) : r[i] = rest[(l + 1) + i - 1]
    BY <1>1, <1>2, SubSeqProperties, SMTT(30)
<1>4. Len(r) = last - l
    BY <1>1, <1>3
<1>5. ASSUME NEW i \in 1..Len(r)
      PROVE  r[i] = q[i + (l + 1)]
  <2>1. /\ i \in 1..(last - (l + 1) + 1)
        /\ (l + 1) + i - 1 = i + l
        /\ i + l \in 1..last
        /\ (i + l) + 1 = i + (l + 1)
      BY <1>1, <1>4
  <2>2. r[i] = rest[i + l]
      BY <2>1, <1>3
  <2>. QED
      BY <2>1, <2>2
<1>. HIDE DEF r
<1>6. /\ r \in Seq(Units) /\ Len(r) = Len(q) - (l + 1)
      /\ \A i \in 1..Len(r) : r[i] = q[i + (l + 1)]
    BY <1>1, <1>3, <1>4, <1>5
<1>. QED
    BY <1>6, Zenon DEF r

(* A fragment goes to the end of the queue whole or not at all.            *)
LEMMA FragmentQueues ==
    ASSUME RangesOK, NEW n \in Pieces, Fragment(n)
    PROVE  /\ n \in Nat \ {0} /\ at' = at + n /\ at' \in 0..MaxUnits
           /\ dl_audio_sb' \in Seq(Units) /\ Len(dl_audio_sb') <= BufferLen
           /\ \/ ~Accepted(n) /\ queued' = queued
              \/ Accepted(n) /\ queued' = queued \o units(at, n)
<1>1. n \in Nat \ {0}
    BY PiecesAreUnits
<1>2. at' = at + n /\ at' \in 0..MaxUnits /\ at \in Nat
    BY <1>1, LengthsAssumption DEF Fragment, RangesOK
<1>3. dl_audio_sb \in Seq(Units) /\ Len(dl_audio_sb) <= BufferLen
    BY DEF RangesOK
<1>4. keptHead' = keptHead
    BY DEF keptHead, Fragment, slaveVars
<1>5. CASE Accepted(n)
  <2>. DEFINE u == units(at, n)
              all == dl_audio_sb \o u
  <2>1. u \in Seq(Units) /\ Len(u) = n
    <3>1. at + n \in 0..MaxUnits
        BY <1>2
    <3>2. \A i \in 1..n : at + i \in Units
        BY <3>1, <1>1, <1>2, LengthsAssumption DEF Units
    <3>. QED
        BY <3>2, <1>1 DEF units
  <2>2. fits(n) /\ dl_audio_sb' = written(n)
      BY <1>5 DEF Accepted
  <2>. HIDE DEF u
  <2>3. all \in Seq(Units) /\ Len(all) = Len(dl_audio_sb) + Len(u)
      BY <2>1, <1>3, ConcatProperties
  <2>4. Len(all) <= BufferLen
      BY <2>1, <2>2, <2>3, <1>1, <1>3, LengthsAssumption DEF fits
  <2>5. ~(Len(all) > BufferLen)
      BY <2>3, <2>4, LengthsAssumption
  <2>6. written(n) = all
      BY <2>5 DEF written, u
  <2>7. queued' = keptHead \o (dl_audio_sb \o u)
      BY <2>2, <2>6, <1>4 DEF queued
  <2>8. keptHead \in Seq(Nat \ {0}) /\ dl_audio_sb \in Seq(Nat \ {0})
            /\ u \in Seq(Nat \ {0})
      BY <2>1, QueueShape, UnitsArePlaces
  <2>9. queued' = queued \o u
    <3>1. (keptHead \o dl_audio_sb) \o u = keptHead \o (dl_audio_sb \o u)
        BY <2>8, Associative, SMTT(30)
    <3>. QED
        BY <3>1, <2>7 DEF queued
  <2>. QED
      BY <1>1, <1>2, <1>5, <2>2, <2>3, <2>4, <2>6, <2>9 DEF u
<1>6. CASE ~Accepted(n)
  <2>1. dl_audio_sb' = dl_audio_sb
      BY <1>6 DEF Fragment, Overflows, Dropped
  <2>2. queued' = queued
      BY <2>1, <1>4 DEF queued
  <2>. QED
      BY <1>1, <1>2, <1>3, <1>6, <2>1, <2>2
<1>. QED
    BY <1>5, <1>6

(* A header that is kept for the next payload stays in the queue.          *)
LEMMA KeepHeaderQueues ==
    ASSUME RangesOK, KeepHeader
    PROVE  /\ dl_audio_sb' \in Seq(Units) /\ Len(dl_audio_sb') <= BufferLen
           /\ pending_header' \in Seq(Headers) /\ Len(pending_header') <= 1
           /\ queued' = queued
           /\ \E h \in Header : pending_header' = <<h>>
<1>1. headerThere
    BY DEF KeepHeader, mayPackMore
<1>2. PICK h \in Header : pending_header' = <<h>>
    BY DEF KeepHeader
<1>3. h \in Headers /\ Rest \in Seq(Units) /\ Len(Rest) <= BufferLen
    BY <1>1, QueueParts
<1>4. dl_audio_sb' = Rest
    BY DEF KeepHeader
<1>5. pending_header' # <<>> /\ pending_header'[1] = h
        /\ pending_header' \in Seq(Headers) /\ Len(pending_header') <= 1
    BY <1>2, <1>3
<1>6. keptHead' = <<h.head>>
    BY <1>5 DEF keptHead
<1>7. queued' = queued
    BY <1>1, <1>4, <1>6, QueueOfKept DEF queued
<1>. QED
    BY <1>2, <1>3, <1>4, <1>5, <1>7

(* Packing takes a header and its length off the queue.                    *)
LEMMA PackFrameQueues ==
    ASSUME RangesOK, PackFrame
    PROVE  \E h \in Header :
             /\ h \in Headers /\ h.head = queued[1] /\ h.len < Len(queued)
             /\ used' = used + 1 + h.len /\ used' \in 0..PayloadLen
             /\ dl_audio_sb' \in Seq(Units) /\ Len(dl_audio_sb') <= BufferLen
             /\ pending_header' = <<>> /\ queued' = dl_audio_sb'
             /\ Len(queued') = Len(queued) - (h.len + 1)
             /\ \A i \in 1..Len(queued') : queued'[i] = queued[i + (h.len + 1)]
             /\ garbled' = (garbled \/ ~isFrame(h.head, SubSeq(Rest, 1, h.len)))
             /\ repeated' = (repeated \/ h.head <= last_head)
             /\ last_head' = h.head
<1>1. headerThere
    BY DEF PackFrame, mayPackMore
<1>2. PICK h \in Header :
         /\ fitsPayload(h.len) /\ h.len <= Len(Rest)
         /\ used' = used + 1 + h.len
         /\ dl_audio_sb' = SubSeq(Rest, h.len + 1, Len(Rest))
         /\ garbled' = (garbled \/ ~isFrame(h.head, SubSeq(Rest, 1, h.len)))
         /\ repeated' = (repeated \/ h.head <= last_head)
         /\ last_head' = h.head
    BY DEF PackFrame
<1>3. /\ Rest \in Seq(Units) /\ Len(Rest) <= BufferLen
      /\ Len(queued) = Len(Rest) + 1
      /\ \A i \in 1..Len(Rest) : queued[i + 1] = Rest[i]
      /\ h \in Headers /\ h.head = queued[1]
    BY <1>1, QueueParts
<1>4. h.len \in Nat \ {0} /\ Len(Rest) \in Nat /\ used \in Nat
        /\ PayloadLen \in Nat /\ BufferLen \in Nat
    BY <1>3, LengthsAssumption DEF Headers, Lengths, RangesOK
<1>5. used' \in 0..PayloadLen
    BY <1>2, <1>4 DEF fitsPayload
<1>6. queued \in Seq(Nat \ {0})
    BY QueueShape
<1>7. /\ dl_audio_sb' \in Seq(Units)
      /\ Len(dl_audio_sb') = Len(queued) - (h.len + 1)
      /\ \A i \in 1..Len(dl_audio_sb') :
            dl_audio_sb'[i] = queued[i + (h.len + 1)]
  <2>1. PICK l \in Nat \ {0} : l = h.len
      BY <1>4
  <2>2. l <= Len(Rest) /\ dl_audio_sb' = SubSeq(Rest, l + 1, Len(Rest))
      BY <2>1, <1>2
  <2>. DEFINE left == SubSeq(Rest, l + 1, Len(Rest))
  <2>. HIDE DEF left
  <2>3. /\ left \in Seq(Units)
        /\ Len(left) = Len(queued) - (l + 1)
        /\ \A i \in 1..Len(left) : left[i] = queued[i + (l + 1)]
      BY <2>2, <1>3, <1>6, FrameOff DEF left
  <2>4. dl_audio_sb' = left
      BY <2>2 DEF left
  <2>. QED
      BY <2>1, <2>3, <2>4
<1>8. pending_header' = <<>> /\ keptHead' = <<>>
    BY DEF PackFrame, headerUsed, keptHead
<1>9. queued' = dl_audio_sb'
    BY <1>7, <1>8, ConcatEmptySeq DEF queued
<1>10. h.len < Len(queued) /\ Len(dl_audio_sb') <= BufferLen
    BY <1>2, <1>3, <1>4, <1>7, SMTT(30)
<1>. QED
    BY <1>2, <1>3, <1>5, <1>7, <1>8, <1>9, <1>10

(* The buffer is reset: by a length that cannot be, by START.              *)
LEMMA ResetQueues ==
    ASSUME RangesOK, BadHeader \/ StartResets
    PROVE  /\ dl_audio_sb' = <<>> /\ pending_header' = pending_header
           /\ pending_header = <<>> => queued' = <<>>
           /\ queued' = keptHead
<1>1. dl_audio_sb' = <<>> /\ pending_header' = pending_header
    BY DEF BadHeader, StartResets, slaveVars
<1>2. keptHead' = keptHead
    BY <1>1 DEF keptHead
<1>3. queued' = keptHead
    BY <1>1, <1>2, QueueShape, ConcatEmptySeq DEF queued
<1>. QED
    BY <1>1, <1>3 DEF keptHead

(* The steps that leave the queue alone.                                   *)
Quiet ==
    \/ Prepare \/ PackedAll \/ Sample \/ Arm \/ Transfer \/ TransferDone
    \/ Lower \/ StartEndsSession \/ StartLowers \/ StartListens \/ ListenEnds
    \/ UNCHANGED vars

(* The steps that only move the line and the payload leave the queue.      *)
LEMMA QuietQueues ==
    ASSUME Quiet
    PROVE  /\ UNCHANGED <<at, dl_msg_dropping, dl_audio_sb, pending_header>>
           /\ UNCHANGED <<last_head, repeated, garbled, reset_mid, cuts>>
           /\ queued' = queued
<1>1. /\ UNCHANGED <<at, dl_msg_dropping, dl_audio_sb, pending_header>>
      /\ UNCHANGED <<last_head, repeated, garbled, reset_mid, cuts>>
  <2>1. CASE Prepare
      BY <2>1 DEF Prepare, wsVars, histVars
  <2>2. CASE PackedAll
      BY <2>2 DEF PackedAll, Packed, wsVars, histVars
  <2>3. CASE Sample
      BY <2>3 DEF Sample, wsVars, histVars
  <2>4. CASE Arm
      BY <2>4 DEF Arm, wsVars, histVars
  <2>5. CASE Transfer
      BY <2>5 DEF Transfer, wsVars, histVars
  <2>6. CASE TransferDone
      BY <2>6 DEF TransferDone, wsVars, histVars
  <2>7. CASE Lower
      BY <2>7 DEF Lower, wsVars, histVars
  <2>8. CASE StartEndsSession
      BY <2>8 DEF StartEndsSession, slaveVars, histVars
  <2>9. CASE StartLowers
      BY <2>9 DEF StartLowers, wsVars, slaveVars, histVars
  <2>10. CASE StartListens
      BY <2>10 DEF StartListens, wsVars, slaveVars, histVars
  <2>11. CASE ListenEnds
      BY <2>11 DEF ListenEnds, wsVars, slaveVars, histVars
  <2>12. CASE UNCHANGED vars
      BY <2>12 DEF vars, wsVars, slaveVars, histVars
  <2>. QED
      BY <2>1, <2>2, <2>3, <2>4, <2>5, <2>6, <2>7, <2>8, <2>9, <2>10, <2>11,
         <2>12 DEF Quiet
<1>. QED
    BY <1>1 DEF queued, keptHead

(* What a step can do to the queue.                                        *)
LEMMA Steps ==
    ASSUME [Next]_vars
    PROVE  \/ \E n \in Pieces : Fragment(n)
           \/ KeepHeader \/ BadHeader \/ PackFrame \/ StartResets
           \/ Quiet
BY DEF Next, SlaveTask, UartTask, Quiet

-----------------------------------------------------------------------------
(* Types.                                                                  *)
LEMMA FlagsStep ==
    ASSUME FlagsOK, [Next]_vars
    PROVE  FlagsOK'
<1>1. ASSUME NEW n \in Pieces, Fragment(n)
      PROVE  FlagsOK'
  <2>1. gateOpen \in BOOLEAN
      BY Zenon DEF FlagsOK, gateOpen
  <2>2. dl_msg_dropping' \in BOOLEAN /\ handshake' \in BOOLEAN
      BY <1>1, Zenon DEF FlagsOK, Fragment, Accepted, Overflows, Dropped
  <2>. QED
      BY <1>1, <2>1, <2>2, Zenon DEF FlagsOK, Fragment, slaveVars, histVars
<1>2. CASE Prepare \/ PackedAll \/ KeepHeader \/ BadHeader
    BY <1>2, Zenon DEF FlagsOK, Prepare, PackedAll, KeepHeader, BadHeader,
                       Packed, wsVars, histVars
<1>3. CASE PackFrame
    BY <1>3, Zenon DEF FlagsOK, PackFrame, wsVars
<1>4. CASE Sample \/ Arm \/ Transfer \/ TransferDone \/ Lower
    BY <1>4, Zenon DEF FlagsOK, Sample, Arm, Transfer, TransferDone, Lower,
                       wsVars, histVars
<1>5. CASE StartEndsSession \/ StartResets
    BY <1>5, Zenon DEF FlagsOK, StartEndsSession, StartResets, wsVars,
                       slaveVars, histVars
<1>6. CASE StartLowers \/ StartListens \/ ListenEnds
    BY <1>6, Zenon DEF FlagsOK, StartLowers, StartListens, ListenEnds, wsVars,
                       slaveVars, histVars
<1>7. CASE UNCHANGED vars
    BY <1>7, Zenon DEF FlagsOK, vars, wsVars, slaveVars, histVars
<1>. QED
    BY <1>1, <1>2, <1>3, <1>4, <1>5, <1>6, <1>7 DEF Next, SlaveTask, UartTask

(* No step writes the buffer or the payload past its end.                  *)
LEMMA RangesStep ==
    ASSUME RangesOK, [Next]_vars
    PROVE  RangesOK'
<1>1. ASSUME NEW n \in Pieces, Fragment(n)
      PROVE  RangesOK'
  <2>1. /\ at' \in 0..MaxUnits
        /\ dl_audio_sb' \in Seq(Units) /\ Len(dl_audio_sb') <= BufferLen
      BY <1>1, FragmentQueues
  <2>2. cuts' \subseteq Cuts
      BY <1>1 DEF RangesOK, Fragment, Accepted, Overflows, Dropped, Cuts
  <2>. QED
      BY <1>1, <2>1, <2>2 DEF RangesOK, Fragment, slaveVars, histVars
<1>2. CASE KeepHeader
  <2>1. /\ dl_audio_sb' \in Seq(Units) /\ Len(dl_audio_sb') <= BufferLen
        /\ pending_header' \in Seq(Headers) /\ Len(pending_header') <= 1
      BY <1>2, KeepHeaderQueues
  <2>. QED
      BY <1>2, <2>1 DEF RangesOK, KeepHeader, Packed, wsVars, histVars
<1>3. CASE PackFrame
  <2>1. /\ used' \in 0..PayloadLen /\ pending_header' = <<>>
        /\ dl_audio_sb' \in Seq(Units) /\ Len(dl_audio_sb') <= BufferLen
        /\ last_head' \in 0..MaxUnits
      BY <1>3, PackFrameQueues DEF Headers, Units
  <2>. QED
      BY <1>3, <2>1, SMTT(30) DEF RangesOK, PackFrame, wsVars
<1>4. CASE BadHeader
    BY <1>4, LengthsAssumption DEF RangesOK, BadHeader, Packed, wsVars, histVars
<1>5. CASE StartResets
    BY <1>5, LengthsAssumption
    DEF RangesOK, StartResets, wsVars, slaveVars, histVars, Cuts
<1>6. CASE Prepare \/ PackedAll
    BY <1>6, LengthsAssumption
    DEF RangesOK, Prepare, PackedAll, Packed, wsVars, histVars
<1>7. CASE Sample \/ Arm \/ Transfer \/ TransferDone \/ Lower
    BY <1>7 DEF RangesOK, Sample, Arm, Transfer, TransferDone, Lower, wsVars,
                histVars
<1>8. CASE StartEndsSession
    BY <1>8, LengthsAssumption
    DEF RangesOK, StartEndsSession, slaveVars, histVars
<1>9. CASE StartLowers \/ StartListens \/ ListenEnds
    BY <1>9 DEF RangesOK, StartLowers, StartListens, ListenEnds, wsVars,
                slaveVars, histVars
<1>10. CASE UNCHANGED vars
    BY <1>10 DEF RangesOK, vars, wsVars, slaveVars, histVars
<1>. QED
    BY <1>1, <1>2, <1>3, <1>4, <1>5, <1>6, <1>7, <1>8, <1>9, <1>10
    DEF Next, SlaveTask, UartTask

-----------------------------------------------------------------------------
(* The order of the stream.                                                *)
LEMMA InOrderAppend ==
    ASSUME NEW q \in Seq(Nat \ {0}), NEW low \in Nat, NEW a \in Nat,
           InOrder(q, low, a), NEW n \in Nat \ {0}
    PROVE  InOrder(q \o units(a, n), low, a + n)
<1>. DEFINE r == q \o units(a, n)
<1>1. /\ r \in Seq(Nat \ {0}) /\ Len(r) = Len(q) + n
      /\ \A i \in 1..Len(q) : r[i] = q[i]
      /\ \A i \in 1..Len(r) : i > Len(q) => r[i] = a + (i - Len(q))
    BY Appended
<1>. SUFFICES InOrder(r, low, a + n)
    OBVIOUS
<1>. HIDE DEF r
<1>2. Len(q) \in Nat /\ \A i \in 1..Len(q) : q[i] \in Nat
    OBVIOUS
<1>3. /\ \A i, j \in 1..Len(q) : i < j => q[i] < q[j]
      /\ \A i \in 1..Len(q) : low < q[i] /\ q[i] <= a
      /\ low <= a
    BY DEF InOrder
<1>4. ASSUME NEW i \in 1..Len(r), NEW j \in 1..Len(r), i < j
      PROVE  r[i] < r[j]
  <2>1. CASE j <= Len(q)
    <3>1. i \in 1..Len(q) /\ j \in 1..Len(q)
        BY <2>1, <1>1, <1>2, <1>4
    <3>. QED
        BY <3>1, <1>1, <1>3, <1>4
  <2>2. CASE j > Len(q) /\ i <= Len(q)
    <3>1. i \in 1..Len(q) /\ r[j] = a + (j - Len(q))
        BY <2>2, <1>1, <1>2
    <3>2. r[i] = q[i] /\ q[i] <= a /\ q[i] \in Nat
        BY <3>1, <1>1, <1>2, <1>3
    <3>. QED
        BY <3>1, <3>2, <2>2, <1>2
  <2>3. CASE j > Len(q) /\ i > Len(q)
      BY <2>3, <1>1, <1>2, <1>4
  <2>. QED
      BY <2>1, <2>2, <2>3, <1>1, <1>2
<1>5. ASSUME NEW i \in 1..Len(r)
      PROVE  low < r[i] /\ r[i] <= a + n
  <2>1. CASE i <= Len(q)
    <3>1. i \in 1..Len(q)
        BY <2>1, <1>1, <1>2
    <3>2. r[i] = q[i] /\ q[i] \in Nat /\ low < q[i] /\ q[i] <= a
        BY <3>1, <1>1, <1>2, <1>3
    <3>. QED
        BY <3>2
  <2>2. CASE i > Len(q)
      BY <2>2, <1>1, <1>2, <1>3
  <2>. QED
      BY <2>1, <2>2, <1>1, <1>2
<1>. QED
    BY <1>3, <1>4, <1>5 DEF InOrder

(* What is left behind the first units of a queue.                         *)
LEMMA InOrderDrop ==
    ASSUME NEW q \in Seq(Nat \ {0}), NEW low \in Nat, NEW a \in Nat,
           InOrder(q, low, a), NEW l \in Nat \ {0},
           NEW r \in Seq(Nat \ {0}), l <= Len(q), Len(r) = Len(q) - l,
           \A i \in 1..Len(r) : r[i] = q[i + l]
    PROVE  InOrder(r, q[1], a) /\ low < q[1]
<1>1. Len(q) \in Nat /\ Len(r) \in Nat /\ \A i \in 1..Len(q) : q[i] \in Nat
    OBVIOUS
<1>2. /\ \A i, j \in 1..Len(q) : i < j => q[i] < q[j]
      /\ \A i \in 1..Len(q) : low < q[i] /\ q[i] <= a
      /\ low <= a
    BY DEF InOrder
<1>3. 1 \in 1..Len(q)
    BY <1>1
<1>4. ASSUME NEW i \in 1..Len(r)
      PROVE  i + l \in 1..Len(q) /\ 1 < i + l
    BY <1>1
<1>5. ASSUME NEW i \in 1..Len(r), NEW j \in 1..Len(r), i < j
      PROVE  r[i] < r[j]
  <2>1. i + l < j + l
      BY <1>1, <1>5
  <2>. QED
      BY <2>1, <1>2, <1>4
<1>6. ASSUME NEW i \in 1..Len(r)
      PROVE  q[1] < r[i] /\ r[i] <= a
    BY <1>2, <1>3, <1>4
<1>. QED
    BY <1>2, <1>3, <1>5, <1>6 DEF InOrder

(* Every step keeps the queue in the stream's order.                       *)
LEMMA OrderStep ==
    ASSUME TypeOK, OrderInv, [Next]_vars
    PROVE  OrderInv'
<1>0. RangesOK /\ at \in Nat /\ last_head \in Nat
        /\ queued \in Seq(Nat \ {0}) /\ Len(queued) \in Nat
    BY QueueShape DEF TypeOK, RangesOK
<1>1. ASSUME NEW n \in Pieces, Fragment(n)
      PROVE  OrderInv'
  <2>1. last_head' = last_head /\ repeated' = repeated
      BY <1>1 DEF Fragment, histVars
  <2>2. n \in Nat \ {0} /\ at' = at + n
      BY <1>0, <1>1, FragmentQueues
  <2>3. CASE queued' = queued
      BY <2>1, <2>2, <2>3, <1>0 DEF OrderInv, InOrder, NoFrameTwice
  <2>4. CASE queued' = queued \o units(at, n)
      BY <2>1, <2>2, <2>4, <1>0, InOrderAppend DEF OrderInv, NoFrameTwice
  <2>. QED
      BY <2>3, <2>4, <1>0, <1>1, FragmentQueues
<1>2. CASE KeepHeader
  <2>1. queued' = queued
      BY <1>0, <1>2, KeepHeaderQueues
  <2>2. UNCHANGED <<at, last_head, repeated>>
      BY <1>2 DEF KeepHeader, Packed, wsVars, histVars
  <2>. QED
      BY <2>1, <2>2 DEF OrderInv, NoFrameTwice
<1>3. CASE PackFrame
  <2>1. PICK h \in Header :
          /\ h \in Headers /\ h.head = queued[1] /\ h.len < Len(queued)
          /\ dl_audio_sb' \in Seq(Units) /\ queued' = dl_audio_sb'
          /\ Len(queued') = Len(queued) - (h.len + 1)
          /\ \A i \in 1..Len(queued') : queued'[i] = queued[i + (h.len + 1)]
          /\ repeated' = (repeated \/ h.head <= last_head)
          /\ last_head' = h.head
      BY <1>0, <1>3, PackFrameQueues
  <2>2. PICK l \in Nat \ {0} : l = h.len + 1
      BY <2>1 DEF Headers, Lengths
  <2>3. at' = at
      BY <1>3 DEF PackFrame, wsVars
  <2>4. queued' \in Seq(Nat \ {0})
      BY <2>1, UnitsArePlaces
  <2>5. l <= Len(queued) /\ Len(queued') = Len(queued) - l
            /\ \A i \in 1..Len(queued') : queued'[i] = queued[i + l]
      BY <2>1, <2>2, <1>0
  <2>6. InOrder(queued', queued[1], at) /\ last_head < queued[1]
      BY <2>4, <2>5, <1>0, InOrderDrop DEF OrderInv
  <2>7. queued[1] \in Nat
      BY <2>2, <2>5, <1>0
  <2>8. last_head' = queued[1] /\ ~(h.head <= last_head)
      BY <2>1, <2>6, <2>7, <1>0
  <2>9. ~repeated'
      BY <2>1, <2>8, Zenon DEF OrderInv, NoFrameTwice
  <2>. QED
      BY <2>3, <2>6, <2>8, <2>9 DEF OrderInv, NoFrameTwice
<1>4. CASE BadHeader \/ StartResets
  <2>1. UNCHANGED <<at, last_head, repeated>>
      BY <1>4 DEF BadHeader, StartResets, Packed, wsVars, histVars
  <2>2. /\ pending_header = <<>> => queued' = <<>>
        /\ queued' = keptHead
      BY <1>0, <1>4, ResetQueues
  <2>3. CASE pending_header = <<>>
      BY <2>1, <2>2, <2>3 DEF OrderInv, InOrder, NoFrameTwice
  <2>4. CASE pending_header # <<>>
    <3>1. /\ keptHead = <<pending_header[1].head>>
          /\ Len(queued) = Len(dl_audio_sb) + 1
          /\ queued[1] = pending_header[1].head
        BY <2>4, <1>0, QueueShape
    <3>2. 1 \in 1..Len(queued)
        BY <3>1, <1>0 DEF RangesOK
    <3>3. queued' = <<queued[1]>>
        BY <3>1, <2>2
    <3>4. Len(queued') = 1 /\ queued'[1] = queued[1]
        BY <3>3
    <3>5. /\ last_head < queued[1] /\ queued[1] <= at
          /\ last_head <= at
        BY <3>2 DEF OrderInv, InOrder
    <3>6. InOrder(queued', last_head, at)
        BY <3>4, <3>5 DEF InOrder
    <3>. QED
        BY <3>6, <2>1 DEF OrderInv, NoFrameTwice
  <2>. QED
      BY <2>3, <2>4
<1>5. CASE Quiet
    BY <1>5, QuietQueues DEF OrderInv, NoFrameTwice
<1>. QED
    BY <1>1, <1>2, <1>3, <1>4, <1>5, Steps

-----------------------------------------------------------------------------
(* The unbroken stream.                                                    *)
LEMMA ShortIsMidFrame ==
    ASSUME NEW q \in Seq(Nat \ {0}), Framed(q), Short(q)
    PROVE  ~isHeader(q[Len(q)] + 1)
<1>1. PICK i \in 1..Len(q) : isHeader(q[i]) /\ Len(q) - i < BodyLen
    BY DEF Short
<1>2. q[i] \in Nat \ {0} /\ Len(q) \in Nat
    OBVIOUS
<1>3. PICK d \in 0..(BodyLen - 1) : i + d = Len(q)
  <2>1. Len(q) - i \in 0..(BodyLen - 1) /\ i + (Len(q) - i) = Len(q)
      BY <1>1, <1>2, FrameLenFact
  <2>. QED
      BY <2>1
<1>4. q[i + d] = q[i] + d
    BY <1>1, <1>3, <1>2, FrameLenFact, SMTT(30) DEF Framed
<1>5. d + 1 \in 1..BodyLen
    BY <1>3, FrameLenFact
<1>6. ~isHeader(q[i] + (d + 1))
    BY <1>1, <1>2, <1>5, HeaderInside
<1>7. q[Len(q)] + 1 = q[i] + (d + 1)
    BY <1>2, <1>3, <1>4, SMTT(30)
<1>. QED
    BY <1>6, <1>7

(* The header the slave task reads is one.                                 *)
LEMMA HeaderRead ==
    ASSUME RangesOK, Unbroken, headerThere, NEW h \in Header
    PROVE  h.len = BodyLen /\ h.head = queued[1] /\ isHeader(queued[1])
<1>1. queued # <<>> /\ h.head = queued[1]
    BY QueueParts
<1>2. isHeader(queued[1])
    BY <1>1 DEF Unbroken, Framed
<1>3. CASE pending_header # <<>>
  <2>1. h = pending_header[1]
      BY <1>3 DEF Header
  <2>. QED
      BY <2>1, <1>1, <1>2, <1>3 DEF Unbroken
<1>4. CASE pending_header = <<>>
  <2>1. queued = dl_audio_sb
      BY <1>4, QueueShape
  <2>2. lengths(dl_audio_sb[1]) = {BodyLen}
      BY <2>1, <1>2 DEF lengths
  <2>3. h.len = BodyLen
      BY <2>2, <1>4 DEF Header
  <2>. QED
      BY <2>3, <1>1, <1>2
<1>. QED
    BY <1>3, <1>4

(* A broken stream stays broken.                                           *)
LEMMA CutsStay ==
    ASSUME [Next]_vars, cuts' = {}
    PROVE  cuts = {}
<1>1. ASSUME NEW n \in Pieces, Fragment(n)
      PROVE  cuts = {}
    BY <1>1 DEF Fragment, Accepted, Overflows, Dropped
<1>2. CASE KeepHeader \/ BadHeader \/ PackFrame
    BY <1>2 DEF KeepHeader, BadHeader, PackFrame, Packed
<1>3. CASE StartResets
    BY <1>3 DEF StartResets
<1>4. CASE Quiet
    BY <1>4, QuietQueues
<1>. QED
    BY <1>1, <1>2, <1>3, <1>4, Steps

(* A fragment let in carries the last frame on or begins a message.        *)
LEMMA AcceptedUnbroken ==
    ASSUME TypeOK, Unbroken, NEW n \in Pieces, Fragment(n), Accepted(n),
           cuts' = {}
    PROVE  Unbroken'
<1>0. RangesOK /\ at \in Nat /\ queued \in Seq(Nat \ {0})
        /\ Len(queued) \in Nat
    BY QueueShape DEF TypeOK, RangesOK
<1>1. n \in Nat \ {0} /\ at' = at + n /\ queued' = queued \o units(at, n)
    BY <1>0, FragmentQueues
<1>2. gateOpen /\ ~stillDropping /\ ~dl_msg_dropping' /\ session'
    BY Zenon DEF Accepted, Fragment
<1>3. ~aboutToReset
    BY <1>2, Zenon DEF aboutToReset
<1>4. ~(reset_mid /\ offset # 0)
    BY DEF Accepted
<1>5. ASSUME ~isHeader(at + 1)
      PROVE  Short(queued) /\ queued[Len(queued)] = at
  <2>1. offset # 0
      BY <1>0, <1>5, MessageHeader DEF offset
  <2>. QED
      BY <2>1, <1>2, <1>4, <1>5, Zenon DEF Unbroken, MidFrame, stillDropping
<1>6. Short(queued) => queued[Len(queued)] = at
    BY <1>3, Zenon DEF Unbroken, ShortGoesOn
<1>7. Framed(queued')
  <2>1. Framed(queued)
      BY DEF Unbroken
  <2>. QED
      BY <2>1, <1>0, <1>1, <1>5, <1>6, FramedAppend
<1>8. queued'[Len(queued')] = at'
  <2>1. /\ Len(queued') = Len(queued) + n
        /\ \A i \in 1..Len(queued') : i > Len(queued) =>
              queued'[i] = at + (i - Len(queued))
      BY <1>0, <1>1, Appended, ZenonT(30)
  <2>2. /\ Len(queued') \in 1..Len(queued') /\ Len(queued') > Len(queued)
        /\ Len(queued') - Len(queued) = n
      BY <2>1, <1>0, <1>1
  <2>3. queued'[Len(queued')] = at + n
      BY <2>1, <2>2
  <2>. QED
      BY <2>3, <1>1
<1>9. ~isHeader(at' + 1) => Short(queued')
  <2>1. Framed(queued)
      BY DEF Unbroken
  <2>2. ~isHeader(at + n + 1) => Short(queued \o units(at, n))
      BY <2>1, <1>0, <1>1, <1>5, ShortAppend
  <2>. QED
      BY <2>2, <1>1
<1>10. ShortGoesOn'
    BY <1>2, <1>8, Zenon DEF ShortGoesOn
<1>11. MidFrame'
    BY <1>8, <1>9, Zenon DEF MidFrame
<1>12. pending_header' = pending_header /\ garbled' = garbled
    BY DEF Fragment, slaveVars, histVars
<1>. QED
    BY <1>7, <1>10, <1>11, <1>12 DEF Unbroken

(* One that is not let in leaves no short frame that waits for it.         *)
LEMMA RefusedUnbroken ==
    ASSUME TypeOK, Unbroken, NEW n \in Pieces, Fragment(n), ~Accepted(n),
           cuts' = {}
    PROVE  Unbroken'
<1>0. RangesOK /\ at \in Nat /\ queued \in Seq(Nat \ {0})
    BY QueueShape DEF TypeOK, RangesOK
<1>1. queued' = queued
    BY <1>0, FragmentQueues
<1>2. pending_header' = pending_header /\ garbled' = garbled
    BY DEF Fragment, slaveVars, histVars
<1>3. start_pc' = start_pc /\ state' = state /\ session' = gateOpen
    BY DEF Fragment
<1>4. dl_msg_dropping'
    BY Zenon DEF Fragment, Overflows, Dropped
<1>5. MidFrame'
    BY <1>4, Zenon DEF MidFrame
<1>6. ShortGoesOn'
  <2>. SUFFICES ASSUME Short(queued)
                PROVE  ShortGoesOn'
      BY <1>1, Zenon DEF ShortGoesOn
  <2>1. CASE Overflows(n)
    <3>1. offset = 0
        BY <2>1 DEF Overflows
    <3>2. isHeader(at + 1)
        BY <3>1, <1>0, MessageHeader DEF offset
    <3>3. ~aboutToReset
        BY <2>1, Zenon DEF Overflows, aboutToReset
    <3>4. queued[Len(queued)] = at
        BY <3>3, Zenon DEF Unbroken, ShortGoesOn
    <3>5. ~isHeader(queued[Len(queued)] + 1)
        BY <1>0, ShortIsMidFrame DEF Unbroken
    <3>. QED
        BY <3>2, <3>4, <3>5
  <2>2. CASE gateOpen /\ stillDropping
      BY <2>2, Zenon DEF stillDropping, Unbroken, ShortGoesOn, aboutToReset
  <2>3. CASE ~gateOpen
    <3>1. start_pc \in {"idle", "reset", "low", "set"}
            /\ state \in {"REPLY", "LISTENING"}
        BY <1>0 DEF RangesOK
    <3>2. ~(start_pc \in {"low", "set"} \/ (start_pc = "idle" /\ state = "LISTENING"))
        BY <2>3, Zenon DEF Unbroken, ShortGoesOn, gateOpen
    <3>3. state # "REPLY" /\ ~session
        BY <2>3, Zenon DEF gateOpen
    <3>4. start_pc = "reset"
        BY <3>1, <3>2, <3>3
    <3>5. ~gateOpen'
        BY <1>3, <2>3, <3>3, Zenon DEF gateOpen
    <3>6. aboutToReset'
        BY <1>3, <3>4, <3>5, Zenon DEF aboutToReset
    <3>7. ~(start_pc' \in {"low", "set"}
              \/ (start_pc' = "idle" /\ state' = "LISTENING"))
        BY <1>3, <3>4
    <3>. QED
        BY <3>6, <3>7, Zenon DEF ShortGoesOn
  <2>. QED
      BY <2>1, <2>2, <2>3, Zenon DEF Fragment, Dropped
<1>. QED
    BY <1>1, <1>2, <1>5, <1>6 DEF Unbroken

(* What is packed is the queue's first frame.                              *)
LEMMA PackedUnbroken ==
    ASSUME TypeOK, Unbroken, PackFrame
    PROVE  Unbroken'
<1>0. RangesOK /\ queued \in Seq(Nat \ {0}) /\ Len(queued) \in Nat
    BY QueueShape DEF TypeOK
<1>1. headerThere
    BY DEF PackFrame, mayPackMore
<1>2. PICK h \in Header :
        /\ h.len < Len(queued)
        /\ dl_audio_sb' \in Seq(Units) /\ queued' = dl_audio_sb'
        /\ pending_header' = <<>>
        /\ Len(queued') = Len(queued) - (h.len + 1)
        /\ \A i \in 1..Len(queued') : queued'[i] = queued[i + (h.len + 1)]
        /\ garbled' = (garbled \/ ~isFrame(h.head, SubSeq(Rest, 1, h.len)))
    BY <1>0, PackFrameQueues
<1>3. h.len = BodyLen /\ h.head = queued[1] /\ isHeader(queued[1])
    BY <1>0, <1>1, HeaderRead
<1>4. /\ FrameLen <= Len(queued) /\ Len(queued') = Len(queued) - FrameLen
      /\ \A i \in 1..Len(queued') : queued'[i] = queued[i + FrameLen]
      /\ queued' \in Seq(Nat \ {0})
    BY <1>0, <1>2, <1>3, FrameLenFact, UnitsArePlaces DEF FrameLen
<1>5. /\ Framed(queued')
      /\ Short(queued') <=> Short(queued)
      /\ Short(queued') => queued'[Len(queued')] = queued[Len(queued)]
  <2>1. Framed(queued)
      BY DEF Unbroken
  <2>. QED
      BY <2>1, <1>0, <1>4, FramedDrop
<1>6. UNCHANGED <<at, dl_msg_dropping, session, state, start_pc, reset_mid>>
    BY DEF PackFrame, wsVars
<1>7. ShortGoesOn'
    BY <1>5, <1>6 DEF Unbroken, ShortGoesOn, aboutToReset, gateOpen
<1>8. MidFrame'
    BY <1>5, <1>6 DEF Unbroken, MidFrame
<1>9. isFrame(h.head, SubSeq(Rest, 1, h.len))
  <2>1. /\ Rest \in Seq(Units) /\ Len(queued) = Len(Rest) + 1
        /\ \A i \in 1..Len(Rest) : queued[i + 1] = Rest[i]
      BY <1>0, <1>1, QueueParts
  <2>2. Len(Rest) \in Nat /\ BodyLen <= Len(Rest)
      BY <2>1, <1>2, <1>3, FrameLenFact
  <2>3. 1 \in 1..Len(queued)
      BY <2>1, <2>2
  <2>4. \A j \in 0..BodyLen : 1 + j <= Len(queued) => queued[1 + j] = queued[1] + j
      BY <2>3, <1>3 DEF Unbroken, Framed
  <2>5. \A j \in 1..BodyLen : Rest[j] = queued[1] + j
      BY <2>1, <2>2, <2>4, FrameLenFact
  <2>. DEFINE body == SubSeq(Rest, 1, BodyLen)
  <2>6. \A j \in 1..BodyLen : Rest[j] \in Nat \ {0}
    <3>1. Rest \in Seq(Nat \ {0}) /\ \A j \in 1..BodyLen : j \in 1..Len(Rest)
        BY <2>1, <2>2, UnitsArePlaces, FrameLenFact
    <3>. QED
        BY <3>1
  <2>7. /\ body \in Seq(Nat \ {0}) /\ Len(body) = BodyLen
        /\ \A j \in 1..BodyLen : body[j] = Rest[j]
    <3>1. /\ body \in Seq(Nat \ {0})
          /\ Len(body) = IF 1 <= BodyLen THEN BodyLen - 1 + 1 ELSE 0
          /\ \A j \in 1..(BodyLen - 1 + 1) : body[j] = Rest[1 + j - 1]
        BY <2>6, FrameLenFact, SubSeqProperties
    <3>. HIDE DEF body
    <3>. QED
        BY <3>1, FrameLenFact
  <2>8. body = [j \in 1..BodyLen |-> queued[1] + j]
    <3>. HIDE DEF body
    <3>1. body \in [1..BodyLen -> Nat \ {0}]
        BY <2>7, LenProperties
    <3>. QED
        BY <3>1, <2>5, <2>7
  <2>. QED
      BY <2>8, <1>3 DEF isFrame, units
<1>10. ~garbled'
    BY <1>2, <1>9, Zenon DEF Unbroken
<1>. QED
    BY <1>2, <1>5, <1>7, <1>8, <1>10, Zenon DEF Unbroken

(* Who changes the gate, and where.                                        *)
LEMMA QuietGate ==
    ASSUME Quiet
    PROVE  \/ UNCHANGED <<session, state, start_pc>>
           \/ start_pc = "idle" /\ start_pc' = "reset"
           \/ start_pc = "low" /\ start_pc' = "set" /\ session' = session
           \/ start_pc = "set" /\ start_pc' = "idle" /\ session' = session
           \/ /\ start_pc = "idle" /\ start_pc' = "idle"
              /\ state' = "REPLY" /\ session' = session
<1>1. CASE Prepare \/ PackedAll \/ Sample \/ Arm
    BY <1>1 DEF Prepare, PackedAll, Packed, Sample, Arm, wsVars
<1>2. CASE Transfer \/ TransferDone \/ Lower \/ UNCHANGED vars
    BY <1>2 DEF Transfer, TransferDone, Lower, wsVars, vars
<1>3. CASE StartEndsSession
    BY <1>3 DEF StartEndsSession
<1>4. CASE StartLowers
    BY <1>4 DEF StartLowers, wsVars
<1>5. CASE StartListens
    BY <1>5 DEF StartListens, wsVars
<1>6. CASE ListenEnds
    BY <1>6 DEF ListenEnds, wsVars
<1>. QED
    BY <1>1, <1>2, <1>3, <1>4, <1>5, <1>6 DEF Quiet

(* A step that leaves the queue leaves it unbroken.                        *)
LEMMA QuietUnbroken ==
    ASSUME Unbroken, Quiet
    PROVE  Unbroken'
<1>1. /\ UNCHANGED <<at, dl_msg_dropping, pending_header, garbled, reset_mid>>
      /\ queued' = queued
    BY QuietQueues
<1>2. ShortGoesOn'
  <2>. SUFFICES ASSUME Short(queued)
                PROVE  ShortGoesOn'
      BY <1>1, Zenon DEF ShortGoesOn
  <2>1. CASE UNCHANGED <<session, state, start_pc>>
    <3>1. session' = session /\ state' = state /\ start_pc' = start_pc
        BY <2>1
    <3>. QED
        BY <3>1, <1>1 DEF Unbroken, ShortGoesOn, aboutToReset, gateOpen
  <2>2. CASE start_pc # "reset" /\ ~UNCHANGED <<session, state, start_pc>>
    <3>1. queued[Len(queued)] = at /\ ~dl_msg_dropping
        BY <2>2, Zenon DEF Unbroken, ShortGoesOn, aboutToReset
    <3>2. ASSUME \/ start_pc' \in {"low", "set"}
                 \/ start_pc' = "idle" /\ state' = "LISTENING"
          PROVE  /\ session' = session
                 /\ start_pc \in {"low", "set"}
        BY <3>2, <2>2, QuietGate
    <3>3. \/ start_pc' \in {"low", "set"}
          \/ start_pc' = "idle" /\ state' = "LISTENING"
          => session'
        BY <3>2, Zenon DEF Unbroken, ShortGoesOn
    <3>. QED
        BY <3>1, <3>3, <1>1, Zenon DEF ShortGoesOn
  <2>3. start_pc = "reset" => UNCHANGED <<session, state, start_pc>>
      BY QuietGate
  <2>. QED
      BY <2>1, <2>2, <2>3
<1>3. MidFrame'
    BY <1>1 DEF Unbroken, MidFrame
<1>. QED
    BY <1>1, <1>2, <1>3 DEF Unbroken

(* A step that does not break the stream keeps the queue in whole frames.  *)
LEMMA UnbrokenStep ==
    ASSUME TypeOK, Unbroken, [Next]_vars, cuts' = {}
    PROVE  Unbroken'
<1>0. RangesOK /\ at \in Nat
    BY DEF TypeOK, RangesOK
<1>1. ASSUME NEW n \in Pieces, Fragment(n)
      PROVE  Unbroken'
    BY <1>1, AcceptedUnbroken, RefusedUnbroken
<1>2. CASE KeepHeader
  <2>1. headerThere
      BY <1>2 DEF KeepHeader, mayPackMore
  <2>2. queued' = queued /\ \E h \in Header : pending_header' = <<h>>
      BY <1>0, <1>2, KeepHeaderQueues
  <2>3. pending_header'[1].len = BodyLen
      BY <2>1, <2>2, <1>0, HeaderRead
  <2>4. UNCHANGED <<at, dl_msg_dropping, session, state, start_pc, reset_mid,
                    garbled>>
      BY <1>2 DEF KeepHeader, Packed, wsVars, histVars
  <2>5. ShortGoesOn' /\ MidFrame'
      BY <2>2, <2>4
      DEF Unbroken, ShortGoesOn, MidFrame, aboutToReset, gateOpen
  <2>. QED
      BY <2>2, <2>3, <2>4, <2>5 DEF Unbroken
<1>3. CASE BadHeader
  <2>1. pending_header = <<>> /\ ~isHeader(dl_audio_sb[1]) /\ headerThere
      BY <1>3 DEF BadHeader, mayPackMore
  <2>2. queued = dl_audio_sb /\ queued # <<>>
      BY <2>1, <1>0, QueueShape, QueueParts
  <2>. QED
      BY <2>1, <2>2 DEF Unbroken, Framed
<1>4. CASE PackFrame
    BY <1>4, PackedUnbroken
<1>5. CASE StartResets
  <2>1. pending_header = <<>>
      BY <1>5 DEF StartResets
  <2>2. queued' = <<>> /\ pending_header' = <<>>
      BY <2>1, <1>0, <1>5, ResetQueues
  <2>3. Framed(queued') /\ ~Short(queued')
      BY <2>2 DEF Framed, Short
  <2>4. reset_mid' = (offset # 0) /\ at' = at /\ garbled' = garbled
      BY <1>5 DEF StartResets, wsVars, histVars
  <2>5. ShortGoesOn'
      BY <2>3, Zenon DEF ShortGoesOn
  <2>6. ~isHeader(at' + 1) => reset_mid'
    <3>. SUFFICES ASSUME ~isHeader(at + 1)
                  PROVE  reset_mid'
        BY <2>4, Zenon
    <3>1. offset # 0
        BY <1>0, MessageHeader DEF offset
    <3>. QED
        BY <3>1, <2>4, Zenon
  <2>7. MidFrame'
      BY <2>6, Zenon DEF MidFrame
  <2>. QED
      BY <2>2, <2>3, <2>4, <2>5, <2>7 DEF Unbroken
<1>6. CASE Quiet
    BY <1>6, QuietUnbroken
<1>. QED
    BY <1>1, <1>2, <1>3, <1>4, <1>5, <1>6, Steps

-----------------------------------------------------------------------------
(* At boot there is nothing in the queue.                                  *)
LEMMA InitInv == Init => IInv
<1>. SUFFICES ASSUME Init
              PROVE  IInv
    OBVIOUS
<1>1. TypeOK
  <2>1. FlagsOK
      BY Zenon DEF Init, FlagsOK
  <2>2. RangesOK
      BY LengthsAssumption DEF Init, RangesOK
  <2>. QED
      BY <2>1, <2>2 DEF TypeOK
<1>2. queued = <<>>
    BY DEF Init, queued, keptHead
<1>3. at = 0 /\ last_head = 0 /\ Len(queued) = 0 /\ ~repeated /\ ~garbled
        /\ pending_header = <<>> /\ ~session
    BY <1>2 DEF Init
<1>4. OrderInv
    BY <1>3 DEF OrderInv, InOrder, NoFrameTwice
<1>5. Framed(queued) /\ ~Short(queued)
    BY <1>2, <1>3 DEF Framed, Short
<1>6. isHeader(at + 1)
  <2>1. 0 \in 0..(MessageLen - 1) /\ MessageLen * 0 + 0 = 0
          /\ MessageLen \in Nat \ {0}
      BY LengthsAssumption
  <2>2. 0 % MessageLen = 0
      BY <2>1, Division
  <2>. QED
      BY <2>2, <1>3, MessageHeader
<1>7. Unbroken
    BY <1>3, <1>5, <1>6 DEF Unbroken, ShortGoesOn, MidFrame
<1>. QED
    BY <1>1, <1>4, <1>7 DEF IInv, IntactInv

(* The two parts of the invariant, each from the whole.                    *)
LEMMA InvStep == IInv /\ [Next]_vars => IInv'
<1>. SUFFICES ASSUME IInv, [Next]_vars
              PROVE  IInv'
    OBVIOUS
<1>1. TypeOK'
    BY FlagsStep, RangesStep DEF IInv, IntactInv, TypeOK
<1>2. OrderInv'
    BY OrderStep DEF IInv, IntactInv
<1>3. cuts' = {} => Unbroken'
    BY CutsStay, UnbrokenStep DEF IInv, IntactInv
<1>. QED
    BY <1>1, <1>2, <1>3 DEF IInv, IntactInv

(* The invariant holds, for any lengths and any order of the tasks.        *)
THEOREM Invariant == Spec => []IInv
<1>. QED
    BY InitInv, InvStep, PTL DEF Spec

(* However messages are cut, dropped and reset, prepareTxFrame never packs *)
(* a header twice nor one older than the last: the queue it reads stays in *)
(* the stream's order.                                                     *)
THEOREM FramesNeverRepeat == Spec => []NoFrameTwice
<1>1. IInv => NoFrameTwice
    BY DEF IInv, OrderInv
<1>. QED
    BY <1>1, Invariant, PTL

(* For frames, messages, payloads and a buffer of any length: nothing is   *)
(* written past an end, and unless a fragment was dropped behind others of *)
(* its message, a header was kept over a reset or the rest of a message    *)
(* came in behind one, all that prepareTxFrame packs is frames the server  *)
(* sent and no header it keeps is too long for a payload.                  *)
THEOREM StreamStaysIntact == Spec => []StreamIntact
<1>1. ASSUME IInv
      PROVE  StreamIntact
  <2>1. TypeOK /\ (cuts = {} => Unbroken)
      BY <1>1 DEF IInv, IntactInv
  <2>2. GarbledHasCause
      BY <2>1 DEF GarbledHasCause, Unbroken
  <2>3. KeptHeaderFits
      BY <2>1, LengthsAssumption DEF KeptHeaderFits, Unbroken
  <2>. QED
      BY <2>1, <2>2, <2>3 DEF StreamIntact
<1>. QED
    BY <1>1, Invariant, PTL

-----------------------------------------------------------------------------
(* The other way through the C5: Uplink.                                   *)

(* Lengths and bodies take turns; the last frame is all there.             *)
Alternates(q) == \A i \in 2..Len(q) : q[i] # q[i-1]
Whole(q)      == q # <<>> => q[Len(q)] = 2

UpCounts ==
    turn \in 0..MaxTurns /\ {frames, logs, faults} \subseteq Nat

(* Who has the lock for audio has a batch, and audio that END left with    *)
(* ws_tx, no other text being in the client, is a batch that has it.       *)
UpLock ==
    /\ lock = "bin" => batch # <<>>
    /\ inHand /\ ~mixed => lock = "bin"

(* What is taken and what is still in tx_buffer_ go on where the message   *)
(* before ended.                                                           *)
UpJoin ==
    /\ Alternates(tx) /\ Whole(tx) /\ Alternates(batch)
    /\ batch # <<>> => batch[1] = 1 \/ split
    /\ tx # <<>> /\ tx[1] = 2 =>
         IF batch = <<>> THEN split ELSE batch[Len(batch)] = 1

UpInv == UplinkTypeOK /\ UpCounts /\ UpLock /\ UpJoin

(* A frame more: SpiTransfer appends it to what sendBinary has.            *)
LEMMA FrameMore ==
    ASSUME NEW q \in Seq(1..2), Alternates(q), Whole(q)
    PROVE  LET t == q \o <<1, 2>> IN
           /\ t \in Seq(1..2) /\ Len(t) = Len(q) + 2
           /\ Alternates(t) /\ Whole(t)
           /\ t[1] = 2 => q # <<>> /\ q[1] = 2
<1> DEFINE t == q \o <<1, 2>>
<1>1. <<1, 2>> \in Seq(1..2) /\ Len(<<1, 2>>) = 2
  OBVIOUS
<1>2. /\ t \in Seq(1..2) /\ Len(t) = Len(q) + 2
      /\ \A i \in 1..Len(t) : t[i] = IF i <= Len(q) THEN q[i]
                                                    ELSE <<1, 2>>[i - Len(q)]
  BY <1>1, ConcatProperties
<1>3. Len(q) \in Nat /\ t[Len(q) + 1] = 1 /\ t[Len(q) + 2] = 2
  BY <1>1, <1>2
<1>4. Alternates(t)
  <2> SUFFICES ASSUME NEW i \in 2..Len(t)
               PROVE  t[i] # t[i-1]
    BY DEF Alternates
  <2>1. CASE i <= Len(q)
    BY <1>2, <2>1 DEF Alternates
  <2>2. CASE i = Len(q) + 1
    <3>1. q # <<>> /\ t[i-1] = q[Len(q)]
      BY <1>2, <2>2
    <3> QED
      BY <1>3, <2>2, <3>1 DEF Whole
  <2>3. CASE i = Len(q) + 2
    BY <1>3, <2>3
  <2> QED
    BY <1>2, <1>3, <2>1, <2>2, <2>3
<1>5. t[1] = 2 => q # <<>> /\ q[1] = 2
  <2>1. CASE q = <<>>
    BY <1>3, <2>1
  <2>2. CASE q # <<>>
    <3>1. 1 <= Len(q)
      BY <2>2, EmptySeq
    <3> QED
      BY <1>2, <2>2, <3>1
  <2> QED
    BY <2>1, <2>2
<1> QED
  BY <1>2, <1>3, <1>4, <1>5 DEF Whole

(* A batch off the front of tx_buffer_: both parts take turns, and the     *)
(* second goes on where the first ends.                                    *)
LEMMA BatchOff ==
    ASSUME NEW q \in Seq(1..2), Alternates(q), Whole(q), NEW k \in 1..Len(q)
    PROVE  LET b == SubSeq(q, 1, k)
               r == SubSeq(q, k + 1, Len(q)) IN
           /\ b \in Seq(1..2) /\ Len(b) = k /\ Alternates(b) /\ b[1] = q[1]
           /\ r \in Seq(1..2) /\ Len(r) = Len(q) - k
           /\ Alternates(r) /\ Whole(r)
           /\ r # <<>> => r[1] # b[Len(b)]
<1> DEFINE b == SubSeq(q, 1, k)
           r == SubSeq(q, k + 1, Len(q))
<1>1. Len(q) \in Nat /\ \A i \in 1..Len(q) : q[i] \in 1..2
  OBVIOUS
<1>2. /\ b \in Seq(1..2) /\ Len(b) = k
      /\ \A i \in 1..k : b[i] = q[i]
  BY <1>1, SubSeqProperties
<1>3. /\ r \in Seq(1..2) /\ Len(r) = Len(q) - k
      /\ \A i \in 1..(Len(q) - k) : r[i] = q[k + i]
  BY <1>1, SubSeqProperties
<1>4. Alternates(b)
  BY <1>1, <1>2 DEF Alternates
<1>5. Alternates(r)
  <2> SUFFICES ASSUME NEW i \in 2..Len(r)
               PROVE  r[i] # r[i-1]
    BY DEF Alternates
  <2>1. /\ i \in 1..(Len(q) - k) /\ i - 1 \in 1..(Len(q) - k)
        /\ k + i \in 2..Len(q) /\ k + (i - 1) = k + i - 1
    BY <1>1, <1>3
  <2>2. r[i] = q[k + i] /\ r[i-1] = q[k + i - 1]
    BY <1>3, <2>1
  <2> QED
    BY <2>1, <2>2 DEF Alternates
<1>6. r # <<>> => 0 < Len(q) - k
  BY <1>1, <1>3, EmptySeq
<1>7. Whole(r)
  <2> SUFFICES ASSUME r # <<>>
               PROVE  r[Len(r)] = 2
    BY DEF Whole
  <2>1. Len(r) \in 1..(Len(q) - k) /\ k + Len(r) = Len(q) /\ q # <<>>
    BY <1>1, <1>3, <1>6, EmptySeq
  <2>2. r[Len(r)] = q[k + Len(r)]
    BY <1>3, <2>1
  <2> QED
    BY <2>1, <2>2 DEF Whole
<1>8. r # <<>> => r[1] # b[Len(b)]
  <2> SUFFICES ASSUME r # <<>>
               PROVE  r[1] # b[Len(b)]
    OBVIOUS
  <2>1. r[1] = q[k + 1] /\ k + 1 \in 2..Len(q) /\ b[Len(b)] = q[k]
    BY <1>1, <1>2, <1>3, <1>6
  <2> QED
    BY <1>1, <2>1 DEF Alternates
<1> QED
  BY <1>2, <1>3, <1>4, <1>5, <1>7, <1>8

(* The type, piece by piece.                                               *)
UpFlags ==
    /\ s3 \in Turns /\ c5 \in Turns /\ lock \in {"none", "bin", "text"}
    /\ listening \in BOOLEAN /\ asked \in BOOLEAN /\ online \in BOOLEAN
    /\ draining \in BOOLEAN /\ split \in BOOLEAN /\ inHand \in BOOLEAN
    /\ mixed \in BOOLEAN
UpRanges ==
    /\ srv \in 0..MaxTurns /\ lost \subseteq 0..MaxTurns /\ spi \in 0..SpiRoom
    /\ turn \in 0..MaxTurns /\ frames \in Nat /\ logs \in Nat /\ faults \in Nat
UpAudio ==
    /\ tx \in Seq(1..2) /\ Len(tx) <= TxRoom
    /\ batch \in Seq(1..2) /\ Len(batch) <= BatchRoom
UpTexts ==
    /\ texts \in Seq(Text) /\ Len(texts) <= TextRoom
    /\ text \in Text \union {None}

(* The pieces are the type.                                                *)
LEMMA UpTyped ==
    UplinkTypeOK /\ UpCounts <=> UpFlags /\ UpRanges /\ UpAudio /\ UpTexts
<1>1. UplinkTypeOK /\ UpCounts => UpFlags
  BY DEF UplinkTypeOK, UpFlags
<1>2. UplinkTypeOK /\ UpCounts => UpRanges /\ UpAudio /\ UpTexts
  BY DEF UplinkTypeOK, UpCounts, UpRanges, UpAudio, UpTexts
<1>3. UpFlags /\ UpRanges /\ UpAudio /\ UpTexts => UplinkTypeOK /\ UpCounts
  BY DEF UplinkTypeOK, UpCounts, UpFlags, UpRanges, UpAudio, UpTexts
<1> QED
  BY <1>1, <1>2, <1>3

(* The bounds, one by one.                                                 *)
LEMMA UpRooms ==
    /\ SpiRoom \in Nat \ {0} /\ TxRoom \in Nat \ {0}
    /\ BatchRoom \in Nat \ {0} /\ TextRoom \in Nat \ {0}
    /\ MaxTurns \in Nat /\ MaxFrames \in Nat
    /\ MaxLogs \in Nat /\ MaxFaults \in Nat
BY UplinkBounds

(* enqueueText does not overrun the queue.                                 *)
LEMMA QueuedText ==
    ASSUME UpTexts, NEW t \in Text
    PROVE  textQueued(t) \in Seq(Text) /\ Len(textQueued(t)) <= TextRoom
<1>1. TextRoom \in Nat /\ Len(texts) \in Nat
  BY UplinkBounds DEF UpTexts
<1>2. CASE textFits
  <2>1. /\ Append(texts, t) \in Seq(Text)
        /\ Len(Append(texts, t)) = Len(texts) + 1
    BY AppendProperties DEF UpTexts
  <2> QED
    BY <1>1, <1>2, <2>1 DEF textQueued, textFits
<1>3. CASE ~textFits
  BY <1>3 DEF textQueued, UpTexts
<1> QED
  BY <1>2, <1>3

(* It holds before the first turn.                                         *)
LEMMA UpInit == UplinkInit => UpInv
<1> SUFFICES ASSUME UplinkInit
             PROVE  UpInv
  OBVIOUS
<1> USE DEF UplinkInit
<1>1. UpFlags
  BY DEF UpFlags, Turns
<1>2. UpRanges
  BY UplinkBounds DEF UpRanges
<1>3. UpAudio /\ UpTexts
  BY EmptySeq, UplinkBounds DEF UpAudio, UpTexts
<1>4. UpLock
  BY DEF UpLock
<1>5. UpJoin
  BY EmptySeq DEF UpJoin, Alternates, Whole
<1> QED
  BY <1>1, <1>2, <1>3, <1>4, <1>5, UpTyped DEF UpInv

(* The steps, one by one.                                                  *)
LEMMA UpSteps ==
    ASSUME [UplinkNext]_uplinkVars
    PROVE  \/ StartListening \/ HearStatus \/ Encode
           \/ SpiTransfer \/ triggerListenStart \/ triggerListenEnd
           \/ DrainEnds \/ CapEnds \/ TurnCut \/ TurnEnds
           \/ TakeBatch \/ BatchLocks \/ BatchSent \/ BatchFails
           \/ TakeText \/ TextLocks \/ TextSent
           \/ SendLog \/ Disconnected \/ Reconnected
           \/ UNCHANGED uplinkVars
BY DEF UplinkNext, TxTask, TxtTask

(* Turns, lock and flags.                                                  *)
LEMMA UpFlagsStep ==
    ASSUME UpFlags, [UplinkNext]_uplinkVars
    PROVE  UpFlags'
<1> USE DEF UpFlags, Turns, uplinkVars,
            s3Vars, turnVars, sendVars, bounds, hist
<1>1. CASE StartListening \/ HearStatus \/ Encode \/ SpiTransfer
  <2>1. CASE StartListening
    BY <2>1 DEF StartListening
  <2>2. CASE HearStatus
    BY <2>2 DEF HearStatus
  <2>3. CASE Encode
    BY <2>3 DEF Encode
  <2>4. CASE SpiTransfer
    BY <2>4 DEF SpiTransfer
  <2> QED
    BY <1>1, <2>1, <2>2, <2>3, <2>4
<1>2. CASE triggerListenStart \/ triggerListenEnd \/ TurnCut \/ TurnEnds
  <2>1. CASE triggerListenStart
    BY <2>1 DEF triggerListenStart
  <2>2. CASE triggerListenEnd
    BY <2>2 DEF triggerListenEnd
  <2>3. CASE TurnCut \/ TurnEnds
    BY <2>3 DEF TurnCut, TurnEnds
  <2> QED
    BY <1>2, <2>1, <2>2, <2>3
<1>3. CASE DrainEnds \/ CapEnds
  BY <1>3 DEF DrainEnds, CapEnds, endsNow
<1>4. CASE TakeBatch \/ BatchLocks
  BY <1>4 DEF TakeBatch, BatchLocks
<1>5. CASE BatchSent
  BY <1>5 DEF BatchSent
<1>6. CASE BatchFails
  BY <1>6 DEF BatchFails
<1>7. CASE TakeText \/ TextLocks \/ TextSent
  BY <1>7 DEF TakeText, TextLocks, TextSent
<1>8. CASE SendLog \/ Disconnected \/ Reconnected
  <2>1. CASE SendLog
    BY <2>1 DEF SendLog
  <2>2. CASE Disconnected
    BY <2>2 DEF Disconnected
  <2>3. CASE Reconnected
    BY <2>3 DEF Reconnected
  <2> QED
    BY <1>8, <2>1, <2>2, <2>3
<1>9. CASE UNCHANGED uplinkVars
  BY <1>9
<1> QED
  BY <1>1, <1>2, <1>3, <1>4, <1>5, <1>6, <1>7, <1>8, <1>9, UpSteps

(* The SPI queue, the server's turn and the counters.                      *)
LEMMA UpRangesStep ==
    ASSUME UpRanges, UpTexts, [UplinkNext]_uplinkVars
    PROVE  UpRanges'
<1> USE UplinkBounds DEF UpRanges, uplinkVars,
            s3Vars, turnVars, sendVars, bounds, hist
<1>1. CASE StartListening \/ HearStatus
  BY <1>1 DEF StartListening, HearStatus
<1>2. CASE Encode
  <2>1. spi' \in 0..SpiRoom /\ frames' \in Nat
    BY <1>2, UpRooms DEF Encode
  <2>2. UNCHANGED <<srv, lost, turn, logs, faults>>
    BY <1>2 DEF Encode
  <2> QED
    BY <2>1, <2>2
<1>3. CASE SpiTransfer
  <2>1. spi' \in 0..SpiRoom
    BY <1>3, UpRooms DEF SpiTransfer
  <2>2. UNCHANGED <<srv, lost, turn, frames, logs, faults>>
    BY <1>3 DEF SpiTransfer
  <2> QED
    BY <2>1, <2>2
<1>4. CASE triggerListenStart \/ triggerListenEnd \/ TurnCut \/ TurnEnds
  BY <1>4 DEF triggerListenStart, triggerListenEnd, TurnCut, TurnEnds
<1>5. CASE DrainEnds \/ CapEnds
  BY <1>5 DEF DrainEnds, CapEnds, endsNow
<1>6. CASE TakeBatch \/ BatchLocks \/ BatchSent
  BY <1>6 DEF TakeBatch, BatchLocks, BatchSent
<1>7. CASE BatchFails
  <2>1. faults' \in Nat
    BY <1>7 DEF BatchFails
  <2>2. UNCHANGED <<srv, lost, spi, turn, frames, logs>>
    BY <1>7 DEF BatchFails
  <2> QED
    BY <2>1, <2>2
<1>8. CASE TakeText \/ TextLocks
  BY <1>8 DEF TakeText, TextLocks
<1>9. CASE TextSent
  <2>1. text.turn \in 0..MaxTurns
    BY DEF UpTexts, Text, None
  <2> QED
    BY <1>9, <2>1 DEF TextSent
<1>10. CASE SendLog
  BY <1>10 DEF SendLog
<1>11. CASE Disconnected
  BY <1>11 DEF Disconnected
<1>12. CASE Reconnected
  BY <1>12 DEF Reconnected
<1>13. CASE UNCHANGED uplinkVars
  BY <1>13
<1> QED
  BY <1>1, <1>2, <1>3, <1>4, <1>5, <1>6, <1>7, <1>8, <1>9, <1>10, <1>11,
     <1>12, <1>13, UpSteps

(* text_queue_ and the text that ws_txt has: nobody overruns it.           *)
LEMMA UpTextsStep ==
    ASSUME UpRanges, UpTexts, [UplinkNext]_uplinkVars
    PROVE  UpTexts'
<1> USE DEF UpTexts, uplinkVars,
            s3Vars, turnVars, sendVars, bounds, hist
<1>1. CASE UNCHANGED <<texts, text>>
  BY <1>1
<1>2. CASE triggerListenStart
  <2>1. [text |-> "START", turn |-> turn] \in Text
    BY DEF Text, UpRanges
  <2> QED
    BY <1>2, <2>1, QueuedText DEF triggerListenStart
<1>3. CASE DrainEnds \/ CapEnds
  <2>1. [text |-> "END", turn |-> turn] \in Text
    BY DEF Text, UpRanges
  <2> QED
    BY <1>3, <2>1, QueuedText DEF DrainEnds, CapEnds, endsNow
<1>4. CASE TakeText
  <2>1. /\ texts # <<>>
        /\ Head(texts) \in Text /\ Tail(texts) \in Seq(Text)
        /\ Len(Tail(texts)) = Len(texts) - 1
    BY <1>4, HeadTailProperties DEF TakeText
  <2>2. Len(texts') <= TextRoom
    <3>1. Len(texts) \in Nat /\ Len(texts) <= TextRoom
      OBVIOUS
    <3>2. Len(texts') = Len(texts) - 1
      BY <1>4, <2>1 DEF TakeText
    <3> QED
      BY <3>1, <3>2, UpRooms
  <2>3. text' \in Text \union {None}
    BY <1>4, <2>1 DEF TakeText
  <2> QED
    BY <1>4, <2>1, <2>2, <2>3 DEF TakeText
<1>5. CASE TextSent
  BY <1>5 DEF TextSent
<1>6. CASE SendLog
  <2>1. Log \in Text
    BY UplinkBounds DEF Text, Log
  <2> QED
    BY <1>6, <2>1, QueuedText DEF SendLog
<1>7. CASE Reconnected
  BY <1>7, EmptySeq, UplinkBounds DEF Reconnected
<1>8. \/ UNCHANGED <<texts, text>>
      \/ triggerListenStart \/ DrainEnds \/ CapEnds \/ TakeText
      \/ TextSent \/ SendLog \/ Reconnected
  BY UpSteps DEF StartListening, HearStatus, Encode, SpiTransfer,
     triggerListenEnd, TurnCut, TurnEnds, TakeBatch, BatchLocks, BatchSent,
     BatchFails, TextLocks, Disconnected
<1> QED
  BY <1>1, <1>2, <1>3, <1>4, <1>5, <1>6, <1>7, <1>8

(* What ws_tx has and what it will take: the pieces a step can disturb.    *)
LEMMA UpAudioStep ==
    ASSUME UpAudio, UpLock, UpJoin, [UplinkNext]_uplinkVars
    PROVE  UpAudio' /\ UpJoin'
<1> USE DEF UpAudio, UpJoin
<1>1. CASE UNCHANGED <<tx, batch, split>>
  BY <1>1 DEF Alternates, Whole
<1>2. CASE SpiTransfer
  <2>1. CASE online /\ roomFor(2)
    <3>1. tx' = tx \o <<1, 2>> /\ UNCHANGED <<batch, split>>
      BY <1>2, <2>1 DEF SpiTransfer, sendVars, hist
    <3>2. /\ tx' \in Seq(1..2) /\ Len(tx') = Len(tx) + 2
          /\ Alternates(tx') /\ Whole(tx')
          /\ tx'[1] = 2 => tx # <<>> /\ tx[1] = 2
      BY <3>1, FrameMore
    <3>3. Len(tx') <= TxRoom
      BY <2>1, <3>2 DEF roomFor
    <3> QED
      BY <3>1, <3>2, <3>3 DEF Alternates, Whole
  <2>2. CASE ~(online /\ roomFor(2))
    BY <1>1, <1>2, <2>2 DEF SpiTransfer, sendVars, hist
  <2> QED
    BY <2>1, <2>2
<1>3. CASE tx' = <<>> /\ UNCHANGED <<batch, split>>
  BY <1>3, EmptySeq, UplinkBounds DEF Alternates, Whole
<1>4. CASE TakeBatch
  <2> DEFINE k == IF Len(tx) <= BatchRoom THEN Len(tx) ELSE BatchRoom
  <2>1. /\ tx # <<>> /\ batch = <<>> /\ split' = split
        /\ batch' = SubSeq(tx, 1, k)
        /\ tx' = SubSeq(tx, Len(batch') + 1, Len(tx))
    BY <1>4 DEF TakeBatch, hist
  <2>2. Len(tx) \in Nat /\ k \in 1..Len(tx) /\ k <= BatchRoom
    <3>1. Len(tx) \in Nat \ {0}
      BY <2>1, EmptySeq
    <3> QED
      BY <3>1, UpRooms
  <2> HIDE DEF k
  <2>3. /\ batch' \in Seq(1..2) /\ Len(batch') = k
        /\ Alternates(batch') /\ batch'[1] = tx[1]
    BY <2>1, <2>2, BatchOff
  <2>4. tx' = SubSeq(tx, k + 1, Len(tx))
    BY <2>1, <2>3
  <2>5. /\ tx' \in Seq(1..2) /\ Len(tx') = Len(tx) - k
        /\ Alternates(tx') /\ Whole(tx')
        /\ tx' # <<>> => tx'[1] # batch'[Len(batch')]
    <3> DEFINE r == SubSeq(tx, k + 1, Len(tx))
    <3>1. /\ r \in Seq(1..2) /\ Len(r) = Len(tx) - k
          /\ Alternates(r) /\ Whole(r)
          /\ r # <<>> => r[1] # SubSeq(tx, 1, k)[Len(SubSeq(tx, 1, k))]
      BY <2>2, BatchOff
    <3> QED
      BY <2>1, <2>4, <3>1
  <2>6. Len(tx') <= TxRoom /\ Len(batch') <= BatchRoom
    <3>1. TxRoom \in Nat /\ Len(tx) <= TxRoom
      BY UpRooms DEF UpAudio
    <3> QED
      BY <2>2, <2>3, <2>5, <3>1
  <2>7. tx[1] \in 1..2 /\ batch'[Len(batch')] \in 1..2 /\ batch' # <<>>
    BY <2>2, <2>3, EmptySeq
  <2>8. batch' # <<>> => batch'[1] = 1 \/ split'
    <3>1. tx[1] = 1 \/ split
      BY <2>1, <2>7
    <3> QED
      BY <2>1, <2>3, <3>1
  <2>9. tx' # <<>> /\ tx'[1] = 2 => batch'[Len(batch')] = 1
    BY <2>5, <2>7
  <2> QED
    BY <2>3, <2>5, <2>6, <2>7, <2>8, <2>9
<1>5. CASE BatchSent \/ BatchFails
  <2>1. /\ batch # <<>> /\ batch' = <<>> /\ split' = (batch[Len(batch)] = 1)
        /\ tx' \in {tx, <<>>}
    BY <1>5 DEF BatchSent, BatchFails, UpLock
  <2>2. Alternates(<<>>) /\ Whole(<<>>) /\ Len(<<>>) = 0 /\ <<>> \in Seq(1..2)
    BY EmptySeq DEF Alternates, Whole
  <2>3. CASE tx' = <<>>
    BY <2>1, <2>2, <2>3, UpRooms
  <2>4. CASE tx' = tx
    <3>1. tx # <<>> /\ tx[1] = 2 => split'
      BY <2>1
    <3>2. UpAudio'
      BY <2>1, <2>2, <2>4, UpRooms
    <3> QED
      BY <2>1, <2>2, <2>4, <3>1, <3>2
  <2> QED
    BY <2>1, <2>3, <2>4
<1>6. CASE Reconnected
  <2>1. batch = <<>> /\ batch' = <<>> /\ tx' = <<>>
    BY <1>6 DEF Reconnected
  <2> QED
    BY <2>1, EmptySeq, UplinkBounds DEF Alternates, Whole
<1>7. \/ UNCHANGED <<tx, batch, split>>
      \/ SpiTransfer \/ (tx' = <<>> /\ UNCHANGED <<batch, split>>)
      \/ TakeBatch \/ BatchSent \/ BatchFails \/ Reconnected
  BY UpSteps DEF StartListening, HearStatus, Encode,
     triggerListenStart, triggerListenEnd, DrainEnds, CapEnds,
     TurnCut, TurnEnds, BatchLocks, TakeText, TextLocks, TextSent,
     SendLog, Disconnected, uplinkVars, sendVars, hist
<1> QED
  BY <1>1, <1>2, <1>3, <1>4, <1>5, <1>6, <1>7

(* The lock, the batch and END.                                            *)
LEMMA UpLockStep ==
    ASSUME UpFlags, UpLock, [UplinkNext]_uplinkVars
    PROVE  UpLock'
<1> USE DEF UpLock
<1>1. CASE UNCHANGED <<batch, lock, inHand, mixed>>
  BY <1>1
<1>2. CASE DrainEnds
  <2>1. tx' = <<>> /\ batch' = batch /\ lock' = lock
    BY <1>2 DEF DrainEnds, drained
  <2>2. inHand' /\ ~mixed' => batch # <<>> /\ lock # "text" /\ lock # "none"
    BY <1>2, <2>1 DEF DrainEnds
  <2> QED
    BY <2>1, <2>2 DEF UpFlags
<1>3. CASE CapEnds
  <2>1. mixed' /\ UNCHANGED <<batch, lock>>
    BY <1>3 DEF CapEnds
  <2> QED
    BY <2>1
<1>4. CASE TakeBatch
  <2>1. lock # "bin" /\ UNCHANGED <<lock, inHand, mixed>>
    BY <1>4 DEF TakeBatch, hist
  <2> QED
    BY <2>1
<1>5. CASE BatchLocks
  BY <1>5 DEF BatchLocks, hist
<1>6. CASE BatchSent
  BY <1>6 DEF BatchSent
<1>7. CASE BatchFails
  <2>1. lock' # "bin" /\ ~inHand'
    BY <1>7 DEF BatchFails
  <2> QED
    BY <2>1
<1>8. CASE TextLocks \/ TextSent
  <2>1. lock # "bin" /\ lock' # "bin" /\ UNCHANGED <<inHand, mixed>>
    BY <1>8 DEF TextLocks, TextSent, hist
  <2> QED
    BY <2>1
<1>9. \/ UNCHANGED <<batch, lock, inHand, mixed>>
      \/ DrainEnds \/ CapEnds \/ TakeBatch \/ BatchLocks
      \/ BatchSent \/ BatchFails \/ TextLocks \/ TextSent
  BY UpSteps DEF StartListening, HearStatus, Encode, SpiTransfer,
     triggerListenStart, triggerListenEnd, TurnCut, TurnEnds, TakeText,
     SendLog, Disconnected, Reconnected, uplinkVars, sendVars, hist
<1> QED
  BY <1>1, <1>2, <1>3, <1>4, <1>5, <1>6, <1>7, <1>8, <1>9

(* Every step keeps all of it.                                             *)
LEMMA UpStep ==
    ASSUME UpInv, [UplinkNext]_uplinkVars
    PROVE  UpInv'
<1>1. UpFlags /\ UpRanges /\ UpAudio /\ UpTexts
  BY UpTyped DEF UpInv
<1>2. UpFlags' /\ UpRanges' /\ UpTexts'
  BY <1>1, UpFlagsStep, UpRangesStep, UpTextsStep
<1>3. UpAudio' /\ UpJoin' /\ UpLock'
  BY <1>1, UpAudioStep, UpLockStep DEF UpInv
<1>4. UplinkTypeOK' /\ UpCounts'
  <2>1. (UpFlags /\ UpRanges /\ UpAudio /\ UpTexts)'
    BY <1>2, <1>3
  <2> QED
    BY <2>1, UpTyped, PTL
<1> QED
  BY <1>3, <1>4 DEF UpInv

(* Uplink: whatever the sizes of the queues and buffers and however the    *)
(* two sending tasks, the faults and the turns interleave, all is of its   *)
(* type.                                                                   *)
THEOREM UplinkInvariant == UplinkSpec => []UpInv
<1>1. UplinkInit => UpInv
  BY UpInit
<1>2. UpInv /\ [UplinkNext]_uplinkVars => UpInv'
  BY UpStep
<1> QED
  BY <1>1, <1>2, PTL DEF UplinkSpec

(* What the server gets (OnTheWire): no buffer is overrun on the way, each *)
(* message is whole frames from where the one before ended, and END is     *)
(* behind the audio it ends unless another text held the client.           *)
THEOREM UplinkOnTheWire == UplinkSpec => OnTheWire
<1>1. UpInv /\ [UplinkNext]_uplinkVars =>
        [BatchSent =>
           /\ Head(batch) = 1 \/ split
           /\ \A i \in 2..Len(batch) : batch[i] # batch[i-1]]_uplinkVars
  <2> SUFFICES ASSUME UpInv, BatchSent
               PROVE  /\ Head(batch) = 1 \/ split
                      /\ \A i \in 2..Len(batch) : batch[i] # batch[i-1]
    OBVIOUS
  <2>1. batch # <<>> /\ Head(batch) = batch[1]
    BY DEF UpInv, UpLock, BatchSent, UplinkTypeOK
  <2> QED
    BY <2>1 DEF UpInv, UpJoin, Alternates
<1>2. UpInv /\ [UplinkNext]_uplinkVars =>
        [TextSent /\ text.text = "END" => ~inHand \/ mixed]_uplinkVars
  BY DEF UpInv, UpLock, TextSent
<1>3. UpInv => UplinkTypeOK
  BY DEF UpInv
<1> QED
  BY <1>1, <1>2, <1>3, UplinkInvariant, PTL
     DEF UplinkSpec, OnTheWire, AlignedMessages, EndIsLast
=============================================================================
