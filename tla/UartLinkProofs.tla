--------------------------- MODULE UartLinkProofs ---------------------------
(***************************************************************************)
(* What the UART between the chips guarantees, for any frame length up to  *)
(* 250, any ring, any pictures and commands, and any number of faults.     *)
(*                                                                         *)
(* crc8 and Parse are recursive functions.  That each round of such a loop *)
(* has a value, and what it leaves, is shown by induction on a set of      *)
(* naturals.  From there: what feed() keeps; that the CRC notices any one  *)
(* byte that is turned; what the parser makes of a frame, whole or turned, *)
(* and of a row of them; what each end of the line keeps; that frames come *)
(* up in order; and that the images put together of them are whole.        *)
(***************************************************************************)
EXTENDS UartLink, FiniteSetTheorems, SequenceTheorems, WellFoundedInduction,
        TLAPS

(* Induction over the naturals, on a set: a set of naturals that has 0 and *)
(* with every number the next one is all of them.                          *)
LEMMA SmallestOf ==
    ASSUME NEW T \in SUBSET Nat, T # {}
    PROVE  \E x \in T : \A y \in T : x <= y
<1> DEFINE R == {p \in Nat \X Nat : p[1] < p[2]}
<1>1. IsWellFoundedOn(R, Nat)
    BY NatLessThanWellFounded DEF OpToRel
<1> HIDE DEF R
<1>2. PICK x \in T : \A y \in T : <<y, x>> \notin R
    BY <1>1, WFMin
<1>3. ASSUME NEW y \in T
      PROVE  x <= y
  <2>1. /\ <<y, x>> \in Nat \X Nat
        /\ <<y, x>>[1] = y /\ <<y, x>>[2] = x
      OBVIOUS
  <2>2. ~(y < x)
      BY <1>2, <2>1 DEF R
  <2>. QED
      BY <2>2
<1>. QED
    BY <1>3

LEMMA InductionOnSet ==
    ASSUME NEW I \in SUBSET Nat, 0 \in I, \A n \in I : n + 1 \in I
    PROVE  \A n \in Nat : n \in I
<1> SUFFICES ASSUME Nat \ I # {}
             PROVE  FALSE
    OBVIOUS
<1>1. PICK x \in Nat \ I : \A y \in Nat \ I : x <= y
    BY SmallestOf
<1>2. x - 1 \in Nat /\ x - 1 \notin Nat \ I
    BY <1>1
<1>. QED
    BY <1>1, <1>2

(* g is what a loop's rounds leave, from b on: round n makes F[n] of it.   *)
Rounds(g, m, b, F) == g[0] = b /\ \A n \in 1..m : g[n] = F[n][g[n - 1]]

(* A loop of m rounds has a value after each, if a round has one.          *)
LEMMA RoundsHaveValues ==
    ASSUME NEW A, NEW m \in Nat, NEW b \in A, NEW F \in [1..m -> [A -> A]]
    PROVE  \E g \in [0..m -> A] : Rounds(g, m, b, F)
<1> DEFINE Values(g, k) ==
              \A n \in 0..k : g[n] = IF n = 0 THEN b ELSE F[n][g[n - 1]]
           I == {k \in Nat : k <= m => \E g \in [0..k -> A] : Values(g, k)}
<1>1. 0 \in I
  <2>1. Values([n \in 0..0 |-> b], 0)
      OBVIOUS
  <2>. QED
      BY <2>1
<1>2. ASSUME NEW k \in I
      PROVE  k + 1 \in I
  <2> SUFFICES ASSUME k + 1 <= m
               PROVE  \E h \in [0..(k + 1) -> A] : Values(h, k + 1)
      BY <1>2
  <2>1. PICK g \in [0..k -> A] : Values(g, k)
      BY <1>2
  <2> DEFINE h == [n \in 0..(k + 1) |->
                      IF n <= k THEN g[n] ELSE F[k + 1][g[k]]]
  <2>2. g[k] \in A /\ k + 1 \in 1..m
      BY <1>2
  <2>3. h \in [0..(k + 1) -> A]
      BY <1>2, <2>2
  <2>4. ASSUME NEW n \in 0..(k + 1)
        PROVE  h[n] = IF n = 0 THEN b ELSE F[n][h[n - 1]]
    <3>1. CASE n = 0
      <4>1. k \in Nat /\ 0 \in 0..k /\ 0 \in 0..(k + 1)
          OBVIOUS
      <4>2. g[0] = b
          BY <2>1, <4>1
      <4>3. h[0] = g[0]
          BY <4>1
      <4>. QED
          BY <3>1, <4>2, <4>3
    <3>2. CASE n # 0 /\ n <= k
      <4>1. h[n] = g[n] /\ h[n - 1] = g[n - 1]
          BY <1>2, <3>2
      <4>. QED
          BY <1>2, <2>1, <3>2, <4>1
    <3>3. CASE n = k + 1
      <4>1. h[n] = F[k + 1][g[k]] /\ h[n - 1] = g[k]
          BY <1>2, <3>3
      <4>. QED
          BY <1>2, <3>3, <4>1
    <3>. QED
        BY <1>2, <3>1, <3>2, <3>3
  <2>. QED
      BY <2>3, <2>4
<1>3. m \in I
  <2>1. I \in SUBSET Nat
      OBVIOUS
  <2> HIDE DEF I
  <2>. QED
      BY <1>1, <1>2, <2>1, InductionOnSet
<1>4. PICK g \in [0..m -> A] : Values(g, m)
    BY <1>3
<1>5. 0 \in 0..m /\ \A n \in 1..m : n \in 0..m /\ n # 0
    OBVIOUS
<1>6. g[0] = b
    BY <1>4, <1>5
<1>7. ASSUME NEW n \in 1..m
      PROVE  g[n] = F[n][g[n - 1]]
    BY <1>4, <1>5
<1>. QED
    BY <1>6, <1>7 DEF Rounds

-----------------------------------------------------------------------------
Byte == 0..255

(* Where the parser may be, with its buffer: a payload is never longer     *)
(* than the buffer, and the CRC is computed over what was received.        *)
ParserFields ==
    [state_ : {"WAIT_START", "WAIT_TYPE", "WAIT_LEN", "PAYLOAD", "WAIT_CRC"},
     type_ : Byte, len_ : Byte, payload_ : Seq(Byte), ready : BOOLEAN]

WithinBuffer(p) ==
    /\ Len(p.payload_) <= MAX_PAYLOAD
    /\ p.state_ = "PAYLOAD"
          => Len(p.payload_) < p.len_ /\ p.len_ <= MAX_PAYLOAD
    /\ p.state_ = "WAIT_CRC" => Len(p.payload_) = p.len_

Parsers == {p \in ParserFields : WithinBuffer(p)}

LEMMA ByteIsNat == \A b \in Byte : b \in Nat /\ b <= 255
    BY DEF Byte

LEMMA FeedKeeps ==
    ASSUME NEW p \in Parsers, NEW byte \in Byte
    PROVE  feed(p, byte) \in Parsers
<1> DEFINE q == feed(p, byte)
<1>1. MAX_PAYLOAD \in Nat /\ MAX_PAYLOAD <= 250
    BY MaxPayloadAssumption
<1>2. p \in ParserFields /\ WithinBuffer(p)
    BY DEF Parsers
<1>3. /\ Len(p.payload_) \in Nat /\ p.len_ \in Nat /\ byte \in Nat
      /\ Len(Append(p.payload_, byte)) = Len(p.payload_) + 1
      /\ Append(p.payload_, byte) \in Seq(Byte)
  <2>1. p.payload_ \in Seq(Byte) /\ p.len_ \in Byte
      BY <1>2 DEF ParserFields
  <2>2. p.len_ \in Nat /\ byte \in Nat
      BY <2>1, ByteIsNat
  <2>. QED
      BY <2>1, <2>2
<1>4. SUFFICES q \in ParserFields /\ WithinBuffer(q)
    BY DEF Parsers
<1>5. CASE p.state_ = "WAIT_START"
  <2>1. q = IF byte = FRAME_START THEN [p EXCEPT !.state_ = "WAIT_TYPE"] ELSE p
      BY <1>5 DEF feed
  <2> HIDE DEF q
  <2>. QED
      BY <1>2, <1>5, <2>1 DEF ParserFields, WithinBuffer
<1>6. CASE p.state_ = "WAIT_TYPE"
  <2>1. q = [p EXCEPT !.type_ = byte, !.state_ = "WAIT_LEN"]
      BY <1>6 DEF feed
  <2> HIDE DEF q
  <2>. QED
      BY <1>2, <2>1 DEF ParserFields, WithinBuffer
<1>7. CASE p.state_ = "WAIT_LEN" /\ byte > MAX_PAYLOAD
  <2>1. q = [p EXCEPT !.len_ = byte, !.state_ = "WAIT_START"]
      BY <1>7 DEF feed, feedLen
  <2> HIDE DEF q
  <2>. QED
      BY <1>2, <2>1 DEF ParserFields, WithinBuffer
<1>8. CASE p.state_ = "WAIT_LEN" /\ ~(byte > MAX_PAYLOAD)
  <2>1. q = [p EXCEPT !.len_ = byte, !.payload_ = <<>>,
                      !.state_ = IF byte > 0 THEN "PAYLOAD" ELSE "WAIT_CRC"]
      BY <1>8 DEF feed, feedLen
  <2> HIDE DEF q
  <2>2. /\ q.payload_ = <<>> /\ q.len_ = byte
        /\ q.state_ = IF byte > 0 THEN "PAYLOAD" ELSE "WAIT_CRC"
      BY <1>2, <2>1 DEF ParserFields
  <2>3. q \in ParserFields
    <3>1. CASE byte > 0
      <4>1. q = [p EXCEPT !.len_ = byte, !.payload_ = <<>>,
                          !.state_ = "PAYLOAD"]
          BY <2>1, <3>1
      <4>2. <<>> \in Seq(Byte)
          OBVIOUS
      <4>. QED
          BY <1>2, <4>1, <4>2 DEF ParserFields
    <3>2. CASE ~(byte > 0)
      <4>1. q = [p EXCEPT !.len_ = byte, !.payload_ = <<>>,
                          !.state_ = "WAIT_CRC"]
          BY <2>1, <3>2
      <4>2. <<>> \in Seq(Byte)
          OBVIOUS
      <4>. QED
          BY <1>2, <4>1, <4>2 DEF ParserFields
    <3>. QED
        BY <3>1, <3>2
  <2>. QED
      BY <1>1, <1>3, <1>8, <2>2, <2>3 DEF WithinBuffer
<1>9. CASE p.state_ = "PAYLOAD"
  <2>1. q = [p EXCEPT !.payload_ = Append(p.payload_, byte),
                      !.state_ = IF Len(p.payload_) + 1 >= p.len_
                                   THEN "WAIT_CRC" ELSE "PAYLOAD"]
      BY <1>9 DEF feed
  <2> HIDE DEF q
  <2>2. /\ q.payload_ = Append(p.payload_, byte) /\ q.len_ = p.len_
        /\ q.state_ = IF Len(p.payload_) + 1 >= p.len_
                        THEN "WAIT_CRC" ELSE "PAYLOAD"
      BY <1>2, <2>1 DEF ParserFields
  <2>3. q \in ParserFields
      BY <1>2, <1>3, <2>1 DEF ParserFields
  <2>. QED
      BY <1>1, <1>2, <1>3, <1>9, <2>2, <2>3 DEF WithinBuffer
<1>10. CASE p.state_ = "WAIT_CRC"
  <2>1. q = feedCrc(p, byte)
      BY <1>10 DEF feed
  <2> HIDE DEF q
  <2>. QED
      BY <1>2, <2>1 DEF ParserFields, WithinBuffer, feedCrc
<1>. QED
    BY <1>2, <1>5, <1>6, <1>7, <1>8, <1>9, <1>10 DEF ParserFields

(* What the parser is after each byte.                                     *)
Feeding == [p : Parsers, used : Nat]

(* g is what the parser is after each of r's bytes.                        *)
Scan(g, r) ==
    /\ g \in [0..Len(r) -> Feeding]
    /\ \A n \in 1..Len(r) :
          g[n] = IF g[n - 1].p.ready THEN g[n - 1]
                 ELSE [p |-> feed(g[n - 1].p, r[n]), used |-> n]

LEMMA ParseRounds ==
    ASSUME NEW p \in Parsers, NEW r \in Seq(Byte)
    PROVE  \E g : /\ Scan(g, r)
                 /\ g[0] = [p |-> p, used |-> 0]
                 /\ Parse(p, r) = g[Len(r)]
<1> DEFINE start == [p |-> p, used |-> 0]
           F == [n \in 1..Len(r) |-> [a \in Feeding |->
                    IF a.p.ready THEN a
                    ELSE [p |-> feed(a.p, r[n]), used |-> n]]]
<1>1. Len(r) \in Nat /\ start \in Feeding
    BY DEF Feeding
<1>2. F \in [1..Len(r) -> [Feeding -> Feeding]]
  <2>1. ASSUME NEW a \in Feeding, NEW n \in 1..Len(r)
        PROVE  [p |-> feed(a.p, r[n]), used |-> n] \in Feeding
    <3>1. a.p \in Parsers /\ r[n] \in Byte
        BY DEF Feeding
    <3>2. feed(a.p, r[n]) \in Parsers
        BY <3>1, FeedKeeps
    <3>. QED
        BY <3>2 DEF Feeding
  <2>. QED
      BY <2>1
<1>3. PICK g \in [0..Len(r) -> Feeding] :
              /\ g[0] = start
              /\ \A n \in 1..Len(r) : g[n] = F[n][g[n - 1]]
  <2> HIDE DEF F, start
  <2>1. \E g \in [0..Len(r) -> Feeding] : Rounds(g, Len(r), start, F)
      BY <1>1, <1>2, RoundsHaveValues
  <2>. QED
      BY <2>1 DEF Rounds
<1>4. \A n \in 1..Len(r) :
         F[n][g[n - 1]]
            = IF g[n - 1].p.ready THEN g[n - 1]
              ELSE [p |-> feed(g[n - 1].p, r[n]), used |-> n]
  <2>1. ASSUME NEW n \in 1..Len(r)
        PROVE  g[n - 1] \in Feeding
      BY <1>1
  <2>. QED
      BY <2>1
<1> HIDE DEF F
<1> DEFINE Loop(h) ==
       [n \in 0..Len(r) |->
           IF n = 0 THEN [p |-> p, used |-> 0]
           ELSE LET a == h[n - 1]
                IN IF a.p.ready THEN a
                   ELSE [p |-> feed(a.p, r[n]), used |-> n]]
<1>5. g = Loop(g)
  <2>1. \A n \in 0..Len(r) : g[n] = Loop(g)[n]
    <3>1. ASSUME NEW n \in 0..Len(r)
          PROVE  g[n] = IF n = 0 THEN start
                        ELSE IF g[n - 1].p.ready THEN g[n - 1]
                        ELSE [p |-> feed(g[n - 1].p, r[n]), used |-> n]
      <4>1. IF n = 0 THEN g[n] = start ELSE g[n] = F[n][g[n - 1]]
          BY <1>1, <1>3
      <4>2. n # 0 => n \in 1..Len(r)
          BY <1>1
      <4>. QED
          BY <1>4, <4>1, <4>2
    <3>. QED
        BY <3>1
  <2>2. g = [n \in 0..Len(r) |-> g[n]]
      OBVIOUS
  <2>. QED
      BY <2>1, <2>2
<1>6. Parse(p, r) = (CHOOSE h : h = Loop(h))[Len(r)]
    BY DEF Parse
<1> HIDE DEF Loop
<1>7. PICK h : h = Loop(h) /\ Parse(p, r) = h[Len(r)]
    BY <1>5, <1>6
<1>8. \A n \in 0..Len(r) :
         h[n] = IF n = 0 THEN [p |-> p, used |-> 0]
                ELSE IF h[n - 1].p.ready THEN h[n - 1]
                     ELSE [p |-> feed(h[n - 1].p, r[n]), used |-> n]
    BY <1>7 DEF Loop
<1>9. \A n \in 0..Len(r) : h[n] \in Feeding
  <2> DEFINE I == {k \in Nat : k <= Len(r) => h[k] \in Feeding}
  <2>1. 0 \in I
    <3>1. h[0] = start
      <4>1. 0 \in 0..Len(r)
          BY <1>1
      <4>2. h[0] = IF 0 = 0 THEN start
                   ELSE IF h[0 - 1].p.ready THEN h[0 - 1]
                        ELSE [p |-> feed(h[0 - 1].p, r[0]), used |-> 0]
          BY <1>8, <4>1, Zenon
      <4>. QED
          BY <4>2, Zenon
    <3>. QED
        BY <1>1, <3>1
  <2>2. ASSUME NEW k \in I
        PROVE  k + 1 \in I
    <3> SUFFICES ASSUME k + 1 <= Len(r)
                 PROVE  h[k + 1] \in Feeding
        BY <2>2
    <3>1. /\ h[k] \in Feeding /\ h[k].p \in Parsers
          /\ k + 1 \in 1..Len(r) /\ r[k + 1] \in Byte
        BY <1>1, <2>2 DEF Feeding
    <3>2. feed(h[k].p, r[k + 1]) \in Parsers
        BY <3>1, FeedKeeps
    <3>3. h[k + 1] = IF h[k].p.ready THEN h[k]
                     ELSE [p |-> feed(h[k].p, r[k + 1]), used |-> k + 1]
      <4>1. k + 1 \in 0..Len(r) /\ k + 1 # 0 /\ (k + 1) - 1 = k
          BY <1>1, <2>2
      <4>. QED
          BY <1>8, <4>1
    <3>. QED
        BY <2>2, <3>1, <3>2, <3>3 DEF Feeding
  <2>3. I \in SUBSET Nat
      OBVIOUS
  <2> HIDE DEF I
  <2>4. \A n \in Nat : n \in I
      BY <2>1, <2>2, <2>3, InductionOnSet
  <2>. QED
      BY <1>1, <2>4 DEF I
<1>10. h \in [0..Len(r) -> Feeding]
  <2>1. h = [n \in 0..Len(r) |-> h[n]]
      BY <1>7 DEF Loop
  <2>. QED
      BY <1>9, <2>1
<1>11. \A n \in 1..Len(r) :
          h[n] = IF h[n - 1].p.ready THEN h[n - 1]
                 ELSE [p |-> feed(h[n - 1].p, r[n]), used |-> n]
    BY <1>1, <1>8
<1>12. Scan(h, r) /\ h[0] = [p |-> p, used |-> 0]
    BY <1>1, <1>8, <1>10, <1>11 DEF Scan
<1>. QED
    BY <1>7, <1>12

(* Bytes under exclusive or: it gives a byte, keeps what is xored with 0,  *)
(* and no two bytes give the same.                                         *)
LEMMA XorTyped == \A a, b : xor(a, b) \in Byte
<1> SUFFICES ASSUME NEW a, NEW b
             PROVE  xor(a, b) \in Byte
    OBVIOUS
<1> DEFINE bit(w) == IF (a \div w) % 2 = (b \div w) % 2 THEN 0 ELSE w
<1>1. xor(a, b) = bit(1) + bit(2) + bit(4) + bit(8) + bit(16) + bit(32)
                        + bit(64) + bit(128)
    BY DEF xor
<1>2. /\ bit(1) \in {0, 1} /\ bit(2) \in {0, 2} /\ bit(4) \in {0, 4}
      /\ bit(8) \in {0, 8} /\ bit(16) \in {0, 16} /\ bit(32) \in {0, 32}
      /\ bit(64) \in {0, 64} /\ bit(128) \in {0, 128}
    BY Zenon
<1> HIDE DEF bit
<1>. QED
    BY <1>1, <1>2 DEF Byte

SameBits(a, b) ==
    /\ a % 2 = b % 2
    /\ (a \div 2) % 2 = (b \div 2) % 2
    /\ (a \div 4) % 2 = (b \div 4) % 2
    /\ (a \div 8) % 2 = (b \div 8) % 2
    /\ (a \div 16) % 2 = (b \div 16) % 2
    /\ (a \div 32) % 2 = (b \div 32) % 2
    /\ (a \div 64) % 2 = (b \div 64) % 2
    /\ (a \div 128) % 2 = (b \div 128) % 2

LEMMA ByteOfBits ==
    ASSUME NEW a \in Byte, NEW b \in Byte, SameBits(a, b)
    PROVE  a = b
<1>1. \A c \in Byte :
         c = (c % 2) + 2 * ((c \div 2) % 2) + 4 * ((c \div 4) % 2)
               + 8 * ((c \div 8) % 2) + 16 * ((c \div 16) % 2)
               + 32 * ((c \div 32) % 2) + 64 * ((c \div 64) % 2)
               + 128 * ((c \div 128) % 2)
    BY SMTT(60) DEF Byte
<1>. QED
    BY <1>1 DEF SameBits

LEMMA XorInjective ==
    ASSUME NEW a \in Byte, NEW b \in Byte, NEW c \in Byte,
           xor(a, b) = xor(a, c)
    PROVE  b = c
<1> DEFINE bit(x, w) == IF (a \div w) % 2 = (x \div w) % 2 THEN 0 ELSE w
<1>1. \A x : xor(a, x) = bit(x, 1) + bit(x, 2) + bit(x, 4) + bit(x, 8)
                              + bit(x, 16) + bit(x, 32) + bit(x, 64)
                              + bit(x, 128)
    BY DEF xor
<1>2. \A x : /\ bit(x, 1) \in {0, 1} /\ bit(x, 2) \in {0, 2}
             /\ bit(x, 4) \in {0, 4} /\ bit(x, 8) \in {0, 8}
             /\ bit(x, 16) \in {0, 16} /\ bit(x, 32) \in {0, 32}
             /\ bit(x, 64) \in {0, 64} /\ bit(x, 128) \in {0, 128}
    BY Zenon
<1>3. ASSUME NEW w \in {1, 2, 4, 8, 16, 32, 64, 128}, bit(b, w) = bit(c, w)
      PROVE  (b \div w) % 2 = (c \div w) % 2
  <2>1. /\ (a \div w) % 2 \in {0, 1} /\ (b \div w) % 2 \in {0, 1}
        /\ (c \div w) % 2 \in {0, 1} /\ w # 0
      BY DEF Byte
  <2>. QED
      BY <1>3, <2>1
<1> HIDE DEF bit
<1>4. /\ bit(b, 1) = bit(c, 1) /\ bit(b, 2) = bit(c, 2)
      /\ bit(b, 4) = bit(c, 4) /\ bit(b, 8) = bit(c, 8)
      /\ bit(b, 16) = bit(c, 16) /\ bit(b, 32) = bit(c, 32)
      /\ bit(b, 64) = bit(c, 64) /\ bit(b, 128) = bit(c, 128)
  <2>1. bit(b, 1) + bit(b, 2) + bit(b, 4) + bit(b, 8) + bit(b, 16)
           + bit(b, 32) + bit(b, 64) + bit(b, 128)
        = bit(c, 1) + bit(c, 2) + bit(c, 4) + bit(c, 8) + bit(c, 16)
           + bit(c, 32) + bit(c, 64) + bit(c, 128)
      BY <1>1
  <2>. QED
      BY SMTT(30), <1>2, <2>1
<1>5. SameBits(b, c)
  <2>1. b \div 1 = b /\ c \div 1 = c
      BY DEF Byte
  <2>2. \A w \in {1, 2, 4, 8, 16, 32, 64, 128} :
           bit(b, w) = bit(c, w) => (b \div w) % 2 = (c \div w) % 2
      BY <1>3
  <2>. QED
      BY <1>4, <2>1, <2>2 DEF SameBits
<1>. QED
    BY <1>5, ByteOfBits

LEMMA XorCommutes == \A a, b : xor(a, b) = xor(b, a)
    BY DEF xor

LEMMA XorTurns ==
    ASSUME NEW a \in Byte, NEW bit \in {1, 128}
    PROVE  xor(a, bit) \in Byte /\ xor(a, bit) # a
<1>1. xor(a, 0) = a
  <2>1. xor(a, 0) = (a % 2) + 2 * ((a \div 2) % 2) + 4 * ((a \div 4) % 2)
               + 8 * ((a \div 8) % 2) + 16 * ((a \div 16) % 2)
               + 32 * ((a \div 32) % 2) + 64 * ((a \div 64) % 2)
               + 128 * ((a \div 128) % 2)
      BY SMTT(60) DEF Byte, xor
  <2>2. a = (a % 2) + 2 * ((a \div 2) % 2) + 4 * ((a \div 4) % 2)
               + 8 * ((a \div 8) % 2) + 16 * ((a \div 16) % 2)
               + 32 * ((a \div 32) % 2) + 64 * ((a \div 64) % 2)
               + 128 * ((a \div 128) % 2)
      BY SMTT(60) DEF Byte
  <2>. QED
      BY <2>1, <2>2
<1>2. 0 \in Byte /\ bit \in Byte /\ bit # 0
    BY DEF Byte
<1>. QED
    BY <1>1, <1>2, XorInjective, XorTyped

(* One byte through the CRC: another byte, or another CRC so far, gives    *)
(* another CRC.                                                            *)
LEMMA TablesTyped ==
    /\ CrcTable \in [Byte -> Byte]
    /\ XorTable \in [Byte -> [Byte -> Byte]]
    /\ \A b, c \in Byte : CrcTable[b] = CrcTable[c] => b = c
<1>1. XorTable \in [Byte -> [Byte -> Byte]]
    BY XorTyped DEF XorTable, Byte
<1>2. /\ Shift \in [Byte -> Byte]
      /\ \A b \in Byte : Shift[b] = IF b >= 128 THEN xor((b * 2) % 256, 7)
                                      ELSE b * 2
  <2>1. ASSUME NEW c \in 0..255
        PROVE  (IF c >= 128 THEN xor((c * 2) % 256, 7) ELSE c * 2) \in 0..255
    <3>1. xor((c * 2) % 256, 7) \in 0..255
        BY XorTyped DEF Byte
    <3>. QED
        BY <3>1
  <2>2. Shift \in [Byte -> Byte]
      BY <2>1, Zenon DEF Shift, Byte
  <2>3. \A b \in Byte : Shift[b] = IF b >= 128 THEN xor((b * 2) % 256, 7)
                                     ELSE b * 2
      BY Zenon DEF Shift, Byte
  <2>. QED
      BY <2>2, <2>3
<1>3. ASSUME NEW b \in Byte, NEW c \in Byte, Shift[b] = Shift[c]
      PROVE  b = c
  <2>1. ASSUME NEW x \in Byte, x >= 128
        PROVE  /\ xor((x * 2) % 256, 7) % 2 = 1
               /\ (x * 2) % 256 \in Byte /\ (x * 2) % 256 = 2 * x - 256
    <3> DEFINE y == (x * 2) % 256
               bit(w) == IF (y \div w) % 2 = (7 \div w) % 2 THEN 0 ELSE w
    <3>1. y = 2 * x - 256 /\ y \in Byte
        BY <2>1 DEF Byte
    <3>2. y % 2 = 0
        BY <3>1 DEF Byte
    <3> HIDE DEF y
    <3>3. xor(y, 7) = bit(1) + bit(2) + bit(4) + bit(8) + bit(16) + bit(32)
                            + bit(64) + bit(128)
        BY DEF xor
    <3>4. /\ bit(2) \in {0, 2} /\ bit(4) \in {0, 4}
          /\ bit(8) \in {0, 8} /\ bit(16) \in {0, 16} /\ bit(32) \in {0, 32}
          /\ bit(64) \in {0, 64} /\ bit(128) \in {0, 128}
        BY Zenon
    <3>5. bit(1) = 1
        BY <3>1, <3>2 DEF Byte
    <3> HIDE DEF bit
    <3>6. xor(y, 7) % 2 = 1
        BY <3>3, <3>4, <3>5
    <3>. QED
        BY <3>1, <3>6 DEF y
  <2>2. ASSUME NEW x \in Byte, ~(x >= 128)
        PROVE  (x * 2) % 2 = 0
      BY DEF Byte
  <2>3. (b >= 128) <=> (c >= 128)
      BY <1>2, <1>3, <2>1, <2>2
  <2>4. CASE b >= 128
    <3>1. xor((b * 2) % 256, 7) = xor((c * 2) % 256, 7)
        BY <1>2, <1>3, <2>3, <2>4
    <3>2. (b * 2) % 256 \in Byte /\ (c * 2) % 256 \in Byte /\ 7 \in Byte
        BY <2>1, <2>3, <2>4 DEF Byte
    <3>3. (b * 2) % 256 = (c * 2) % 256
        BY <3>1, <3>2, XorCommutes, XorInjective
    <3>4. 2 * b - 256 = 2 * c - 256
        BY <2>1, <2>3, <2>4, <3>3
    <3>. QED
        BY <3>4 DEF Byte
  <2>5. CASE ~(b >= 128)
    <3>1. b * 2 = c * 2
        BY <1>2, <1>3, <2>3, <2>5
    <3>. QED
        BY <3>1 DEF Byte
  <2>. QED
      BY <2>4, <2>5
<1>4. \A b \in Byte :
         Shift[Shift[Shift[Shift[Shift[Shift[Shift[Shift[b]
             ]]]]]]] \in Byte
    BY <1>2
<1>5. /\ CrcTable \in [Byte -> Byte]
      /\ \A b \in Byte : CrcTable[b] =
            Shift[Shift[Shift[Shift[Shift[Shift[Shift[Shift[b]
               ]]]]]]]
    BY <1>4, Zenon DEF CrcTable, Byte
<1>6. ASSUME NEW b \in Byte, NEW c \in Byte, CrcTable[b] = CrcTable[c]
      PROVE  b = c
  <2> DEFINE two(x)  == Shift[Shift[x]]
             four(x) == two(two(x))
  <2>1. \A x \in Byte : Shift[x] \in Byte
      BY <1>2
  <2>2. \A x, y \in Byte : two(x) \in Byte /\ (two(x) = two(y) => x = y)
    <3> SUFFICES ASSUME NEW x \in Byte, NEW y \in Byte
                 PROVE  two(x) \in Byte /\ (two(x) = two(y) => x = y)
        OBVIOUS
    <3>1. Shift[x] \in Byte /\ Shift[y] \in Byte
        BY <2>1
    <3>2. two(x) \in Byte
        BY <2>1, <3>1
    <3>3. two(x) = two(y) => Shift[x] = Shift[y]
        BY <1>3, <3>1
    <3>. QED
        BY <1>3, <3>2, <3>3
  <2>3. four(four(b)) \notin {} /\ CrcTable[b] = four(four(b))
           /\ CrcTable[c] = four(four(c))
    <3>1. CrcTable[b] = four(four(b))
        BY <1>5
    <3>2. CrcTable[c] = four(four(c))
        BY <1>5
    <3>. QED
        BY <3>1, <3>2
  <2> HIDE DEF two
  <2>4. \A x, y \in Byte : four(x) \in Byte /\ (four(x) = four(y) => x = y)
    <3> SUFFICES ASSUME NEW x \in Byte, NEW y \in Byte
                 PROVE  four(x) \in Byte /\ (four(x) = four(y) => x = y)
        OBVIOUS
    <3>1. two(x) \in Byte /\ two(y) \in Byte
        BY <2>2
    <3>. QED
        BY <2>2, <3>1
  <2> HIDE DEF four
  <2>5. four(b) \in Byte /\ four(c) \in Byte
      BY <2>4
  <2>6. four(b) = four(c)
      BY <1>6, <2>3, <2>4, <2>5
  <2>. QED
      BY <2>4, <2>6
<1>. QED
    BY <1>1, <1>5, <1>6

(* The CRC's rounds, and what they leave.                                  *)
LEMMA CrcRounds ==
    ASSUME NEW d \in Seq(Byte)
    PROVE  \E h \in [0..Len(d) -> Byte] :
              /\ \A n \in 1..Len(d) :
                    h[n] = CrcTable[XorTable[h[n - 1]][d[n]]]
              /\ h[0] = 0
              /\ crc8(d) = h[Len(d)]
<1> DEFINE F == [n \in 1..Len(d) |-> [c \in Byte |->
                    CrcTable[XorTable[c][d[n]]]]]
           Loop(h) == [n \in 0..Len(d) |->
                         IF n = 0 THEN 0
                         ELSE CrcTable[XorTable[h[n - 1]][d[n]]]]
<1>1. Len(d) \in Nat /\ 0 \in Byte
    BY DEF Byte
<1>2. ASSUME NEW c \in Byte, NEW n \in 1..Len(d)
      PROVE  CrcTable[XorTable[c][d[n]]] \in Byte
  <2>1. d[n] \in Byte
      OBVIOUS
  <2>2. XorTable[c][d[n]] \in Byte
      BY <2>1, TablesTyped
  <2>. QED
      BY <2>2, TablesTyped
<1>3. F \in [1..Len(d) -> [Byte -> Byte]]
    BY <1>2
<1>4. PICK g \in [0..Len(d) -> Byte] : Rounds(g, Len(d), 0, F)
  <2> HIDE DEF F
  <2>. QED
      BY <1>1, <1>3, RoundsHaveValues
<1>5. g = Loop(g)
  <2>1. ASSUME NEW n \in 0..Len(d)
        PROVE  g[n] = IF n = 0 THEN 0
                      ELSE CrcTable[XorTable[g[n - 1]][d[n]]]
    <3>1. CASE n = 0
        BY <1>4, <3>1 DEF Rounds
    <3>2. CASE n # 0
      <4>1. n \in 1..Len(d) /\ g[n - 1] \in Byte
          BY <1>1, <3>2
      <4>2. g[n] = F[n][g[n - 1]]
        <5> HIDE DEF F
        <5>. QED
            BY <1>4, <4>1 DEF Rounds
      <4>. QED
          BY <3>2, <4>1, <4>2
    <3>. QED
        BY <3>1, <3>2
  <2>2. g = [n \in 0..Len(d) |-> g[n]]
      OBVIOUS
  <2>. QED
      BY <2>1, <2>2
<1>6. crc8(d) = (CHOOSE h : h = Loop(h))[Len(d)]
    BY DEF crc8
<1> HIDE DEF Loop
<1>7. PICK h : h = Loop(h) /\ crc8(d) = h[Len(d)]
    BY <1>5, <1>6
<1>8. \A n \in 0..Len(d) :
         h[n] = IF n = 0 THEN 0 ELSE CrcTable[XorTable[h[n - 1]][d[n]]]
    BY <1>7 DEF Loop
<1> DEFINE I == {k \in Nat : k <= Len(d) => h[k] \in Byte}
<1>9. 0 \in I
  <2>1. h[0] = 0
      BY <1>1, <1>8
  <2>. QED
      BY <1>1, <2>1
<1>10. ASSUME NEW k \in I
       PROVE  k + 1 \in I
  <2> SUFFICES ASSUME k + 1 <= Len(d)
               PROVE  h[k + 1] \in Byte
      BY <1>10
  <2>1. h[k] \in Byte /\ k + 1 \in 1..Len(d)
      BY <1>1, <1>10
  <2>2. h[k + 1] = CrcTable[XorTable[h[k]][d[k + 1]]]
      BY <1>1, <1>8, <1>10, <2>1
  <2>. QED
      BY <1>2, <2>1, <2>2
<1>11. I \in SUBSET Nat
    OBVIOUS
<1>12. \A n \in Nat : n \in I
  <2> HIDE DEF I
  <2>. QED
      BY <1>9, <1>10, <1>11, InductionOnSet
<1>13. h \in [0..Len(d) -> Byte]
  <2>1. h = [n \in 0..Len(d) |-> h[n]]
      BY <1>7 DEF Loop
  <2>2. \A n \in 0..Len(d) : h[n] \in Byte
      BY <1>1, <1>12
  <2>. QED
      BY <2>1, <2>2
<1>14. /\ h[0] = 0
       /\ \A n \in 1..Len(d) :
             h[n] = CrcTable[XorTable[h[n - 1]][d[n]]]
    BY <1>1, <1>8
<1>. QED
    BY <1>7, <1>13, <1>14

LEMMA CrcTyped ==
    ASSUME NEW d \in Seq(Byte)
    PROVE  crc8(d) \in Byte
<1>1. PICK h \in [0..Len(d) -> Byte] : crc8(d) = h[Len(d)]
    BY CrcRounds
<1>2. Len(d) \in 0..Len(d)
    OBVIOUS
<1>. QED
    BY <1>1, <1>2

(* The CRC notices every frame in which one byte was turned.               *)
LEMMA CrcNotices ==
    ASSUME NEW d \in Seq(Byte), NEW e \in Seq(Byte), Len(d) = Len(e),
           NEW j \in 1..Len(d), d[j] # e[j],
           \A n \in 1..Len(d) : n # j => d[n] = e[n]
    PROVE  crc8(d) # crc8(e)
<1>1. PICK g \in [0..Len(d) -> Byte] :
         /\ \A n \in 1..Len(d) : g[n] = CrcTable[XorTable[g[n - 1]][d[n]]]
         /\ g[0] = 0 /\ crc8(d) = g[Len(d)]
    BY CrcRounds
<1>2. PICK h \in [0..Len(d) -> Byte] :
         /\ \A n \in 1..Len(d) : h[n] = CrcTable[XorTable[h[n - 1]][e[n]]]
         /\ h[0] = 0 /\ crc8(e) = h[Len(d)]
    BY ZenonT(30), CrcRounds
<1>3. \A a, b \in Byte : XorTable[a][b] = xor(a, b) /\ xor(a, b) \in Byte
    BY XorTyped DEF XorTable, Byte
<1>4. ASSUME NEW n \in 1..Len(d)
      PROVE  /\ d[n] \in Byte /\ e[n] \in Byte
             /\ g[n - 1] \in Byte /\ h[n - 1] \in Byte
             /\ g[n] = CrcTable[xor(g[n - 1], d[n])]
             /\ h[n] = CrcTable[xor(h[n - 1], e[n])]
  <2>1. d[n] \in Byte /\ e[n] \in Byte /\ n - 1 \in 0..Len(d)
      OBVIOUS
  <2>2. g[n - 1] \in Byte /\ h[n - 1] \in Byte
      BY <2>1
  <2>. QED
      BY <1>1, <1>2, <1>3, <2>1, <2>2
<1> DEFINE Same == {k \in Nat : k < j => g[k] = h[k]}
           Other == {k \in Nat : k + j <= Len(d) => g[k + j] # h[k + j]}
<1>5. Len(d) \in Nat /\ j \in Nat /\ 1 <= j /\ j <= Len(d)
    OBVIOUS
<1>6. g[j - 1] = h[j - 1]
  <2>1. 0 \in Same
      BY <1>1, <1>2
  <2>2. ASSUME NEW k \in Same
        PROVE  k + 1 \in Same
    <3> SUFFICES ASSUME k + 1 < j
                 PROVE  g[k + 1] = h[k + 1]
        OBVIOUS
    <3>1. k + 1 \in 1..Len(d) /\ k + 1 # j /\ (k + 1) - 1 = k /\ g[k] = h[k]
        BY <1>5
    <3>2. d[k + 1] = e[k + 1]
        BY <3>1
    <3>. QED
        BY <1>4, <3>1, <3>2
  <2>3. Same \in SUBSET Nat
      OBVIOUS
  <2>4. j - 1 \in Same
    <3> HIDE DEF Same
    <3>1. j - 1 \in Nat
        BY <1>5
    <3>. QED
        BY <2>1, <2>2, <2>3, <3>1, InductionOnSet
  <2>. QED
      BY <1>5, <2>4
<1>7. g[j] # h[j]
  <2>1. xor(g[j - 1], d[j]) # xor(h[j - 1], e[j])
      BY <1>4, <1>6, XorInjective
  <2>2. /\ xor(g[j - 1], d[j]) \in Byte /\ xor(h[j - 1], e[j]) \in Byte
        /\ g[j] = CrcTable[xor(g[j - 1], d[j])]
        /\ h[j] = CrcTable[xor(h[j - 1], e[j])]
      BY <1>4, XorTyped
  <2>. QED
      BY <2>1, <2>2, TablesTyped
<1>8. 0 \in Other
  <2>1. 0 + j = j
      BY <1>5
  <2>. QED
      BY <1>7, <2>1
<1>9. ASSUME NEW k \in Other
      PROVE  k + 1 \in Other
  <2> SUFFICES ASSUME (k + 1) + j <= Len(d)
               PROVE  g[(k + 1) + j] # h[(k + 1) + j]
      OBVIOUS
  <2> DEFINE n == (k + 1) + j
  <2>1. n \in 1..Len(d) /\ n # j /\ n - 1 = k + j /\ g[n - 1] # h[n - 1]
      BY <1>5
  <2> HIDE DEF n
  <2>2. d[n] = e[n]
      BY <2>1
  <2>3. xor(g[n - 1], d[n]) # xor(h[n - 1], e[n])
      BY <1>4, <2>1, <2>2, XorCommutes, XorInjective
  <2>4. /\ xor(g[n - 1], d[n]) \in Byte /\ xor(h[n - 1], e[n]) \in Byte
        /\ g[n] = CrcTable[xor(g[n - 1], d[n])]
        /\ h[n] = CrcTable[xor(h[n - 1], e[n])]
      BY <1>4, <2>1, XorTyped
  <2>5. g[n] # h[n]
      BY <2>3, <2>4, TablesTyped
  <2>. QED
      BY <2>5 DEF n
<1>10. g[Len(d)] # h[Len(d)]
  <2>1. Other \in SUBSET Nat
      OBVIOUS
  <2>2. Len(d) - j \in Nat /\ (Len(d) - j) + j = Len(d)
      BY <1>5
  <2>3. Len(d) - j \in Other
    <3> HIDE DEF Other
    <3>. QED
        BY <1>8, <1>9, <2>1, <2>2, InductionOnSet
  <2>. QED
      BY <2>2, <2>3
<1>. QED
    BY <1>1, <1>2, <1>10

LEMMA LengthIsByte ==
    ASSUME NEW d \in Seq(Byte), Len(d) <= MAX_PAYLOAD
    PROVE  /\ Len(d) \in Nat /\ Len(d) \in Byte
           /\ MAX_PAYLOAD \in Nat /\ 4 <= MAX_PAYLOAD /\ MAX_PAYLOAD <= 250
<1>1. MAX_PAYLOAD \in Nat /\ 4 <= MAX_PAYLOAD /\ MAX_PAYLOAD <= 250
    BY MaxPayloadAssumption
<1>2. Len(d) \in Nat
    OBVIOUS
<1>3. \A n \in Nat : n <= 250 => n \in Byte
    BY DEF Byte
<1>. QED
    BY <1>1, <1>2, <1>3

(* A frame's bytes.                                                        *)
LEMMA FrameBytes ==
    ASSUME NEW type \in Byte, NEW d \in Seq(Byte),
           Len(d) <= MAX_PAYLOAD
    PROVE  /\ buildFrame(type, d) \in Seq(Byte)
           /\ Len(buildFrame(type, d)) = Len(d) + 4
           /\ buildFrame(type, d)[1] = FRAME_START
           /\ buildFrame(type, d)[2] = type
           /\ buildFrame(type, d)[3] = Len(d)
           /\ \A k \in 1..Len(d) : buildFrame(type, d)[3 + k] = d[k]
           /\ buildFrame(type, d)[4 + Len(d)]
                  = crc8(<<type, Len(d)>> \o d)
<1> DEFINE head == <<type, Len(d)>>
           body == head \o d
           crc  == crc8(body)
<1>1. Len(d) \in Nat /\ Len(d) \in Byte
    BY LengthIsByte
<1>2. head \in Seq(Byte) /\ Len(head) = 2 /\ head[1] = type /\ head[2] = Len(d)
    BY <1>1
<1> HIDE DEF head
<1>3. /\ body \in Seq(Byte) /\ Len(body) = Len(d) + 2
      /\ body[1] = type /\ body[2] = Len(d)
      /\ \A k \in 1..Len(d) : body[2 + k] = d[k]
  <2>1. /\ body \in Seq(Byte) /\ Len(body) = 2 + Len(d)
        /\ \A i \in 1..(2 + Len(d)) :
              body[i] = IF i <= 2 THEN head[i] ELSE d[i - 2]
    <3>1. head \in Seq(Byte) /\ d \in Seq(Byte)
        BY <1>2
    <3>2. /\ body \in Seq(Byte) /\ Len(body) = Len(head) + Len(d)
          /\ \A i \in 1..(Len(head) + Len(d)) :
                body[i] = IF i <= Len(head) THEN head[i] ELSE d[i - Len(head)]
        BY <3>1, ConcatProperties, Zenon
    <3> HIDE DEF body
    <3>. QED
        BY <1>2, <3>2
  <2>2. /\ {1, 2} \subseteq 1..(2 + Len(d)) /\ 1 <= 2 /\ 2 <= 2
        /\ \A k \in 1..Len(d) : /\ 2 + k \in 1..(2 + Len(d))
                               /\ ~(2 + k <= 2) /\ (2 + k) - 2 = k
      BY <1>1
  <2> HIDE DEF body
  <2>. QED
      BY <1>1, <1>2, <2>1, <2>2
<1>4. crc \in Byte
    BY <1>3, CrcTyped
<1> HIDE DEF body
<1>5. buildFrame(type, d) = (<<FRAME_START>> \o body) \o <<crc>>
    BY DEF buildFrame, body, head
<1>6. FRAME_START \in Byte
    BY DEF FRAME_START, Byte
<1> HIDE DEF crc
<1> DEFINE front == <<FRAME_START>> \o body
<1>7. /\ front \in Seq(Byte) /\ Len(front) = Len(d) + 3
      /\ front[1] = FRAME_START /\ front[2] = type /\ front[3] = Len(d)
      /\ \A k \in 1..Len(d) : front[3 + k] = d[k]
  <2>1. /\ front \in Seq(Byte) /\ Len(front) = Len(d) + 3
        /\ front[1] = FRAME_START
        /\ \A i \in 1..Len(body) : front[1 + i] = body[i]
      BY <1>1, <1>3, <1>6
  <2> HIDE DEF front
  <2>2. front[2] = body[1] /\ front[3] = body[2]
      BY <1>1, <1>3, <2>1
  <2>3. ASSUME NEW k \in 1..Len(d)
        PROVE  front[3 + k] = d[k]
    <3>1. 2 + k \in 1..Len(body) /\ 1 + (2 + k) = 3 + k
        BY <1>1, <1>3
    <3>. QED
        BY <1>3, <2>1, <3>1
  <2>. QED
      BY <1>3, <2>1, <2>2, <2>3
<1>8. buildFrame(type, d) = front \o <<crc>>
    BY <1>5
<1> HIDE DEF front
<1>9. /\ front \o <<crc>> \in Seq(Byte)
      /\ Len(front \o <<crc>>) = Len(d) + 4
      /\ \A i \in 1..(Len(d) + 3) : (front \o <<crc>>)[i] = front[i]
      /\ (front \o <<crc>>)[Len(d) + 4] = crc
    BY <1>1, <1>4, <1>7
<1>. QED
    BY <1>1, <1>7, <1>8, <1>9 DEF crc, body, head

(* What a byte does to the parser, by the state it is in.                  *)
LEMMA FeedStart ==
    ASSUME NEW p \in ParserFields, p.state_ = "WAIT_START"
    PROVE  LET q == feed(p, FRAME_START)
           IN q.state_ = "WAIT_TYPE" /\ q.ready = p.ready
    BY DEF feed, ParserFields

LEMMA FeedType ==
    ASSUME NEW p \in ParserFields, p.state_ = "WAIT_TYPE", NEW byte
    PROVE  LET q == feed(p, byte)
           IN q.state_ = "WAIT_LEN" /\ q.ready = p.ready /\ q.type_ = byte
    BY DEF feed, ParserFields

LEMMA FeedLength ==
    ASSUME NEW p \in ParserFields, p.state_ = "WAIT_LEN", NEW byte,
           ~(byte > MAX_PAYLOAD)
    PROVE  LET q == feed(p, byte)
           IN /\ q.state_ = IF byte > 0 THEN "PAYLOAD" ELSE "WAIT_CRC"
              /\ q.ready = p.ready /\ q.type_ = p.type_
              /\ q.len_ = byte /\ q.payload_ = <<>>
<1>1. feed(p, byte)
         = [p EXCEPT !.len_ = byte, !.payload_ = <<>>,
                     !.state_ = IF byte > 0 THEN "PAYLOAD" ELSE "WAIT_CRC"]
    BY DEF feed, feedLen
<1> HIDE DEF feed
<1>. QED
    BY <1>1 DEF ParserFields

LEMMA FeedPayload ==
    ASSUME NEW p \in ParserFields, p.state_ = "PAYLOAD", NEW byte
    PROVE  LET q == feed(p, byte)
           IN /\ q.state_ = IF Len(p.payload_) + 1 >= p.len_
                              THEN "WAIT_CRC" ELSE "PAYLOAD"
              /\ q.ready = p.ready /\ q.type_ = p.type_ /\ q.len_ = p.len_
              /\ q.payload_ = Append(p.payload_, byte)
<1>1. feed(p, byte)
         = [p EXCEPT !.payload_ = Append(p.payload_, byte),
                     !.state_ = IF Len(p.payload_) + 1 >= p.len_
                                  THEN "WAIT_CRC" ELSE "PAYLOAD"]
    BY DEF feed
<1>. QED
    BY <1>1 DEF ParserFields

LEMMA FeedCrc ==
    ASSUME NEW p \in ParserFields, p.state_ = "WAIT_CRC", NEW byte
    PROVE  LET q == feed(p, byte)
           IN /\ q.state_ = "WAIT_START" /\ q.ready \in BOOLEAN
              /\ q.ready <=> (byte = crc8(<<p.type_, p.len_>> \o p.payload_))
              /\ q.type_ = p.type_ /\ q.payload_ = p.payload_
<1> DEFINE fits == (byte = crc8(<<p.type_, p.len_>> \o p.payload_))
<1>1. feed(p, byte) = [p EXCEPT !.state_ = "WAIT_START", !.ready = fits]
    BY DEF feed, feedCrc
<1>2. fits \in BOOLEAN
    OBVIOUS
<1> HIDE DEF fits
<1>3. CASE fits
  <2>1. fits = TRUE
      BY <1>2, <1>3
  <2>2. feed(p, byte) = [p EXCEPT !.state_ = "WAIT_START", !.ready = TRUE]
      BY <1>1, <2>1
  <2>. QED
      BY <1>3, <2>2 DEF ParserFields, fits
<1>4. CASE ~fits
  <2>1. fits = FALSE
      BY <1>2, <1>4
  <2>2. feed(p, byte) = [p EXCEPT !.state_ = "WAIT_START", !.ready = FALSE]
      BY <1>1, <2>1
  <2>. QED
      BY <1>4, <2>2 DEF ParserFields, fits
<1>. QED
    BY <1>3, <1>4

(* Between two frames, with none to hand up.                               *)
Waiting(p) == p.state_ = "WAIT_START" /\ p.ready = FALSE

(* The parser after a frame of t and d that ends at byte n, which is crc.  *)
Scanned(a, t, d, crc, n) ==
    /\ a.p.state_ = "WAIT_START" /\ a.p.ready \in BOOLEAN
    /\ a.p.ready <=> (crc = crc8(<<t, Len(d)>> \o d))
    /\ a.p.type_ = t /\ a.p.payload_ = d /\ a.used = n

(* A start byte, a type t, a length and as many bytes d, and one byte more *)
(* make a frame of t and d if that byte is their CRC, and nothing if not.  *)
LEMMA FrameScanned ==
    ASSUME NEW r \in Seq(Byte), NEW g, Scan(g, r),
           NEW b \in Nat, NEW d \in Seq(Byte), Len(d) <= MAX_PAYLOAD,
           b + Len(d) + 4 <= Len(r), Waiting(g[b].p),
           r[b + 1] = FRAME_START, r[b + 3] = Len(d),
           \A k \in 1..Len(d) : r[b + 3 + k] = d[k]
    PROVE  Scanned(g[b + Len(d) + 4], r[b + 2], d, r[b + Len(d) + 4],
                   b + Len(d) + 4)
<1> DEFINE L == Len(d)
           t == r[b + 2]
<1>1. /\ L \in Nat /\ Len(r) \in Nat /\ MAX_PAYLOAD \in Nat
      /\ L <= MAX_PAYLOAD /\ MAX_PAYLOAD <= 250
    BY LengthIsByte
<1>2. b + L + 4 <= Len(r) /\ L = Len(d) /\ r[b + 3] = L /\ t = r[b + 2]
    OBVIOUS
<1>3. \A k \in 1..L : r[b + 3 + k] = d[k] /\ d[k] \in Byte
    OBVIOUS
<1> HIDE DEF L, t
<1>4. ASSUME NEW n \in 1..Len(r), g[n - 1].p.ready = FALSE
      PROVE  /\ g[n].p = feed(g[n - 1].p, r[n]) /\ g[n].used = n
             /\ g[n - 1].p \in ParserFields
  <2>1. n - 1 \in 0..Len(r)
      BY <1>1
  <2>2. g[n - 1] \in Feeding
      BY <2>1 DEF Scan
  <2>3. g[n - 1].p \in ParserFields
      BY <2>2 DEF Feeding, Parsers
  <2>4. g[n] = [p |-> feed(g[n - 1].p, r[n]), used |-> n]
      BY <1>4 DEF Scan
  <2>. QED
      BY <2>3, <2>4
<1>5. /\ {b + 1, b + 2, b + 3, b + L + 4} \subseteq 1..Len(r)
      /\ (b + 1) - 1 = b /\ (b + 2) - 1 = b + 1 /\ (b + 3) - 1 = b + 2
      /\ (b + L + 4) - 1 = b + 3 + L
    BY <1>1, <1>2
<1>6. g[b + 1].p.state_ = "WAIT_TYPE" /\ g[b + 1].p.ready = FALSE
  <2>1. g[b].p.state_ = "WAIT_START" /\ g[b].p.ready = FALSE
      BY DEF Waiting
  <2>2. /\ g[b + 1].p = feed(g[b].p, FRAME_START)
        /\ g[b].p \in ParserFields
      BY <1>4, <1>5, <2>1
  <2>. QED
      BY <2>1, <2>2, FeedStart
<1>7. /\ g[b + 2].p.state_ = "WAIT_LEN" /\ g[b + 2].p.ready = FALSE
      /\ g[b + 2].p.type_ = t
  <2>1. g[b + 2].p = feed(g[b + 1].p, t) /\ g[b + 1].p \in ParserFields
      BY <1>2, <1>4, <1>5, <1>6
  <2>. QED
      BY SMTT(30), <1>6, <2>1, FeedType
<1> DEFINE At(k) ==
       /\ g[b + 3 + k].p.ready = FALSE
       /\ g[b + 3 + k].p.type_ = t /\ g[b + 3 + k].p.len_ = L
       /\ g[b + 3 + k].p.payload_ = SubSeq(d, 1, k)
       /\ g[b + 3 + k].p.state_ = IF k < L THEN "PAYLOAD" ELSE "WAIT_CRC"
<1>8. At(0)
  <2>1. g[b + 3].p = feed(g[b + 2].p, L) /\ g[b + 2].p \in ParserFields
      BY <1>2, <1>4, <1>5, <1>7
  <2>2. SubSeq(d, 1, 0) = <<>> /\ b + 3 + 0 = b + 3
      OBVIOUS
  <2>3. ~(L > MAX_PAYLOAD) /\ (L > 0 <=> 0 < L)
      BY <1>1
  <2>4. /\ g[b + 3].p.state_ = IF L > 0 THEN "PAYLOAD" ELSE "WAIT_CRC"
        /\ g[b + 3].p.ready = FALSE /\ g[b + 3].p.type_ = t
        /\ g[b + 3].p.len_ = L /\ g[b + 3].p.payload_ = <<>>
    <3> DEFINE p == g[b + 2].p
               q == g[b + 3].p
    <3>1. /\ p \in ParserFields /\ p.state_ = "WAIT_LEN" /\ p.ready = FALSE
          /\ p.type_ = t /\ q = feed(p, L)
        BY <1>7, <2>1
    <3> HIDE DEF p, q, At
    <3>2. /\ q.state_ = IF L > 0 THEN "PAYLOAD" ELSE "WAIT_CRC"
          /\ q.ready = p.ready /\ q.type_ = p.type_
          /\ q.len_ = L /\ q.payload_ = <<>>
        BY <2>3, <3>1, FeedLength
    <3>. QED
        BY <3>1, <3>2 DEF q
  <2>. QED
      BY <2>2, <2>3, <2>4
<1>9. ASSUME NEW k \in Nat, k < L, At(k)
      PROVE  At(k + 1)
  <2> DEFINE n == b + 4 + k
  <2>0. k \in Nat /\ k < L
      BY <1>9
  <2> HIDE DEF At
  <2>1. /\ n \in 1..Len(r) /\ n - 1 = b + 3 + k /\ k + 1 \in 1..L
        /\ b + 3 + (k + 1) = n
      BY <1>1, <1>2, <2>0
  <2> HIDE DEF n
  <2> DEFINE p == g[b + 3 + k].p
             q == g[n].p
  <2>2. p \in ParserFields /\ q = feed(p, d[k + 1])
    <3>1. r[n] = d[k + 1]
        BY <1>3, <2>1
    <3>2. g[n - 1].p.ready = FALSE
        BY <1>9, <2>1 DEF At
    <3>. QED
        BY <1>4, <2>1, <3>1, <3>2
  <2>3. /\ Append(SubSeq(d, 1, k), d[k + 1]) = SubSeq(d, 1, k + 1)
        /\ Len(SubSeq(d, 1, k)) = k
      BY <1>1, <1>2, <1>9, <2>1
  <2>4. /\ p.ready = FALSE /\ p.type_ = t /\ p.len_ = L
        /\ p.payload_ = SubSeq(d, 1, k) /\ p.state_ = "PAYLOAD"
      BY <1>9 DEF At
  <2> HIDE DEF p, q
  <2>5. /\ q.state_ = IF Len(p.payload_) + 1 >= p.len_
                       THEN "WAIT_CRC" ELSE "PAYLOAD"
        /\ q.ready = p.ready /\ q.type_ = p.type_ /\ q.len_ = p.len_
        /\ q.payload_ = Append(p.payload_, d[k + 1])
      BY <2>2, <2>4, FeedPayload
  <2>6. (k + 1 >= L) <=> ~(k + 1 < L)
      BY <1>1
  <2>7. /\ q.state_ = IF k + 1 < L THEN "PAYLOAD" ELSE "WAIT_CRC"
        /\ q.ready = FALSE /\ q.type_ = t /\ q.len_ = L
        /\ q.payload_ = SubSeq(d, 1, k + 1)
      BY <2>3, <2>4, <2>5, <2>6
  <2>. QED
      BY <2>1, <2>7 DEF At, q
<1>10. At(L)
  <2> DEFINE I == {k \in Nat : k <= L => At(k)}
  <2>1. 0 \in I
      BY <1>8
  <2>2. ASSUME NEW k \in I
        PROVE  k + 1 \in I
    <3> HIDE DEF At
    <3>. QED
        BY <1>1, <1>9, <2>2
  <2>3. I \in SUBSET Nat
      OBVIOUS
  <2> HIDE DEF I, At
  <2>4. L \in I
      BY <1>1, <2>1, <2>2, <2>3, InductionOnSet
  <2>. QED
      BY <1>1, <2>4 DEF I
<1>11. SubSeq(d, 1, L) = d /\ ~(L < L)
    BY <1>1, <1>2
<1> DEFINE p == g[b + 3 + L].p
<1>12. /\ p.ready = FALSE /\ p.type_ = t /\ p.len_ = L /\ p.payload_ = d
       /\ p.state_ = "WAIT_CRC"
    BY <1>10, <1>11
<1> HIDE DEF At
<1> DEFINE a    == g[b + L + 4]
           last == r[b + L + 4]
<1>13. a.p = feed(p, last) /\ a.used = b + L + 4 /\ p \in ParserFields
  <2> DEFINE n == b + L + 4
  <2>1. n \in 1..Len(r) /\ g[n - 1].p = p
      BY <1>5
  <2> HIDE DEF p, n
  <2>2. g[n - 1].p.ready = FALSE
      BY <1>12, <2>1
  <2>3. g[n].p = feed(g[n - 1].p, r[n]) /\ g[n].used = n
           /\ g[n - 1].p \in ParserFields
      BY <1>4, <2>1, <2>2
  <2>. QED
      BY <2>1, <2>3 DEF n
<1> HIDE DEF p, a, last
<1>14. /\ a.p.state_ = "WAIT_START" /\ a.p.ready \in BOOLEAN
       /\ a.p.ready <=> (last = crc8(<<p.type_, p.len_>> \o p.payload_))
       /\ a.p.type_ = p.type_ /\ a.p.payload_ = p.payload_
    BY <1>12, <1>13, FeedCrc
<1>. QED
    BY <1>2, <1>12, <1>13, <1>14 DEF a, last, t, Scanned

(* A frame handed up is not touched by the bytes that follow it.           *)
LEMMA ReadyStays ==
    ASSUME NEW r \in Seq(Byte), NEW g, Scan(g, r),
           NEW b \in 0..Len(r), g[b].p.ready = TRUE
    PROVE  g[Len(r)] = g[b]
<1> DEFINE I == {k \in Nat : b + k <= Len(r) => g[b + k] = g[b]}
<1>1. b \in Nat /\ Len(r) \in Nat /\ b <= Len(r)
    OBVIOUS
<1>2. 0 \in I
    BY <1>1
<1>3. ASSUME NEW k \in I
      PROVE  k + 1 \in I
  <2> SUFFICES ASSUME b + (k + 1) <= Len(r)
               PROVE  g[b + (k + 1)] = g[b]
      BY <1>3
  <2> DEFINE n == b + (k + 1)
  <2>1. n \in 1..Len(r) /\ n - 1 = b + k /\ g[n - 1] = g[b]
      BY <1>1, <1>3
  <2>2. g[n] = IF g[n - 1].p.ready THEN g[n - 1]
               ELSE [p |-> feed(g[n - 1].p, r[n]), used |-> n]
      BY <2>1 DEF Scan
  <2> HIDE DEF n
  <2>3. g[n] = g[b]
      BY <2>1, <2>2
  <2>. QED
      BY <2>3 DEF n
<1>4. I \in SUBSET Nat
    OBVIOUS
<1>5. Len(r) - b \in Nat /\ b + (Len(r) - b) = Len(r)
    BY <1>1
<1>6. Len(r) - b \in I
  <2> HIDE DEF I
  <2>. QED
      BY <1>2, <1>3, <1>4, <1>5, InductionOnSet
<1>. QED
    BY <1>5, <1>6

-----------------------------------------------------------------------------
(* Frames on the line: whole ones, and ones of which a byte that is neither *)
(* the start byte nor the length was turned.                               *)
Frames == {f \in [type : Byte, payload : Seq(Byte)] :
              Len(f.payload) <= MAX_PAYLOAD}

FrameOf(f) == buildFrame(f.type, f.payload)
Span(f)    == Len(f.payload) + 4

Whole(r, b, f) == \A k \in 1..Span(f) : r[b + k] = FrameOf(f)[k]

Turned(r, b, f) ==
    \E j \in 1..Span(f) :
       /\ j # 1 /\ j # 3 /\ r[b + j] # FrameOf(f)[j]
       /\ \A k \in 1..Span(f) : k # j => r[b + k] = FrameOf(f)[k]

LEMMA FrameFields ==
    ASSUME NEW f \in Frames
    PROVE  /\ f.type \in Byte /\ f.payload \in Seq(Byte)
           /\ Len(f.payload) \in Nat /\ Len(f.payload) <= MAX_PAYLOAD
           /\ Len(f.payload) \in Byte
           /\ FrameOf(f) \in Seq(Byte) /\ Len(FrameOf(f)) = Span(f)
           /\ Span(f) \in Nat /\ Span(f) >= 4
           /\ FrameOf(f)[1] = FRAME_START /\ FrameOf(f)[2] = f.type
           /\ FrameOf(f)[3] = Len(f.payload)
           /\ \A k \in 1..Len(f.payload) : FrameOf(f)[3 + k] = f.payload[k]
           /\ FrameOf(f)[4 + Len(f.payload)]
                  = crc8(<<f.type, Len(f.payload)>> \o f.payload)
<1>1. /\ f.type \in Byte /\ f.payload \in Seq(Byte)
      /\ Len(f.payload) <= MAX_PAYLOAD
    BY DEF Frames
<1>2. Len(f.payload) \in Nat /\ Len(f.payload) \in Byte
    BY <1>1, LengthIsByte
<1> DEFINE F == buildFrame(f.type, f.payload)
           L == Len(f.payload)
<1>3. /\ F \in Seq(Byte) /\ Len(F) = L + 4
      /\ F[1] = FRAME_START /\ F[2] = f.type /\ F[3] = L
      /\ \A k \in 1..L : F[3 + k] = f.payload[k]
      /\ F[4 + L] = crc8(<<f.type, L>> \o f.payload)
    BY ZenonT(30), <1>1, FrameBytes
<1>4. FrameOf(f) = F /\ Span(f) = L + 4
    BY DEF FrameOf, Span
<1> HIDE DEF F, L
<1>5. L \in Nat => L + 4 \in Nat /\ L + 4 >= 4
    OBVIOUS
<1>. QED
    BY <1>1, <1>2, <1>3, <1>4, <1>5 DEF L

(* The body the CRC is computed over.                                      *)
LEMMA BodyBytes ==
    ASSUME NEW t \in Byte, NEW n \in Byte, NEW d \in Seq(Byte)
    PROVE  /\ <<t, n>> \o d \in Seq(Byte)
           /\ Len(<<t, n>> \o d) = Len(d) + 2
           /\ (<<t, n>> \o d)[1] = t /\ (<<t, n>> \o d)[2] = n
           /\ \A k \in 1..Len(d) : (<<t, n>> \o d)[2 + k] = d[k]
<1> DEFINE head == <<t, n>>
           body == head \o d
<1>1. /\ head \in Seq(Byte) /\ Len(head) = 2 /\ head[1] = t /\ head[2] = n
      /\ Len(d) \in Nat
    OBVIOUS
<1> HIDE DEF head
<1>2. /\ body \in Seq(Byte) /\ Len(body) = Len(head) + Len(d)
      /\ \A i \in 1..(Len(head) + Len(d)) :
            body[i] = IF i <= Len(head) THEN head[i] ELSE d[i - Len(head)]
    BY <1>1, ConcatProperties, Zenon
<1> HIDE DEF body
<1>3. /\ {1, 2} \subseteq 1..(2 + Len(d)) /\ 1 <= 2 /\ 2 <= 2
      /\ \A k \in 1..Len(d) : /\ 2 + k \in 1..(2 + Len(d))
                             /\ ~(2 + k <= 2) /\ (2 + k) - 2 = k
    BY <1>1
<1>4. body \in Seq(Byte) /\ Len(body) = Len(d) + 2
      /\ body[1] = t /\ body[2] = n
      /\ \A k \in 1..Len(d) : body[2 + k] = d[k]
    BY <1>1, <1>2, <1>3
<1>. QED
    BY <1>4 DEF body, head

LEMMA WholeScanned ==
    ASSUME NEW r \in Seq(Byte), NEW g, Scan(g, r),
           NEW f \in Frames, NEW b \in Nat, b + Span(f) <= Len(r),
           Waiting(g[b].p), Whole(r, b, f)
    PROVE  LET a == g[b + Span(f)]
           IN /\ a.p.ready = TRUE /\ a.used = b + Span(f)
              /\ a.p.type_ = f.type /\ a.p.payload_ = f.payload
<1> DEFINE d == f.payload
           L == Len(d)
<1>1. /\ f.type \in Byte /\ d \in Seq(Byte) /\ L \in Nat /\ L <= MAX_PAYLOAD
      /\ FrameOf(f)[1] = FRAME_START /\ FrameOf(f)[2] = f.type
      /\ FrameOf(f)[3] = L
      /\ \A k \in 1..L : FrameOf(f)[3 + k] = d[k]
      /\ FrameOf(f)[4 + L] = crc8(<<f.type, L>> \o d)
    BY FrameFields
<1>2. Span(f) = L + 4
    BY DEF Span
<1> HIDE DEF d
<1>3. /\ {1, 2, 3, 4 + L} \subseteq 1..(L + 4)
      /\ \A k \in 1..L : 3 + k \in 1..(L + 4)
      /\ b + (4 + L) = b + L + 4 /\ b + (L + 4) = b + L + 4
      /\ \A k \in 1..L : b + (3 + k) = b + 3 + k
    BY <1>1
<1>4. \A k \in 1..(L + 4) : r[b + k] = FrameOf(f)[k]
    BY <1>2 DEF Whole
<1>5. /\ r[b + 1] = FRAME_START /\ r[b + 2] = f.type /\ r[b + 3] = L
      /\ r[b + L + 4] = crc8(<<f.type, L>> \o d)
  <2>1. /\ r[b + 1] = FrameOf(f)[1] /\ r[b + 2] = FrameOf(f)[2]
        /\ r[b + 3] = FrameOf(f)[3] /\ r[b + (4 + L)] = FrameOf(f)[4 + L]
      BY <1>3, <1>4
  <2>. QED
      BY <1>1, <1>3, <2>1
<1>6. \A k \in 1..L : r[b + 3 + k] = d[k]
  <2>1. ASSUME NEW k \in 1..L
        PROVE  r[b + 3 + k] = d[k]
    <3>1. r[b + (3 + k)] = FrameOf(f)[3 + k]
        BY <1>3, <1>4
    <3>. QED
        BY <1>1, <1>3, <3>1
  <2>. QED
      BY <2>1
<1>7. b + L + 4 <= Len(r)
    BY <1>2, <1>3
<1> DEFINE a == g[b + L + 4]
<1>8. /\ a.p.ready \in BOOLEAN
      /\ a.p.ready <=> (r[b + L + 4] = crc8(<<r[b + 2], L>> \o d))
      /\ a.p.type_ = r[b + 2] /\ a.p.payload_ = d /\ a.used = b + L + 4
  <2>1. Scanned(a, r[b + 2], d, r[b + L + 4], b + L + 4)
      BY <1>1, <1>5, <1>6, <1>7, FrameScanned
  <2> HIDE DEF a
  <2>. QED
      BY <2>1 DEF Scanned
<1> HIDE DEF a, L
<1>9. a.p.ready = TRUE
    BY <1>5, <1>8
<1>10. g[b + Span(f)] = a /\ b + Span(f) = b + L + 4
    BY <1>2, <1>3 DEF a
<1>. QED
    BY <1>5, <1>8, <1>9, <1>10 DEF d

(* A frame with a byte turned is not handed up, and the parser is where    *)
(* the next frame starts.                                                  *)
LEMMA TurnedScanned ==
    ASSUME NEW r \in Seq(Byte), NEW g, Scan(g, r),
           NEW f \in Frames, NEW b \in Nat, b + Span(f) <= Len(r),
           Waiting(g[b].p), Turned(r, b, f)
    PROVE  Waiting(g[b + Span(f)].p)
<1> DEFINE L == Len(f.payload)
           d == [k \in 1..L |-> r[b + 3 + k]]
           F == FrameOf(f)
<1>1. /\ f.type \in Byte /\ f.payload \in Seq(Byte) /\ L \in Nat
      /\ L <= MAX_PAYLOAD /\ L \in Byte
      /\ F[1] = FRAME_START /\ F[2] = f.type /\ F[3] = L
      /\ \A k \in 1..L : F[3 + k] = f.payload[k]
      /\ F[4 + L] = crc8(<<f.type, L>> \o f.payload)
    BY FrameFields
<1>2. Span(f) = L + 4
    BY DEF Span
<1>3. PICK j \in 1..(L + 4) :
         /\ j # 1 /\ j # 3 /\ r[b + j] # F[j]
         /\ \A k \in 1..(L + 4) : k # j => r[b + k] = F[k]
    BY <1>2 DEF Turned
<1>4. \A k \in 1..(L + 4) : b + k \in 1..Len(r) /\ r[b + k] \in Byte
  <2>1. ASSUME NEW k \in 1..(L + 4)
        PROVE  b + k \in 1..Len(r) /\ r[b + k] \in Byte
    <3>1. b + k \in 1..Len(r)
        BY <1>1, <1>2
    <3>. QED
        BY <3>1
  <2>. QED
      BY <2>1
<1> HIDE DEF F
<1>5. /\ {1, 2, 3, 4 + L} \subseteq 1..(L + 4)
      /\ b + (4 + L) = b + L + 4 /\ b + (L + 4) = b + L + 4
      /\ \A k \in 1..L : 3 + k \in 1..(L + 4) /\ b + (3 + k) = b + 3 + k
    BY <1>1
<1>6. d \in Seq(Byte) /\ Len(d) = L /\ \A k \in 1..L : d[k] = r[b + 3 + k]
  <2>1. \A k \in 1..L : r[b + 3 + k] \in Byte
      BY <1>4, <1>5
  <2>. QED
      BY <1>1, <2>1
<1> HIDE DEF d
<1>7. r[b + 1] = FRAME_START /\ r[b + 3] = L /\ r[b + 2] \in Byte
    BY <1>1, <1>3, <1>4, <1>5
<1> DEFINE t == r[b + 2]
           a == g[b + L + 4]
<1>8. /\ a.p.state_ = "WAIT_START" /\ a.p.ready \in BOOLEAN
      /\ a.p.ready <=> (r[b + L + 4] = crc8(<<t, L>> \o d))
  <2>1. b + Len(d) + 4 <= Len(r) /\ Len(d) <= MAX_PAYLOAD
      BY <1>1, <1>2, <1>5, <1>6
  <2>2. \A k \in 1..Len(d) : r[b + 3 + k] = d[k]
      BY <1>6
  <2> HIDE DEF L
  <2>3. Scanned(a, t, d, r[b + L + 4], b + L + 4)
      BY <1>6, <1>7, <2>1, <2>2, FrameScanned
  <2> HIDE DEF a, t
  <2>. QED
      BY <1>6, <2>3 DEF Scanned
<1>9. r[b + L + 4] # crc8(<<t, L>> \o d)
  <2> DEFINE x == <<f.type, L>> \o f.payload
             y == <<t, L>> \o d
  <2>1. /\ x \in Seq(Byte) /\ Len(x) = L + 2 /\ x[1] = f.type /\ x[2] = L
        /\ \A k \in 1..L : x[2 + k] = f.payload[k]
      BY <1>1, BodyBytes
  <2>2. /\ y \in Seq(Byte) /\ Len(y) = L + 2 /\ y[1] = t /\ y[2] = L
        /\ \A k \in 1..L : y[2 + k] = d[k]
      BY SMTT(30), <1>1, <1>6, <1>7, BodyBytes
  <2>3. F[4 + L] = crc8(x)
      BY <1>1
  <2> HIDE DEF x, y, L, t, a
  <2>4. CASE j = 4 + L
    <3>1. x = y
      <4>1. t = f.type
          BY <1>1, <1>3, <1>5, <2>4 DEF t
      <4>2. ASSUME NEW k \in 1..L
            PROVE  x[2 + k] = y[2 + k]
        <5>1. 3 + k \in 1..(L + 4) /\ 3 + k # j
            BY <1>1, <1>5, <2>4
        <5>2. r[b + (3 + k)] = F[3 + k]
            BY <1>3, <5>1
        <5>. QED
            BY <1>1, <1>5, <1>6, <2>1, <2>2, <5>2
      <4>3. ASSUME NEW m \in 1..(L + 2)
            PROVE  x[m] = y[m]
        <5>1. m = 1 \/ m = 2 \/ (m - 2 \in 1..L /\ 2 + (m - 2) = m)
            BY <1>1
        <5>2. m - 2 \in 1..L => x[2 + (m - 2)] = y[2 + (m - 2)]
            BY <4>2
        <5>. QED
            BY <2>1, <2>2, <4>1, <5>1, <5>2
      <4>. QED
          BY <2>1, <2>2, <4>3, SeqEqual, Zenon
    <3>. QED
        BY <1>3, <1>5, <2>3, <2>4, <3>1 DEF y
  <2>5. CASE j # 4 + L
    <3>1. r[b + L + 4] = crc8(x)
        BY <1>3, <1>5, <2>3, <2>5
    <3>2. \E m \in 1..(L + 2) :
             /\ x[m] # y[m]
             /\ \A n \in 1..(L + 2) : n # m => x[n] = y[n]
      <4>1. CASE j = 2
        <5>1. x[1] # y[1]
            BY <1>1, <1>3, <2>1, <2>2, <4>1 DEF t
        <5>2. ASSUME NEW n \in 1..(L + 2), n # 1
              PROVE  x[n] = y[n]
          <6>1. n = 2 \/ (n - 2 \in 1..L /\ 2 + (n - 2) = n
                            /\ 3 + (n - 2) # j)
              BY <1>1, <4>1, <5>2
          <6>2. CASE n = 2
              BY <2>1, <2>2, <6>2
          <6>3. CASE n - 2 \in 1..L /\ 2 + (n - 2) = n /\ 3 + (n - 2) # j
            <7>1. r[b + (3 + (n - 2))] = F[3 + (n - 2)]
                BY <1>3, <1>5, <6>3
            <7>2. d[n - 2] = f.payload[n - 2]
                BY <1>1, <1>5, <1>6, <6>3, <7>1
            <7>. QED
                BY <2>1, <2>2, <6>3, <7>2
          <6>. QED
              BY <6>1, <6>2, <6>3
        <5>3. 1 \in 1..(L + 2)
            BY <1>1
        <5>. QED
            BY <5>1, <5>2, <5>3
      <4>2. CASE j # 2
        <5>1. j - 3 \in 1..L /\ 3 + (j - 3) = j /\ 2 + (j - 3) = j - 1
                 /\ j - 1 \in 1..(L + 2)
            BY <1>1, <1>3, <2>5, <4>2
        <5>2. x[j - 1] # y[j - 1]
          <6>1. x[2 + (j - 3)] = F[3 + (j - 3)]
              BY <1>1, <2>1, <5>1
          <6>2. y[2 + (j - 3)] = r[b + (3 + (j - 3))]
              BY <1>5, <1>6, <2>2, <5>1
          <6>. QED
              BY <1>3, <5>1, <6>1, <6>2
        <5>3. ASSUME NEW n \in 1..(L + 2), n # j - 1
              PROVE  x[n] = y[n]
          <6>1. n = 1 \/ n = 2 \/ (n - 2 \in 1..L /\ 2 + (n - 2) = n
                            /\ 3 + (n - 2) # j)
              BY <1>1, <5>3
          <6>2. CASE n = 1
            <7>1. t = f.type
                BY <1>1, <1>3, <1>5, <4>2 DEF t
            <7>. QED
                BY <2>1, <2>2, <6>2, <7>1
          <6>3. CASE n = 2
              BY <2>1, <2>2, <6>3
          <6>4. CASE n - 2 \in 1..L /\ 2 + (n - 2) = n /\ 3 + (n - 2) # j
            <7>1. r[b + (3 + (n - 2))] = F[3 + (n - 2)]
                BY <1>3, <1>5, <6>4
            <7>2. d[n - 2] = f.payload[n - 2]
                BY <1>1, <1>5, <1>6, <6>4, <7>1
            <7>. QED
                BY <2>1, <2>2, <6>4, <7>2
          <6>. QED
              BY <6>1, <6>2, <6>3, <6>4
        <5>. QED
            BY <5>1, <5>2, <5>3
      <4>. QED
          BY <4>1, <4>2
    <3>3. crc8(x) # crc8(y)
        BY SMTT(30), <2>1, <2>2, <3>2, CrcNotices
    <3>. QED
        BY <3>1, <3>3 DEF y
  <2>. QED
      BY <2>4, <2>5
<1>10. b + Span(f) = b + L + 4
    BY <1>2, <1>5
<1>. QED
    BY <1>8, <1>9, <1>10 DEF Waiting

-----------------------------------------------------------------------------
(* The frames of S after the first `from' ones follow each other in r:     *)
(* frame i ends at byte at[i]; those in `bad' have a byte turned.          *)
Layout(r, S, at, from, bad) ==
    /\ from \in 0..Len(S) /\ bad \subseteq (from + 1)..Len(S)
    /\ at \in [from..Len(S) -> 0..Len(r)]
    /\ at[from] = 0 /\ at[Len(S)] = Len(r)
    /\ \A i, j \in from..Len(S) : i <= j => at[i] <= at[j]
    /\ \A i \in (from + 1)..Len(S) :
          /\ at[i] = at[i - 1] + Span(S[i])
          /\ i \in bad => Turned(r, at[i - 1], S[i])
          /\ i \notin bad => Whole(r, at[i - 1], S[i])

LEMMA LayoutBounds ==
    ASSUME NEW r \in Seq(Byte), NEW S \in Seq(Frames),
           NEW at, NEW from, NEW bad, Layout(r, S, at, from, bad)
    PROVE  /\ Len(S) \in Nat /\ Len(r) \in Nat /\ from \in Nat
           /\ from <= Len(S) /\ bad \subseteq (from + 1)..Len(S)
           /\ at[from] = 0 /\ at[Len(S)] = Len(r)
           /\ \A i \in from..Len(S) : at[i] \in Nat /\ at[i] <= Len(r)
<1>1. /\ from \in 0..Len(S) /\ bad \subseteq (from + 1)..Len(S)
      /\ at \in [from..Len(S) -> 0..Len(r)]
      /\ at[from] = 0 /\ at[Len(S)] = Len(r)
    BY Zenon DEF Layout
<1>2. Len(S) \in Nat /\ Len(r) \in Nat
    OBVIOUS
<1>3. \A i \in from..Len(S) : at[i] \in 0..Len(r)
    BY <1>1
<1>. QED
    BY <1>1, <1>2, <1>3

LEMMA LayoutFrame ==
    ASSUME NEW r \in Seq(Byte), NEW S \in Seq(Frames),
           NEW at, NEW from, NEW bad, Layout(r, S, at, from, bad),
           NEW i \in (from + 1)..Len(S)
    PROVE  /\ i \in Nat /\ i \in 1..Len(S) /\ i \in from..Len(S)
           /\ i - 1 \in from..Len(S)
           /\ S[i] \in Frames /\ Span(S[i]) \in Nat
           /\ at[i] \in Nat /\ at[i - 1] \in Nat /\ at[i] <= Len(r)
           /\ at[i] = at[i - 1] + Span(S[i])
           /\ i \in bad => Turned(r, at[i - 1], S[i])
           /\ i \notin bad => Whole(r, at[i - 1], S[i])
<1>1. /\ Len(S) \in Nat /\ from \in Nat
      /\ \A j \in from..Len(S) : at[j] \in Nat /\ at[j] <= Len(r)
    BY LayoutBounds
<1>2. /\ i \in Nat /\ i \in 1..Len(S) /\ i \in from..Len(S)
      /\ i - 1 \in from..Len(S)
    BY <1>1
<1>3. S[i] \in Frames
    BY <1>2
<1>4. Span(S[i]) \in Nat
    BY <1>3, FrameFields
<1>5. /\ at[i] = at[i - 1] + Span(S[i])
      /\ i \in bad => Turned(r, at[i - 1], S[i])
      /\ i \notin bad => Whole(r, at[i - 1], S[i])
    BY Zenon DEF Layout
<1>. QED
    BY <1>1, <1>2, <1>3, <1>4, <1>5

(* The parser hands up the first whole frame, or none is left on the line. *)
FirstWhole(a, S, at, from, bad) ==
    \/ /\ bad = (from + 1)..Len(S) /\ a.p \in Parsers /\ Waiting(a.p)
    \/ \E i \in ((from + 1)..Len(S)) \ bad :
          /\ (from + 1)..(i - 1) \subseteq bad
          /\ a.p.ready = TRUE /\ a.used = at[i]
          /\ a.p.type_ = S[i].type /\ a.p.payload_ = S[i].payload

LEMMA LineScanned ==
    ASSUME NEW p \in Parsers, Waiting(p),
           NEW r \in Seq(Byte), NEW S \in Seq(Frames),
           NEW at, NEW from, NEW bad, Layout(r, S, at, from, bad)
    PROVE  FirstWhole(Parse(p, r), S, at, from, bad)
<1> SUFFICES
       \/ /\ bad = (from + 1)..Len(S)
          /\ Parse(p, r).p \in Parsers /\ Waiting(Parse(p, r).p)
       \/ \E i \in ((from + 1)..Len(S)) \ bad :
             /\ (from + 1)..(i - 1) \subseteq bad
             /\ Parse(p, r).p.ready = TRUE /\ Parse(p, r).used = at[i]
             /\ Parse(p, r).p.type_ = S[i].type
             /\ Parse(p, r).p.payload_ = S[i].payload
    BY DEF FirstWhole
<1>1. PICK g : /\ Scan(g, r) /\ g[0] = [p |-> p, used |-> 0]
               /\ Parse(p, r) = g[Len(r)]
    BY ParseRounds
<1>2. /\ Len(S) \in Nat /\ Len(r) \in Nat /\ from \in Nat /\ from <= Len(S)
      /\ from \in from..Len(S) /\ at[from] = 0 /\ at[Len(S)] = Len(r)
      /\ bad \subseteq (from + 1)..Len(S)
      /\ \A i \in from..Len(S) : at[i] \in Nat /\ at[i] <= Len(r)
  <2>1. /\ Len(S) \in Nat /\ Len(r) \in Nat /\ from \in Nat
        /\ from <= Len(S) /\ at[from] = 0 /\ at[Len(S)] = Len(r)
        /\ bad \subseteq (from + 1)..Len(S)
        /\ \A i \in from..Len(S) : at[i] \in Nat /\ at[i] <= Len(r)
      BY LayoutBounds
  <2>. QED
      BY <2>1
<1>3. ASSUME NEW i \in (from + 1)..Len(S)
      PROVE  /\ S[i] \in Frames /\ at[i - 1] \in Nat
             /\ at[i] = at[i - 1] + Span(S[i]) /\ at[i] <= Len(r)
             /\ i \in bad => Turned(r, at[i - 1], S[i])
             /\ i \notin bad => Whole(r, at[i - 1], S[i])
    BY LayoutFrame
<1> DEFINE I == {k \in Nat : from + k <= Len(S)
                                /\ (from + 1)..(from + k) \subseteq bad
                             => Waiting(g[at[from + k]].p)}
<1>4. 0 \in I
  <2>1. g[at[from + 0]] = [p |-> p, used |-> 0]
      BY <1>1, <1>2
  <2>. QED
      BY <2>1
<1>5. ASSUME NEW k \in I
      PROVE  k + 1 \in I
  <2> SUFFICES ASSUME from + (k + 1) <= Len(S),
                      (from + 1)..(from + (k + 1)) \subseteq bad
               PROVE  Waiting(g[at[from + (k + 1)]].p)
      BY <1>5
  <2> DEFINE i == from + (k + 1)
  <2>1. /\ k \in Nat /\ i \in (from + 1)..Len(S) /\ i - 1 = from + k
        /\ from + k <= Len(S) /\ i \in (from + 1)..(from + (k + 1))
        /\ (from + 1)..(from + k) \subseteq (from + 1)..(from + (k + 1))
      BY <1>2
  <2>2. Waiting(g[at[i - 1]].p) /\ i \in bad
      BY <1>5, <2>1
  <2> HIDE DEF i, I
  <2>3. Waiting(g[at[i - 1] + Span(S[i])].p)
      BY <1>1, <1>3, <2>1, <2>2, TurnedScanned
  <2>4. Waiting(g[at[i]].p)
      BY <1>3, <2>1, <2>3
  <2>. QED
      BY <2>4 DEF i
<1>6. \A k \in Nat : k \in I
  <2>1. I \in SUBSET Nat
      OBVIOUS
  <2> HIDE DEF I
  <2>. QED
      BY <1>4, <1>5, <2>1, InductionOnSet
<1>7. CASE bad = (from + 1)..Len(S)
  <2> DEFINE k == Len(S) - from
  <2>1. k \in Nat /\ from + k = Len(S)
      BY <1>2
  <2>2. k \in I
      BY <1>6, <2>1
  <2>3. Waiting(g[Len(r)].p)
      BY <1>2, <1>7, <2>1, <2>2
  <2>4. g[Len(r)].p \in Parsers
    <3>1. g[Len(r)] \in Feeding
        BY <1>1, <1>2 DEF Scan
    <3>. QED
        BY <3>1 DEF Feeding
  <2>. QED
      BY <1>1, <1>7, <2>3, <2>4
<1>8. CASE bad # (from + 1)..Len(S)
  <2> DEFINE Good == ((from + 1)..Len(S)) \ bad
  <2>1. Good \in SUBSET Nat /\ Good # {}
    <3>1. (from + 1)..Len(S) \subseteq Nat
        BY <1>2
    <3> HIDE DEF I
    <3>. QED
        BY <1>2, <1>8, <3>1, Zenon
  <2>2. PICK i \in Good : \A j \in Good : i <= j
      BY <2>1, SmallestOf
  <2>3. /\ i \in (from + 1)..Len(S) /\ i \notin bad /\ i \in Nat
        /\ (from + 1)..(i - 1) \subseteq bad
      BY <1>2, <2>2
  <2> HIDE DEF Good
  <2>4. Waiting(g[at[i - 1]].p)
    <3> DEFINE k == i - 1 - from
    <3>1. k \in Nat /\ from + k = i - 1 /\ from + k <= Len(S)
        BY <1>2, <2>3
    <3>2. k \in I
        BY <1>6, <3>1
    <3> HIDE DEF k
    <3>. QED
        BY <2>3, <3>1, <3>2
  <2> DEFINE a == g[at[i - 1] + Span(S[i])]
  <2>5. /\ a.p.ready = TRUE /\ a.used = at[i - 1] + Span(S[i])
        /\ a.p.type_ = S[i].type /\ a.p.payload_ = S[i].payload
    <3> DEFINE f == S[i]
               b == at[i - 1]
    <3>1. /\ f \in Frames /\ b \in Nat /\ b + Span(f) <= Len(r)
          /\ Whole(r, b, f) /\ Waiting(g[b].p)
        BY <1>3, <2>3, <2>4
    <3> HIDE DEF f, b, a
    <3>2. LET c == g[b + Span(f)]
          IN /\ c.p.ready = TRUE /\ c.used = b + Span(f)
             /\ c.p.type_ = f.type /\ c.p.payload_ = f.payload
        BY <1>1, <3>1, WholeScanned
    <3>. QED
        BY <3>2 DEF a, b, f
  <2>6. a = g[at[i]] /\ at[i] = at[i - 1] + Span(S[i])
      BY <1>3, <2>3
  <2>7. at[i] \in 0..Len(r)
      BY <1>2, <1>3, <2>3
  <2> HIDE DEF a
  <2>8. g[Len(r)] = a
      BY <1>1, <2>5, <2>6, <2>7, ReadyStays
  <2>. QED
      BY <1>1, <2>3, <2>5, <2>6, <2>8
<1>. QED
    BY <1>7, <1>8

(* Where a frame lies does not depend on what lies around it.              *)
LEMMA SlotMoves ==
    ASSUME NEW r, NEW q, NEW b, NEW c, NEW f,
           \A k \in 1..Span(f) : r[b + k] = q[c + k]
    PROVE  /\ Whole(r, b, f) => Whole(q, c, f)
           /\ Turned(r, b, f) => Turned(q, c, f)
<1>1. Whole(r, b, f) => Whole(q, c, f)
    BY DEF Whole
<1>2. ASSUME Turned(r, b, f)
      PROVE  Turned(q, c, f)
  <2>1. PICK j \in 1..Span(f) :
            /\ j # 1 /\ j # 3 /\ r[b + j] # FrameOf(f)[j]
            /\ \A k \in 1..Span(f) : k # j => r[b + k] = FrameOf(f)[k]
      BY <1>2 DEF Turned
  <2> HIDE DEF FrameOf, Span
  <2>2. q[c + j] # FrameOf(f)[j]
      BY <2>1
  <2>3. \A k \in 1..Span(f) : k # j => q[c + k] = FrameOf(f)[k]
      BY <2>1
  <2>. QED
      BY <2>1, <2>2, <2>3 DEF Turned
<1>. QED
    BY <1>1, <1>2

LEMMA LayoutEmpty ==
    ASSUME NEW S, Len(S) \in Nat
    PROVE  Layout(<<>>, S, [i \in Len(S)..Len(S) |-> 0], Len(S), {})
    BY DEF Layout

(* The first frames are taken off the line.                                *)
LEMMA LayoutDrops ==
    ASSUME NEW r \in Seq(Byte), NEW S \in Seq(Frames),
           NEW at, NEW from, NEW bad, Layout(r, S, at, from, bad),
           NEW i0 \in (from + 1)..Len(S)
    PROVE  Layout(SubSeq(r, at[i0] + 1, Len(r)), S,
                  [i \in i0..Len(S) |-> at[i] - at[i0]], i0,
                  bad \cap ((i0 + 1)..Len(S)))
<1> DEFINE q   == SubSeq(r, at[i0] + 1, Len(r))
           to  == [i \in i0..Len(S) |-> at[i] - at[i0]]
           few == bad \cap ((i0 + 1)..Len(S))
<1>1. /\ Len(S) \in Nat /\ Len(r) \in Nat /\ from \in Nat /\ i0 \in Nat
      /\ i0 <= Len(S) /\ from < i0
      /\ at[Len(S)] = Len(r)
      /\ \A i \in from..Len(S) : at[i] \in Nat /\ at[i] <= Len(r)
      /\ i0 \in from..Len(S)
    BY LayoutBounds
<1>2. /\ Len(q) = Len(r) - at[i0] /\ Len(q) \in Nat
      /\ \A k \in 1..Len(q) : q[k] = r[at[i0] + k]
  <2> DEFINE a == at[i0]
  <2>1. a \in Nat /\ a <= Len(r) /\ Len(r) \in Nat
      BY <1>1
  <2> HIDE DEF a
  <2>2. /\ Len(SubSeq(r, a + 1, Len(r))) = Len(r) - a
        /\ \A k \in 1..(Len(r) - a) : SubSeq(r, a + 1, Len(r))[k] = r[a + k]
    <3>1. /\ a + 1 \in 1..(Len(r) + 1) /\ Len(r) \in 0..Len(r)
          /\ Len(r) - (a + 1) + 1 = Len(r) - a
          /\ (a + 1 <= Len(r) => Len(r) - a >= 1)
        BY <2>1
    <3>2. \A k \in 1..(Len(r) - a) : (a + 1) + k - 1 = a + k
        BY <2>1
    <3>3. CASE a + 1 <= Len(r)
        BY <2>1, <3>1, <3>2, <3>3, SubSeqProperties
    <3>4. CASE ~(a + 1 <= Len(r))
      <4>1. a = Len(r)
          BY <2>1, <3>4
      <4>. QED
          BY <2>1, <4>1
    <3>. QED
        BY <3>3, <3>4
  <2>3. q = SubSeq(r, a + 1, Len(r)) /\ at[i0] = a
      BY DEF a
  <2>4. Len(r) - a \in Nat
      BY <2>1
  <2> HIDE DEF q
  <2>. QED
      BY <2>2, <2>3, <2>4
<1> HIDE DEF q
<1>3. ASSUME NEW i \in i0..Len(S)
      PROVE  /\ i \in from..Len(S) /\ i \in Nat
             /\ at[i] >= at[i0] /\ at[i] \in Nat /\ at[i0] \in Nat
             /\ to[i] = at[i] - at[i0] /\ to[i] \in 0..Len(q)
  <2>1. i \in from..Len(S) /\ i \in Nat /\ i0 <= i
      BY <1>1
  <2>2. at[i0] <= at[i]
    <3>1. \A j, k \in from..Len(S) : j <= k => at[j] <= at[k]
        BY Zenon DEF Layout
    <3>. QED
        BY <1>1, <2>1, <3>1
  <2>3. to[i] = at[i] - at[i0]
      OBVIOUS
  <2> HIDE DEF to
  <2>4. /\ at[i] \in Nat /\ at[i0] \in Nat /\ at[i] <= Len(r)
        /\ Len(r) \in Nat /\ Len(q) \in Nat /\ Len(q) = Len(r) - at[i0]
      BY <1>1, <1>2, <2>1
  <2>. QED
      BY <2>1, <2>2, <2>3, <2>4
<1>4. to \in [i0..Len(S) -> 0..Len(q)]
    BY <1>3
<1> HIDE DEF to
<1>5. to[i0] = 0 /\ to[Len(S)] = Len(q)
  <2>1. i0 \in i0..Len(S) /\ Len(S) \in i0..Len(S)
      BY <1>1
  <2>2. /\ to[i0] = at[i0] - at[i0] /\ to[Len(S)] = at[Len(S)] - at[i0]
        /\ at[i0] \in Nat
      BY <1>3, <2>1
  <2>. QED
      BY <1>1, <1>2, <2>2
<1>6. ASSUME NEW i \in i0..Len(S), NEW j \in i0..Len(S), i <= j
      PROVE  to[i] <= to[j]
  <2>1. at[i] <= at[j]
    <3>1. \A k, m \in from..Len(S) : k <= m => at[k] <= at[m]
        BY Zenon DEF Layout
    <3>. QED
        BY <1>3, <1>6, <3>1
  <2>. QED
      BY <1>3, <2>1
<1>7. ASSUME NEW i \in (i0 + 1)..Len(S)
      PROVE  /\ to[i] = to[i - 1] + Span(S[i])
             /\ i \in few => Turned(q, to[i - 1], S[i])
             /\ i \notin few => Whole(q, to[i - 1], S[i])
  <2>1. /\ i \in i0..Len(S) /\ i - 1 \in i0..Len(S)
        /\ i \in (from + 1)..Len(S) /\ i \in 1..Len(S)
      BY <1>1
  <2> DEFINE s == Span(S[i])
             b == at[i - 1]
             c == to[i - 1]
             a == at[i0]
  <2>2. /\ s \in Nat /\ at[i] = b + s
        /\ i \in bad => Turned(r, b, S[i])
        /\ i \notin bad => Whole(r, b, S[i])
      BY <2>1, LayoutFrame
  <2>3. /\ b \in Nat /\ a \in Nat /\ b >= a /\ c = b - a
        /\ to[i] = at[i] - a /\ to[i] \in 0..Len(q) /\ c \in 0..Len(q)
      BY <1>3, <2>1
  <2>4. i \in few <=> i \in bad
      OBVIOUS
  <2> HIDE DEF s, b, c, a
  <2>5. to[i] = c + s
      BY <2>2, <2>3
  <2>6. ASSUME NEW k \in 1..s
        PROVE  r[b + k] = q[c + k]
    <3>1. c + k \in 1..Len(q) /\ a + (c + k) = b + k
        BY <1>2, <2>2, <2>3, <2>5
    <3>2. q[c + k] = r[a + (c + k)]
        BY <1>2, <3>1 DEF a
    <3>. QED
        BY <3>1, <3>2
  <2>7. /\ Whole(r, b, S[i]) => Whole(q, c, S[i])
        /\ Turned(r, b, S[i]) => Turned(q, c, S[i])
      BY <2>6, SlotMoves DEF s
  <2>. QED
      BY <2>2, <2>4, <2>5, <2>7 DEF s, c
<1>8. i0 \in 0..Len(S) /\ few \subseteq (i0 + 1)..Len(S)
    BY <1>1
<1> HIDE DEF few
<1>9. Layout(q, S, to, i0, few)
    BY <1>4, <1>5, <1>6, <1>7, <1>8 DEF Layout
<1>. QED
    BY <1>9 DEF q, to, few

(* One more frame is put on it, whole or with a byte turned.               *)
LEMMA LayoutGrows ==
    ASSUME NEW r \in Seq(Byte), NEW S \in Seq(Frames),
           NEW at, NEW from, NEW bad, Layout(r, S, at, from, bad),
           NEW f \in Frames, NEW bytes \in Seq(Byte), Len(bytes) = Span(f),
           NEW more \in {{}, {Len(S) + 1}},
           more = {} => Whole(bytes, 0, f), more # {} => Turned(bytes, 0, f)
    PROVE  \E to : Layout(r \o bytes, Append(S, f), to, from, bad \cup more)
<1> DEFINE q  == r \o bytes
           T  == Append(S, f)
           n  == Len(S)
           to == [i \in from..(n + 1) |->
                    IF i <= n THEN at[i] ELSE Len(r) + Span(f)]
<1>1. /\ n \in Nat /\ Len(r) \in Nat /\ from \in Nat /\ from <= n
      /\ at[from] = 0 /\ at[n] = Len(r) /\ bad \subseteq (from + 1)..n
      /\ \A i \in from..n : at[i] \in Nat /\ at[i] <= Len(r)
      /\ Span(f) \in Nat
    BY FrameFields, LayoutBounds
<1>2. /\ Len(T) = n + 1 /\ T[n + 1] = f /\ \A i \in 1..n : T[i] = S[i]
    OBVIOUS
<1>3. /\ Len(q) = Len(r) + Span(f)
      /\ \A k \in 1..Len(r) : q[k] = r[k]
      /\ \A k \in 1..Span(f) : q[Len(r) + k] = bytes[k]
  <2>1. Len(q) = Len(r) + Span(f)
      BY SMTT(30), <1>1
  <2>2. \A k \in 1..Len(r) : q[k] = r[k]
      BY <1>1
  <2>3. \A k \in 1..Len(bytes) : q[Len(r) + k] = bytes[k]
      BY <1>1
  <2>. QED
      BY <2>1, <2>2, <2>3
<1>4. /\ \A i \in from..n : to[i] = at[i]
      /\ to[n + 1] = Len(r) + Span(f)
      /\ from..(n + 1) = (from..n) \cup {n + 1}
  <2>1. from..(n + 1) = (from..n) \cup {n + 1} /\ n + 1 \in from..(n + 1)
      BY <1>1
  <2>2. to[n + 1] = Len(r) + Span(f)
      BY <1>1, <2>1
  <2>3. \A i \in from..n : to[i] = at[i]
      BY <1>1
  <2>. QED
      BY <2>1, <2>2, <2>3
<1>5. to = [i \in from..(n + 1) |-> to[i]]
    OBVIOUS
<1> HIDE DEF q, T, to
<1>6. ASSUME NEW i \in from..(n + 1)
      PROVE  to[i] \in 0..Len(q)
  <2>1. CASE i \in from..n
    <3>1. at[i] \in Nat /\ at[i] <= Len(r) /\ to[i] = at[i]
        BY <1>1, <1>4, <2>1
    <3>. QED
        BY <1>1, <1>3, <3>1
  <2>2. CASE i = n + 1
      BY <1>1, <1>3, <1>4, <2>2
  <2>. QED
      BY <1>4, <2>1, <2>2
<1>7. to \in [from..(n + 1) -> 0..Len(q)]
    BY <1>5, <1>6
<1>8. to[from] = 0 /\ to[n + 1] = Len(q)
    BY <1>1, <1>3, <1>4
<1>9. ASSUME NEW i \in from..(n + 1), NEW j \in from..(n + 1), i <= j
      PROVE  to[i] <= to[j]
  <2>1. CASE j = n + 1
      BY <1>1, <1>3, <1>4, <1>6, <1>8, <2>1
  <2>2. CASE j # n + 1
    <3>1. i \in from..n /\ j \in from..n
        BY <1>1, <1>9, <2>2
    <3>2. at[i] <= at[j]
      <4>1. \A k, m \in from..n : k <= m => at[k] <= at[m]
          BY Zenon DEF Layout
      <4>. QED
          BY <1>9, <3>1, <4>1
    <3>. QED
        BY <1>4, <3>1, <3>2
  <2>. QED
      BY <2>1, <2>2
<1>10. ASSUME NEW i \in (from + 1)..(n + 1)
       PROVE  /\ to[i] = to[i - 1] + Span(T[i])
              /\ i \in bad \cup more => Turned(q, to[i - 1], T[i])
              /\ i \notin bad \cup more => Whole(q, to[i - 1], T[i])
  <2>1. CASE i = n + 1
    <3>1. /\ i - 1 = n /\ n \in from..n /\ i \notin bad
          /\ (i \in more <=> more # {})
        BY <1>1, <2>1
    <3>2. to[i - 1] = Len(r) /\ T[i] = f
        BY <1>1, <1>2, <1>4, <2>1, <3>1
    <3>3. \A k \in 1..Span(f) : bytes[0 + k] = q[Len(r) + k]
        BY <1>1, <1>3
    <3>4. /\ Whole(bytes, 0, f) => Whole(q, Len(r), f)
          /\ Turned(bytes, 0, f) => Turned(q, Len(r), f)
        BY <3>3, SlotMoves
    <3>. QED
        BY <1>4, <2>1, <3>1, <3>2, <3>4
  <2>2. CASE i # n + 1
    <3>1. /\ i \in (from + 1)..n /\ i \in from..n /\ i - 1 \in from..n
          /\ i \in 1..n /\ i \notin more
        BY SMTT(30), <1>1, <2>2
    <3>2. /\ T[i] = S[i] /\ to[i] = at[i] /\ to[i - 1] = at[i - 1]
          /\ S[i] \in Frames
        BY <1>2, <1>4, <3>1
    <3> DEFINE s == Span(S[i])
               b == at[i - 1]
    <3>3. /\ at[i] = b + s /\ s \in Nat /\ b \in Nat /\ at[i] <= Len(r)
          /\ i \in bad => Turned(r, b, S[i])
          /\ i \notin bad => Whole(r, b, S[i])
        BY <3>1, LayoutFrame
    <3> HIDE DEF s, b
    <3>4. ASSUME NEW k \in 1..s
          PROVE  r[b + k] = q[b + k]
      <4>1. b + k \in 1..Len(r)
          BY <1>1, <3>3
      <4>. QED
          BY <1>3, <4>1
    <3>5. /\ Whole(r, b, S[i]) => Whole(q, b, S[i])
          /\ Turned(r, b, S[i]) => Turned(q, b, S[i])
        BY <3>4, SlotMoves DEF s
    <3>. QED
        BY <3>1, <3>2, <3>3, <3>5 DEF s, b
  <2>. QED
      BY <2>1, <2>2, Zenon
<1>11. from \in 0..(n + 1) /\ bad \cup more \subseteq (from + 1)..(n + 1)
  <2>1. /\ (from + 1)..n \subseteq (from + 1)..(n + 1)
        /\ n + 1 \in (from + 1)..(n + 1) /\ from \in 0..(n + 1)
      BY <1>1
  <2>2. more \subseteq {n + 1}
      OBVIOUS
  <2> HIDE DEF n
  <2>. QED
      BY <1>1, <2>1, <2>2
<1>12. Layout(q, T, to, from, bad \cup more)
    BY <1>2, <1>7, <1>8, <1>9, <1>10, <1>11 DEF Layout
<1>. QED
    BY <1>12 DEF q, T

-----------------------------------------------------------------------------
(* What is in the buffers, whatever happens on the line.                   *)

(* What the S3 sends: a command, or a chunk with its header.               *)
Proper == {f \in Frames : \/ f.type = CONTROL_CMD /\ Len(f.payload) = 1
                          \/ f.type = IMAGE_CHUNK /\ Len(f.payload) >= 2}

Assemblies == {m \in [buf : Seq(Byte), total : 0..MaxTotal, seq : Nat,
                      live : BOOLEAN] : Len(m.buf) <= m.total}

(* The camera task: a request is asked for before its picture is taken,    *)
(* and a chunk starts where the one before it ended.                       *)
CameraTyped ==
    /\ notified \in BOOLEAN /\ camTask \in {"wait", "capture", "send"}
    /\ picture \in Seq(Byte) /\ Len(picture) <= 255 /\ off \in 0..Len(picture)
    /\ off = 0 \/ off >= MAX_PAYLOAD - 3
    /\ IF camTask = "send" THEN off < Len(picture) ELSE off = 0
    /\ requests \in 0..MaxRequests /\ taken \in 0..requests
    /\ notified \/ camTask = "capture" => taken + 1 <= requests
    /\ notified /\ camTask = "capture" => taken + 2 <= requests
    /\ commands \in 0..MaxCommands

LineTyped ==
    /\ ring \in Seq(Byte) /\ Len(ring) <= RingSize
    /\ faults \in 0..MaxFaults /\ shifted \in BOOLEAN
    /\ sent \in Seq(Proper)

ReceiverTyped ==
    /\ parser \in Parsers /\ parser.ready = FALSE
    /\ streaming \in BOOLEAN /\ img \in Assemblies
    /\ handled \in Seq(Frames)

WireTyped == CameraTyped /\ LineTyped /\ ReceiverTyped

LEMMA ProperAreFrames ==
    Proper \subseteq Frames /\ Seq(Proper) \subseteq Seq(Frames)
<1>1. Proper \subseteq Frames
    BY DEF Proper
<1> HIDE DEF Proper
<1>. QED
    BY <1>1

(* A write puts the frame on the line as it is, or at the cost of a fault. *)
WriteWhole(f) ==
    /\ faults' = faults /\ shifted' = shifted
    /\ ring' = ring \o FrameOf(f)
WriteDamaged(f) ==
    /\ faults' = faults + 1
    /\ \/ shifted' = TRUE
       \/ /\ shifted' = shifted
          /\ \E bytes \in Seq(Byte) : /\ Len(bytes) = Span(f)
                                      /\ Turned(bytes, 0, f)
                                      /\ ring' = ring \o bytes

LEMMA WriteLeaves ==
    ASSUME LineTyped,
           NEW type, NEW payload,
           [type |-> type, payload |-> payload] \in Proper,
           uart_write_bytes(type, payload)
    PROVE  LET f == [type |-> type, payload |-> payload]
           IN /\ LineTyped' /\ sent' = Append(sent, f)
              /\ WriteWhole(f) \/ WriteDamaged(f)
<1> DEFINE f == [type |-> type, payload |-> payload]
           frame == FrameOf(f)
           Arrive(bytes) ==
              /\ ring' = ring \o bytes
              /\ shifted' = (\/ shifted \/ Len(bytes) # Len(frame)
                             \/ bytes[1] # frame[1] \/ bytes[3] # frame[3])
<1>1. /\ ring \in Seq(Byte) /\ Len(ring) \in Nat /\ Len(ring) <= RingSize
      /\ RingSize \in Nat /\ Room \in Nat
      /\ faults \in 0..MaxFaults /\ MaxFaults \in Nat
      /\ shifted \in BOOLEAN /\ sent \in Seq(Proper)
    BY ByteAssumption DEF LineTyped, Room
<1>2. /\ frame \in Seq(Byte) /\ Len(frame) = Span(f) /\ Len(frame) >= 4
      /\ Len(frame) \in Nat
  <2>1. f \in Frames
      BY ProperAreFrames
  <2> HIDE DEF f
  <2>. QED
      BY <2>1, FrameFields
<1>3. /\ sent' = Append(sent, f)
      /\ \/ Len(frame) <= Room /\ Arrive(frame) /\ faults' = faults
         \/ /\ faults < MaxFaults /\ faults' = faults + 1
            /\ IF Len(frame) > Room THEN Arrive(SubSeq(frame, 1, Room))
               ELSE \E bytes \in Damaged(frame) : Arrive(bytes)
  <2>1. frame = buildFrame(type, payload)
      BY DEF FrameOf
  <2> HIDE DEF frame
  <2>2. /\ sent' = Append(sent, f)
        /\ \/ Len(frame) <= Room /\ Arrive(frame) /\ UNCHANGED faults
           \/ /\ faults < MaxFaults /\ faults' = faults + 1
              /\ IF Len(frame) > Room THEN Arrive(SubSeq(frame, 1, Room))
                 ELSE \E bytes \in Damaged(frame) : Arrive(bytes)
      BY <2>1, ZenonT(40) DEF uart_write_bytes
  <2> HIDE DEF f, Arrive
  <2>. QED
      BY <2>2
<1>4. sent' \in Seq(Proper)
    BY <1>1, <1>3
<1> HIDE DEF f, frame
<1>5. ASSUME NEW bytes \in Seq(Byte), Len(bytes) <= Room, Arrive(bytes)
      PROVE  /\ ring' \in Seq(Byte) /\ Len(ring') <= RingSize
             /\ shifted' \in BOOLEAN
  <2>1. ring' = ring \o bytes /\ shifted' \in BOOLEAN
      BY <1>5
  <2> HIDE DEF Arrive
  <2>2. /\ ring \o bytes \in Seq(Byte)
        /\ Len(ring \o bytes) = Len(ring) + Len(bytes)
      BY <1>1
  <2>3. Len(bytes) \in Nat
      OBVIOUS
  <2>. QED
      BY <1>1, <1>5, <2>1, <2>2, <2>3 DEF Room
<1>6. CASE Len(frame) <= Room /\ Arrive(frame) /\ faults' = faults
  <2>1. LineTyped'
      BY <1>1, <1>2, <1>4, <1>5, <1>6 DEF LineTyped
  <2>2. shifted' = shifted
      BY <1>1, <1>6
  <2>. QED
      BY <1>3, <1>6, <2>1, <2>2 DEF WriteWhole, f, frame
<1>7. CASE /\ faults < MaxFaults /\ faults' = faults + 1
           /\ IF Len(frame) > Room THEN Arrive(SubSeq(frame, 1, Room))
              ELSE \E bytes \in Damaged(frame) : Arrive(bytes)
  <2>1. \E bytes \in Seq(Byte) :
           /\ Len(bytes) <= Room /\ Arrive(bytes)
           /\ \/ shifted' = TRUE
              \/ /\ Len(bytes) = Span(f) /\ Turned(bytes, 0, f)
                 /\ shifted' = shifted
    <3>1. CASE Len(frame) > Room
      <4> DEFINE bytes == SubSeq(frame, 1, Room)
      <4>1. bytes \in Seq(Byte) /\ Len(bytes) = Room
          BY <1>1, <1>2, <3>1
      <4>2. Arrive(bytes) /\ Len(bytes) # Len(frame)
        <5> HIDE DEF Arrive
        <5>1. Arrive(bytes)
            BY <1>7, <3>1
        <5>. QED
            BY <1>1, <1>2, <3>1, <4>1, <5>1
      <4> HIDE DEF bytes
      <4>3. shifted' = TRUE
          BY <4>2
      <4>4. Len(bytes) <= Room
          BY <1>1, <4>1
      <4> HIDE DEF Arrive
      <4>. QED
          BY <4>1, <4>2, <4>3, <4>4
    <3>2. CASE ~(Len(frame) > Room)
      <4>1. PICK bytes \in Damaged(frame) : Arrive(bytes)
          BY <1>7, <3>2
      <4>2. \/ \E i \in DOMAIN frame : bytes = RemoveAt(frame, i)
            \/ \E i \in DOMAIN frame : \E bit \in {1, 128} :
                  bytes = [frame EXCEPT ![i] = xor(frame[i], bit)]
          BY DEF Damaged
      <4>3. CASE \E i \in DOMAIN frame : bytes = RemoveAt(frame, i)
        <5>1. PICK i \in 1..Len(frame) : bytes = RemoveAt(frame, i)
            BY <1>2, <4>3
        <5>2. /\ bytes = SubSeq(frame, 1, i - 1)
                            \o SubSeq(frame, i + 1, Len(frame))
              /\ i \in Nat /\ 1 <= i /\ i <= Len(frame)
            BY <1>2, <5>1 DEF RemoveAt
        <5>3. /\ SubSeq(frame, 1, i - 1) \in Seq(Byte)
              /\ Len(SubSeq(frame, 1, i - 1)) = i - 1
              /\ SubSeq(frame, i + 1, Len(frame)) \in Seq(Byte)
              /\ Len(SubSeq(frame, i + 1, Len(frame))) = Len(frame) - i
            BY <1>2, <5>2
        <5>4. bytes \in Seq(Byte) /\ Len(bytes) = Len(frame) - 1
          <6> DEFINE a == SubSeq(frame, 1, i - 1)
                     c == SubSeq(frame, i + 1, Len(frame))
          <6>1. /\ a \in Seq(Byte) /\ Len(a) = i - 1
                /\ c \in Seq(Byte) /\ Len(c) = Len(frame) - i
                /\ bytes = a \o c
              BY <5>2, <5>3
          <6> HIDE DEF a, c
          <6>2. a \o c \in Seq(Byte) /\ Len(a \o c) = Len(a) + Len(c)
              BY SMTT(30), <6>1
          <6>. QED
              BY SMTT(30), <1>2, <5>2, <6>1, <6>2
        <5> HIDE DEF Arrive
        <5>5. Len(bytes) <= Room /\ Len(bytes) # Len(frame)
            BY <1>1, <1>2, <3>2, <5>4
        <5>6. shifted' = TRUE
            BY <4>1, <5>5 DEF Arrive
        <5>. QED
            BY <4>1, <5>4, <5>5, <5>6
      <4>4. CASE \E i \in DOMAIN frame : \E bit \in {1, 128} :
                    bytes = [frame EXCEPT ![i] = xor(frame[i], bit)]
        <5>0. PICK i \in DOMAIN frame, bit \in {1, 128} :
                 bytes = [frame EXCEPT ![i] = xor(frame[i], bit)]
            BY <4>4, Zenon
        <5>1. /\ i \in 1..Len(frame)
              /\ bytes = [frame EXCEPT ![i] = xor(frame[i], bit)]
            BY <1>2, <5>0
        <5>2. xor(frame[i], bit) \in Byte /\ xor(frame[i], bit) # frame[i]
          <6>1. frame[i] \in Byte
              BY <1>2
          <6>. QED
              BY <6>1, XorTurns
        <5>3. /\ bytes \in Seq(Byte) /\ Len(bytes) = Len(frame)
              /\ bytes[i] # frame[i]
              /\ \A k \in 1..Len(frame) : k # i => bytes[k] = frame[k]
            BY <1>2, <5>1, <5>2
        <5>4. Len(bytes) <= Room
            BY <1>1, <1>2, <3>2, <5>3
        <5>5. CASE i = 1 \/ i = 3
          <6>1. bytes[1] # frame[1] \/ bytes[3] # frame[3]
              BY <5>3, <5>5
          <6>2. shifted' = TRUE
              BY <4>1, <6>1
          <6> HIDE DEF Arrive
          <6>. QED
              BY <4>1, <5>3, <5>4, <6>2
        <5>6. CASE i # 1 /\ i # 3
          <6>1. /\ bytes[1] = frame[1] /\ bytes[3] = frame[3]
              BY <1>2, <5>3, <5>6
          <6>2. shifted' = shifted
              BY <1>1, <4>1, <5>3, <6>1
          <6>3. Turned(bytes, 0, f)
            <7>1. \A k \in 1..Len(frame) : 0 + k = k
                BY <1>2
            <7>. QED
                BY <1>2, <5>3, <5>6, <7>1 DEF Turned, frame
          <6> HIDE DEF Arrive
          <6>. QED
              BY <1>2, <4>1, <5>3, <5>4, <6>2, <6>3
        <5>. QED
            BY <5>5, <5>6
      <4>. QED
          BY <4>2, <4>3, <4>4
    <3>. QED
        BY <3>1, <3>2
  <2>2. PICK bytes \in Seq(Byte) :
           /\ Len(bytes) <= Room /\ Arrive(bytes)
           /\ \/ shifted' = TRUE
              \/ /\ Len(bytes) = Span(f) /\ Turned(bytes, 0, f)
                 /\ shifted' = shifted
      BY <2>1
  <2>3. ring' \in Seq(Byte) /\ Len(ring') <= RingSize /\ shifted' \in BOOLEAN
      BY <1>5, <2>2
  <2>4. ring' = ring \o bytes
      BY <2>2
  <2> HIDE DEF Arrive
  <2>5. LineTyped'
      BY <1>1, <1>4, <1>7, <2>3 DEF LineTyped
  <2>6. WriteDamaged(f)
      BY <1>7, <2>2, <2>4 DEF WriteDamaged
  <2>. QED
      BY <1>3, <2>5, <2>6 DEF f
<1>. QED
    BY <1>3, <1>6, <1>7

(* What the parser hands up fits its buffer.                               *)
LEMMA ParsedTyped ==
    ASSUME NEW p \in Parsers, NEW r \in Seq(Byte)
    PROVE  Parse(p, r).p \in Parsers /\ Parse(p, r).used \in Nat
<1>1. PICK g : Scan(g, r) /\ Parse(p, r) = g[Len(r)]
    BY ParseRounds
<1>2. g[Len(r)] \in Feeding
  <2>1. Len(r) \in 0..Len(r)
      OBVIOUS
  <2>. QED
      BY <1>1, <2>1 DEF Scan
<1>. QED
    BY <1>1, <1>2 DEF Feeding

LEMMA ParserFieldsTyped ==
    ASSUME NEW p \in Parsers
    PROVE  /\ [type |-> p.type_, payload |-> p.payload_] \in Frames
           /\ p.type_ \in Byte /\ p.len_ \in Byte
           /\ p.payload_ \in Seq(Byte)
           /\ Len(p.payload_) <= MAX_PAYLOAD
           /\ p.state_ \in {"WAIT_START", "WAIT_TYPE", "WAIT_LEN", "PAYLOAD",
                            "WAIT_CRC"}
    BY DEF Parsers, ParserFields, WithinBuffer, Frames

LEMMA FreshTyped ==
    Fresh \in Parsers /\ Fresh.ready = FALSE /\ Waiting(Fresh)
<1>1. MAX_PAYLOAD \in Nat
    BY MaxPayloadAssumption
<1>. QED
    BY <1>1 DEF Fresh, Parsers, ParserFields, WithinBuffer, Byte, Waiting

LEMMA MinOfTwo ==
    ASSUME NEW a \in Int, NEW b \in Int
    PROVE  /\ Min({a, b}) \in {a, b}
           /\ Min({a, b}) <= a /\ Min({a, b}) <= b
<1>1. \E x \in {a, b} : \A y \in {a, b} : x <= y
    BY SMT
<1>2. Min({a, b}) = CHOOSE x \in {a, b} : \A y \in {a, b} : x <= y
    BY DEF Min
<1>. QED
    BY <1>1, <1>2

LEMMA ConcatTyped ==
    ASSUME NEW S, NEW s \in Seq(S), NEW t \in Seq(S)
    PROVE  /\ s \o t \in Seq(S) /\ Len(s) \in Nat /\ Len(t) \in Nat
           /\ Len(s \o t) = Len(s) + Len(t)
    BY ConcatProperties

LEMMA QuotientBounded ==
    ASSUME NEW x \in Nat, NEW y \in Nat, y >= 1
    PROVE  x \div y \in Nat /\ x \div y <= x
    BY SMTT(30)

(* What sendImage puts into a chunk, and where it goes on.                 *)
LEMMA ChunkSent ==
    ASSUME CameraTyped, sendImage
    PROVE  /\ \E payload : /\ [type |-> IMAGE_CHUNK, payload |-> payload]
                                 \in Proper
                           /\ uart_write_bytes(IMAGE_CHUNK, payload)
           /\ CameraTyped'
<1> DEFINE L     == Len(picture)
           first == off = 0
           head  == IF first THEN <<L>> ELSE <<>>
           room  == MAX_PAYLOAD - CHUNK_HDR - Len(head)
           n     == Min({L - off, room})
           last  == off + n >= L
           later == MAX_PAYLOAD - CHUNK_HDR
           seq   == IF first THEN 0
                    ELSE 1 + (off - (later - FIRST_HDR)) \div later
           flags == (IF first THEN FLAG_FIRST ELSE 0)
                       + (IF last THEN FLAG_LAST ELSE 0)
           data  == SubSeq(picture, off + 1, off + n)
           payload == <<seq, flags>> \o head \o data
<1>1. /\ camTask = "send"
      /\ uart_write_bytes(IMAGE_CHUNK, payload)
      /\ off' = IF last THEN 0 ELSE off + n
      /\ camTask' = IF last THEN "wait" ELSE "send"
      /\ picture' = IF last THEN <<>> ELSE picture
      /\ UNCHANGED <<notified, requests, taken, commands>>
    BY DEF sendImage
<1>2. /\ MAX_PAYLOAD \in Nat /\ 4 <= MAX_PAYLOAD /\ MAX_PAYLOAD <= 250
      /\ CHUNK_HDR = 2 /\ FIRST_HDR = 1 /\ FLAG_FIRST = 1
      /\ FLAG_LAST = 2
    BY MaxPayloadAssumption DEF CHUNK_HDR, FIRST_HDR, FLAG_FIRST, FLAG_LAST
<1>3. /\ picture \in Seq(Byte) /\ L \in Nat /\ L <= 255 /\ off \in Nat
      /\ off < L /\ (first \/ off >= MAX_PAYLOAD - 3)
    BY <1>1 DEF CameraTyped
<1>4. head \in Seq(Byte) /\ Len(head) = (IF first THEN 1 ELSE 0)
  <2>1. \A m \in Nat : m <= 255 => m \in Byte
      BY DEF Byte
  <2>2. L \in Byte
      BY <1>3, <2>1
  <2>. QED
      BY <2>2
<1> HIDE DEF head
<1>5. /\ room \in Nat /\ room >= 1 /\ later \in Nat /\ later >= 2
      /\ room = MAX_PAYLOAD - 2 - (IF first THEN 1 ELSE 0)
    BY <1>2, <1>4
<1> HIDE DEF room
<1>6. n \in Nat /\ n >= 1 /\ n <= room /\ off + n <= L
         /\ (~last => n = room)
  <2>1. L - off \in Int /\ room \in Int /\ L - off >= 1
      BY <1>3, <1>5
  <2>2. n \in {L - off, room} /\ n <= L - off /\ n <= room
      BY <2>1, MinOfTwo
  <2> HIDE DEF n, L
  <2>. QED
      BY <1>3, <1>5, <2>1, <2>2
<1> HIDE DEF n
<1>7. seq \in Byte
  <2>1. CASE first
      BY <2>1 DEF Byte
  <2>2. CASE ~first
    <3> DEFINE x == off - (later - FIRST_HDR)
    <3>1. x \in Nat /\ x <= 254
        BY <1>2, <1>3, <2>2
    <3>2. x \div later \in Nat /\ x \div later <= x
      <4> HIDE DEF x, later
      <4>1. later >= 1
          BY <1>5
      <4>. QED
          BY <1>5, <3>1, <4>1, QuotientBounded
    <3>3. seq = 1 + x \div later
        BY <2>2
    <3> HIDE DEF x, seq
    <3>. QED
        BY <3>1, <3>2, <3>3 DEF Byte
  <2>. QED
      BY <2>1, <2>2
<1>8. flags \in Byte
  <2>1. flags \in 0..3
      BY <1>2
  <2>. QED
      BY <2>1 DEF Byte
<1> HIDE DEF seq, flags
<1>9. data \in Seq(Byte) /\ Len(data) = n
  <2>1. \A i \in (off + 1)..(off + n) : picture[i] \in Byte
    <3>1. (off + 1)..(off + n) \subseteq 1..L
        BY <1>3, <1>6
    <3>. QED
        BY <1>3, <3>1
  <2>2. off + 1 \in Int /\ off + n \in Int /\ off + 1 <= off + n
           /\ (off + n) - (off + 1) + 1 = n
      BY <1>3, <1>6
  <2>. QED
      BY <2>1, <2>2, SubSeqProperties
<1> HIDE DEF data
<1>10. payload \in Seq(Byte) /\ Len(payload) = 2 + Len(head) + n
  <2> DEFINE hdr == <<seq, flags>>
  <2>1. hdr \in Seq(Byte) /\ Len(hdr) = 2
      BY <1>7, <1>8
  <2> HIDE DEF hdr
  <2>2. hdr \o head \in Seq(Byte) /\ Len(hdr \o head) = 2 + Len(head)
      BY <1>4, <2>1, ConcatTyped
  <2> DEFINE front == hdr \o head
  <2> HIDE DEF front
  <2>3. front \o data \in Seq(Byte) /\ Len(front \o data) = 2 + Len(head) + n
      BY <1>9, <2>2, ConcatTyped DEF front
  <2>. QED
      BY <2>3 DEF front, hdr
<1>11. [type |-> IMAGE_CHUNK, payload |-> payload] \in Proper
  <2> HIDE DEF payload
  <2>1. Len(payload) <= MAX_PAYLOAD /\ Len(payload) >= 2
      BY <1>2, <1>4, <1>5, <1>6, <1>10
  <2>2. IMAGE_CHUNK \in Byte
      BY DEF IMAGE_CHUNK, Byte
  <2>. QED
      BY <1>10, <2>1, <2>2 DEF Proper, Frames
<1>12. CameraTyped'
  <2> HIDE DEF payload
  <2>1. CASE last
    <3>1. off' = 0 /\ camTask' = "wait" /\ picture' = <<>>
        BY <1>1, <2>1
    <3>2. <<>> \in Seq(Byte) /\ Len(<<>>) = 0
        OBVIOUS
    <3>. QED
        BY <1>1, <3>1, <3>2 DEF CameraTyped
  <2>2. CASE ~last
    <3>1. off' = off + n /\ camTask' = "send" /\ picture' = picture
        BY <1>1, <2>2
    <3>2. off + n < L /\ off + n \in 0..L /\ off + n >= MAX_PAYLOAD - 3
        BY <1>2, <1>3, <1>5, <1>6, <2>2
    <3>. QED
        BY <1>1, <3>1, <3>2 DEF CameraTyped
  <2>. QED
      BY <2>1, <2>2
<1>. QED
    BY <1>1, <1>11, <1>12

(* Neither a gap, nor a length that is too long, nor the last chunk makes  *)
(* the assembly longer than the image it was announced as.                 *)
LEMMA AssemblyTyped ==
    ASSUME img \in Assemblies, NEW seq, NEW flags,
           NEW data \in Seq(Byte), assemble(seq, flags, data)
    PROVE  img' \in Assemblies
<1> DEFINE first == flags % 2 = FLAG_FIRST
           begun == IF ~first THEN img
                    ELSE IF data = <<>> \/ data[1] \notin 1..MaxTotal
                           THEN NoImage
                    ELSE [NoImage EXCEPT !.total = data[1], !.live = TRUE]
           more  == IF first THEN Tail(data) ELSE data
           grown == [begun EXCEPT !.buf = begun.buf \o more,
                                  !.seq = begun.seq + 1]
           done  == flags >= FLAG_LAST
<1>1. \/ ~begun.live /\ img' = begun
      \/ img' = NoImage
      \/ begun.live /\ ~(Len(grown.buf) > begun.total) /\ img' = grown
    BY DEF assemble
<1>2. NoImage \in Assemblies
  <2>1. 0 \in 0..MaxTotal
      BY ByteAssumption
  <2>. QED
      BY <2>1 DEF NoImage, Assemblies
<1>3. begun \in Assemblies /\ (begun.live => ~first \/ data # <<>>)
  <2>1. CASE ~first
      BY <2>1
  <2>2. CASE first /\ (data = <<>> \/ data[1] \notin 1..MaxTotal)
    <3>1. begun = NoImage /\ NoImage.live = FALSE
        BY <2>2 DEF NoImage
    <3>. QED
        BY <1>2, <3>1
  <2>3. CASE first /\ data # <<>> /\ data[1] \in 1..MaxTotal
    <3>1. begun = [buf |-> <<>>, total |-> data[1], seq |-> 0, live |-> TRUE]
        BY <2>3 DEF NoImage
    <3>2. data[1] \in 0..MaxTotal /\ data[1] >= 0
        BY <2>3
    <3>3. <<>> \in Seq(Byte) /\ Len(<<>>) = 0
        OBVIOUS
    <3> DEFINE m == [buf |-> <<>>, total |-> data[1], seq |-> 0, live |-> TRUE]
    <3>4. m \in Assemblies
        BY <3>2, <3>3 DEF Assemblies
    <3>. QED
        BY <2>3, <3>1, <3>4
  <2>. QED
      BY <2>1, <2>2, <2>3
<1>4. begun.live => more \in Seq(Byte)
  <2>1. ~first => more \in Seq(Byte)
      OBVIOUS
  <2>2. first /\ data # <<>> => more \in Seq(Byte)
      OBVIOUS
  <2> HIDE DEF more, begun
  <2>. QED
      BY <1>3, <2>1, <2>2
<1> HIDE DEF begun, more
<1>5. CASE begun.live /\ ~(Len(grown.buf) > begun.total) /\ img' = grown
  <2> DEFINE buf == begun.buf \o more
  <2>1. /\ begun \in [buf : Seq(Byte), total : 0..MaxTotal, seq : Nat,
                      live : BOOLEAN]
        /\ more \in Seq(Byte)
      BY <1>3, <1>4, <1>5 DEF Assemblies
  <2>2. buf \in Seq(Byte) /\ Len(buf) \in Nat
      BY <2>1
  <2> HIDE DEF buf
  <2>3. grown = [begun EXCEPT !.buf = buf, !.seq = begun.seq + 1]
      BY DEF buf
  <2> HIDE DEF grown
  <2>4. /\ grown \in [buf : Seq(Byte), total : 0..MaxTotal, seq : Nat,
                      live : BOOLEAN]
        /\ grown.buf = buf /\ grown.total = begun.total
        /\ grown.total \in Nat
    <3>1. /\ begun.seq + 1 \in Nat /\ begun.total \in 0..MaxTotal
          /\ begun.live \in BOOLEAN /\ begun.total \in Nat
        BY <2>1
    <3>2. grown = [buf |-> buf, total |-> begun.total, seq |-> begun.seq + 1,
                   live |-> begun.live]
        BY <2>1, <2>3
    <3>. QED
        BY <2>2, <3>1, <3>2
  <2>5. Len(grown.buf) <= grown.total
      BY <1>5, <2>1, <2>2, <2>4
  <2>. QED
      BY <1>5, <2>4, <2>5 DEF Assemblies
<1>. QED
    BY <1>1, <1>2, <1>3, <1>5

LEMMA FrameTaken ==
    ASSUME LineTyped, ReceiverTyped,
           NEW kinds,
           rxFrame(kinds)
    PROVE  /\ LineTyped' /\ parser' \in Parsers /\ parser'.ready = FALSE
           /\ streaming' \in BOOLEAN /\ handled' \in Seq(Frames)
           /\ \A f : handled' = Append(handled, f) => Last(handled') = f
           /\ UNCHANGED <<notified, camTask, picture, off, requests, taken,
                          commands>>
<1> DEFINE a == Parse(parser, ring)
           f == [type |-> a.p.type_, payload |-> a.p.payload_]
<1>1. /\ parser \in Parsers /\ ring \in Seq(Byte) /\ Len(ring) <= RingSize
      /\ handled \in Seq(Frames)
    BY DEF LineTyped, ReceiverTyped
<1>2. a.p \in Parsers /\ a.used \in Nat
    BY <1>1, ParsedTyped
<1>3. /\ parser' = Fresh /\ ring' = SubSeq(ring, a.used + 1, Len(ring))
      /\ handled' = (IF kind(a.p) # "ignored" THEN Append(handled, f)
                     ELSE handled)
      /\ UNCHANGED <<notified, camTask, picture, off, faults, shifted,
                     streaming, requests, taken, commands, sent>>
    BY DEF rxFrame, s3Vars
<1> HIDE DEF a
<1>4. f \in Frames
    BY <1>2, ParserFieldsTyped
<1>5. ring' \in Seq(Byte) /\ Len(ring') <= RingSize
  <2> DEFINE u == a.used + 1
  <2>1. u \in Nat /\ u >= 1 /\ Len(ring) \in Nat
      BY <1>1, <1>2
  <2> HIDE DEF u
  <2>2. \A i \in u..Len(ring) : ring[i] \in Byte
    <3>1. u..Len(ring) \subseteq 1..Len(ring)
        BY <2>1
    <3>. QED
        BY <1>1, <3>1
  <2>3. /\ SubSeq(ring, u, Len(ring)) \in Seq(Byte)
        /\ Len(SubSeq(ring, u, Len(ring)))
              = IF u <= Len(ring) THEN Len(ring) - u + 1 ELSE 0
      BY <2>1, <2>2, SubSeqProperties
  <2>4. Len(SubSeq(ring, u, Len(ring))) <= Len(ring)
      BY <2>1, <2>3
  <2>5. RingSize \in Nat
      BY ByteAssumption
  <2>6. ring' = SubSeq(ring, u, Len(ring))
      BY <1>3 DEF u
  <2> DEFINE rest == SubSeq(ring, u, Len(ring))
  <2>7. rest \in Seq(Byte) /\ Len(rest) \in Nat /\ Len(rest) <= Len(ring)
      BY <2>3, <2>4
  <2> HIDE DEF rest
  <2>8. ring' = rest
      BY <2>6 DEF rest
  <2>. QED
      BY <1>1, <2>1, <2>5, <2>7, <2>8
<1>6. LineTyped'
    BY <1>3, <1>5 DEF LineTyped
<1> HIDE DEF f
<1>7. handled' \in Seq(Frames)
  <2>1. Append(handled, f) \in Seq(Frames)
      BY <1>1, <1>4
  <2>. QED
      BY <1>1, <1>3, <2>1
<1>8. \A x : handled' = Append(handled, x) => Last(handled') = x
  <2>1. ASSUME NEW x
        PROVE  Last(Append(handled, x)) = x
    <3>1. /\ Len(Append(handled, x)) = Len(handled) + 1
          /\ Append(handled, x)[Len(handled) + 1] = x
        BY <1>1
    <3>. QED
        BY <3>1 DEF Last
  <2>. QED
      BY <2>1
<1>9. streaming' \in BOOLEAN
    BY <1>3 DEF ReceiverTyped
<1>. QED
    BY <1>3, <1>6, <1>7, <1>8, <1>9, FreshTyped

LEMMA ContentTyped ==
    ASSUME NEW n \in Nat, n <= 255, NEW len \in Nat
    PROVE  Content(n, len) \in Seq(Byte) /\ Len(Content(n, len)) = len
<1>1. \A b \in Nat : b <= 255 => b \in Byte
    BY DEF Byte
<1>2. n \in Byte /\ FRAME_START \in Byte /\ 1 \in Byte
    BY <1>1 DEF FRAME_START
<1> DEFINE pic == [i \in 1..len |-> IF n = 1 THEN FRAME_START
                                    ELSE IF n = FRAME_START THEN 1 ELSE n]
<1>3. Content(n, len) = pic
    BY DEF Content
<1>4. pic \in [1..len -> Byte]
    BY <1>2
<1> HIDE DEF pic
<1>5. pic \in Seq(Byte) /\ Len(pic) = len
    BY <1>4
<1>. QED
    BY <1>3, <1>5

(* The S3's actions, and what they leave alone.                            *)
LEMMA CameraMoves ==
    ASSUME CameraTyped,
           CameraCapture \/ TakeRequest \/ captureJpeg
    PROVE  /\ CameraTyped'
           /\ UNCHANGED <<ring, faults, shifted, parser, streaming, img,
                          sent, handled>>
<1>1. CASE CameraCapture
    BY <1>1, ByteAssumption DEF CameraTyped, CameraCapture, lineVars, c5Vars
<1>2. CASE TakeRequest
    BY <1>2 DEF CameraTyped, TakeRequest, lineVars, c5Vars, histVars
<1>3. CASE captureJpeg
  <2>1. /\ camTask = "capture" /\ off = 0
        /\ \/ \E len \in Lengths :
                 /\ picture' = Content(taken + 1, len)
                 /\ taken' = taken + 1 /\ camTask' = "send"
           \/ camTask' = "wait" /\ UNCHANGED <<picture, taken>>
        /\ UNCHANGED <<notified, off, requests, commands>>
        /\ UNCHANGED <<ring, faults, shifted, parser, streaming, img,
                       sent, handled>>
      BY <1>3 DEF captureJpeg, lineVars, c5Vars, CameraTyped
  <2>2. CASE camTask' = "wait" /\ UNCHANGED <<picture, taken>>
      BY <2>1, <2>2 DEF CameraTyped
  <2>3. CASE \E len \in Lengths :
                /\ picture' = Content(taken + 1, len)
                /\ taken' = taken + 1 /\ camTask' = "send"
    <3>1. PICK len \in Lengths :
                /\ picture' = Content(taken + 1, len)
                /\ taken' = taken + 1 /\ camTask' = "send"
        BY <2>3
    <3>2. len \in 1..255
        BY ByteAssumption
    <3>3. /\ taken \in Nat /\ taken + 1 \in Nat /\ taken + 1 <= 255
          /\ taken + 1 <= requests
        BY <2>1, ByteAssumption DEF CameraTyped
    <3>4. picture' \in Seq(Byte) /\ Len(picture') = len
        BY <3>1, <3>2, <3>3, ContentTyped
    <3>5. off' \in 0..Len(picture') /\ Len(picture') <= 255 /\ off' = 0
             /\ off' < Len(picture')
        BY <2>1, <3>2, <3>4
    <3>. QED
        BY <2>1, <3>1, <3>3, <3>4, <3>5 DEF CameraTyped
  <2>. QED
      BY <2>1, <2>2, <2>3
<1>. QED
    BY <1>1, <1>2, <1>3

LEMMA FrameIsSent ==
    ASSUME CameraTyped, LineTyped,
           sendControlCmd \/ sendImage
    PROVE  /\ CameraTyped' /\ LineTyped'
           /\ \E f \in Proper : /\ sent' = Append(sent, f)
                                /\ WriteWhole(f) \/ WriteDamaged(f)
           /\ UNCHANGED <<parser, streaming, img, handled>>
<1>1. /\ CameraTyped'
      /\ \E type, payload :
            /\ [type |-> type, payload |-> payload] \in Proper
            /\ uart_write_bytes(type, payload)
      /\ UNCHANGED <<parser, streaming, img, handled>>
  <2>1. CASE sendControlCmd
    <3>1. /\ commands < MaxCommands /\ commands' = commands + 1
          /\ uart_write_bytes(CONTROL_CMD, <<commands + 1>>)
          /\ UNCHANGED <<notified, camTask, picture, off, parser, streaming,
                         img, requests, taken, handled>>
        BY <2>1 DEF sendControlCmd, s3Vars, c5Vars
    <3>2. /\ commands \in Nat /\ commands + 1 <= MaxCommands
          /\ MaxCommands \in Nat /\ MaxCommands <= 255
        BY <3>1, ByteAssumption DEF CameraTyped
    <3>3. commands + 1 \in Byte
        BY <3>2 DEF Byte
    <3>4. CONTROL_CMD \in Byte /\ 1 <= MAX_PAYLOAD
        BY MaxPayloadAssumption DEF CONTROL_CMD, Byte
    <3> DEFINE payload == <<commands + 1>>
    <3>5. payload \in Seq(Byte) /\ Len(payload) = 1
        BY <3>3
    <3> HIDE DEF payload
    <3>6. [type |-> CONTROL_CMD, payload |-> payload] \in Proper
        BY <3>4, <3>5 DEF Proper, Frames
    <3>7. CameraTyped'
        BY <3>1, <3>2 DEF CameraTyped
    <3>. QED
        BY <3>1, <3>6, <3>7 DEF payload
  <2>2. CASE sendImage
    <3>1. UNCHANGED <<parser, streaming, img, handled>>
        BY <2>2 DEF sendImage, c5Vars
    <3>. QED
        BY <2>2, <3>1, ChunkSent
  <2>. QED
      BY <2>1, <2>2
<1>2. PICK type, payload : /\ [type |-> type, payload |-> payload] \in Proper
                           /\ uart_write_bytes(type, payload)
    BY <1>1
<1> DEFINE f == [type |-> type, payload |-> payload]
<1>3. f \in Proper /\ LineTyped' /\ sent' = Append(sent, f)
         /\ (WriteWhole(f) \/ WriteDamaged(f))
    BY <1>2, WriteLeaves
<1> HIDE DEF f
<1>. QED
    BY <1>1, <1>3

LEMMA ReceiverMoves ==
    ASSUME WireTyped,
           \/ rxPartial \/ rxControl \/ forwardChunk \/ assembleChunk
    PROVE  WireTyped'
<1>1. CameraTyped /\ LineTyped /\ ReceiverTyped
    BY DEF WireTyped
<1>2. CASE rxPartial
  <2> DEFINE a == Parse(parser, ring)
  <2>1. /\ ~a.p.ready /\ parser' = a.p /\ ring' = <<>>
        /\ UNCHANGED <<notified, camTask, picture, off, faults, shifted,
                       streaming, img, requests, taken, commands, sent,
                       handled>>
      BY <1>2 DEF rxPartial, s3Vars, histVars
  <2>2. a.p \in Parsers
      BY <1>1, ParsedTyped DEF LineTyped, ReceiverTyped
  <2> HIDE DEF a
  <2>3. a.p.ready = FALSE
      BY <2>1, <2>2 DEF Parsers, ParserFields
  <2>4. <<>> \in Seq(Byte) /\ Len(<<>>) <= RingSize
      BY ByteAssumption
  <2>5. CameraTyped'
      BY <1>1, <2>1 DEF CameraTyped
  <2>6. LineTyped'
      BY <1>1, <2>1, <2>4 DEF LineTyped
  <2>7. ReceiverTyped'
      BY <1>1, <2>1, <2>2, <2>3 DEF ReceiverTyped
  <2>. QED
      BY <2>5, <2>6, <2>7 DEF WireTyped
<1>3. ASSUME NEW kinds, rxFrame(kinds), img' \in Assemblies
      PROVE  WireTyped'
  <2>1. /\ LineTyped' /\ parser' \in Parsers /\ parser'.ready = FALSE
        /\ streaming' \in BOOLEAN /\ handled' \in Seq(Frames)
        /\ UNCHANGED <<notified, camTask, picture, off, requests, taken,
                       commands>>
      BY ZenonT(30), <1>1, <1>3, FrameTaken
  <2>2. CameraTyped'
      BY <1>1, <2>1 DEF CameraTyped
  <2>3. ReceiverTyped'
      BY <1>3, <2>1 DEF ReceiverTyped
  <2>. QED
      BY <2>1, <2>2, <2>3 DEF WireTyped
<1>4. img \in Assemblies
    BY <1>1 DEF ReceiverTyped
<1>5. CASE rxControl
    BY <1>3, <1>4, <1>5 DEF rxControl
<1>6. CASE forwardChunk
    BY <1>3, <1>4, <1>6 DEF forwardChunk
<1>7. CASE assembleChunk
  <2> DEFINE p    == Last(handled').payload
             a    == Parse(parser, ring)
             data == SubSeq(p, 3, Len(p))
  <2>1. /\ rxFrame({"chunk"})
        /\ \/ assemble(p[1], p[2], data)
           \/ img' = NoImage
      BY <1>7 DEF assembleChunk
  <2>2. a.p \in Parsers
      BY <1>1, ParsedTyped DEF LineTyped, ReceiverTyped
  <2>3. handled' = Append(handled, [type    |-> a.p.type_,
                                    payload |-> a.p.payload_])
      BY <2>1 DEF rxFrame
  <2>4. Last(handled') = [type |-> a.p.type_, payload |-> a.p.payload_]
      BY <1>1, <2>1, <2>3, FrameTaken
  <2>5. p \in Seq(Byte)
    <3>1. p = a.p.payload_
        BY <2>4
    <3>2. a.p.payload_ \in Seq(Byte)
        BY <2>2, ParserFieldsTyped
    <3>. QED
        BY <3>1, <3>2
  <2> HIDE DEF a, p
  <2>6. data \in Seq(Byte)
    <3>1. Len(p) \in Nat /\ \A i \in 3..Len(p) : p[i] \in Byte
      <4>1. 3..Len(p) \subseteq 1..Len(p)
          BY <2>5
      <4>. QED
          BY <2>5, <4>1
    <3>. QED
        BY <3>1, SubSeqProperties
  <2> HIDE DEF data
  <2>7. NoImage \in Assemblies
    <3>1. 0 \in 0..MaxTotal
        BY ByteAssumption
    <3>. QED
        BY <3>1 DEF NoImage, Assemblies
  <2>8. img' \in Assemblies
      BY <1>4, <2>1, <2>6, <2>7, AssemblyTyped
  <2>. QED
      BY <1>3, <2>1, <2>8
<1>. QED
    BY <1>2, <1>5, <1>6, <1>7

LEMMA WireStep ==
    ASSUME WireTyped,
           [Next]_vars
    PROVE  WireTyped'
<1>1. CASE sendControlCmd \/ sendImage
  <2>1. /\ CameraTyped' /\ LineTyped'
        /\ UNCHANGED <<parser, streaming, img, handled>>
      BY <1>1, FrameIsSent DEF WireTyped
  <2>2. ReceiverTyped'
      BY <2>1 DEF WireTyped, ReceiverTyped
  <2>. QED
      BY <2>1, <2>2 DEF WireTyped
<1>2. CASE CameraCapture \/ TakeRequest \/ captureJpeg
  <2>1. /\ CameraTyped'
        /\ UNCHANGED <<ring, faults, shifted, parser, streaming, img,
                       sent, handled>>
      BY <1>2, CameraMoves DEF WireTyped
  <2>. QED
      BY <2>1 DEF WireTyped, LineTyped, ReceiverTyped
<1>3. CASE \/ rxPartial \/ rxControl \/ forwardChunk \/ assembleChunk
    BY <1>3, ReceiverMoves
<1>4. CASE UNCHANGED vars
    BY <1>4 DEF WireTyped, CameraTyped, LineTyped, ReceiverTyped, vars,
                s3Vars, lineVars, c5Vars, histVars
<1>. QED
    BY <1>1, <1>2, <1>3, <1>4 DEF Next

LEMMA WireInit ==
    ASSUME Init
    PROVE  WireTyped
<1>1. <<>> \in Seq(Byte) /\ <<>> \in Seq(Proper) /\ <<>> \in Seq(Frames)
         /\ Len(<<>>) = 0
    OBVIOUS
<1>0. /\ notified = FALSE /\ camTask = "wait" /\ picture = <<>> /\ off = 0
      /\ ring = <<>> /\ faults = 0 /\ shifted = FALSE
      /\ requests = 0 /\ taken = 0 /\ commands = 0 /\ sent = <<>>
    BY DEF Init
<1>2. CameraTyped
  <2>1. MaxRequests \in Nat /\ MaxCommands \in Nat
      BY ByteAssumption
  <2>2. 0 \in 0..0 /\ 0 \in 0..MaxRequests /\ 0 \in 0..MaxCommands
      BY <2>1
  <2>3. picture \in Seq(Byte) /\ Len(picture) = 0
      BY <1>0, <1>1
  <2>4. /\ notified \in BOOLEAN /\ ~notified /\ camTask = "wait" /\ off = 0
        /\ requests = 0 /\ taken = 0 /\ commands = 0
      BY <1>0
  <2>5. Len(picture) <= 255 /\ off \in 0..Len(picture) /\ taken \in 0..requests
      BY <2>2, <2>3, <2>4
  <2>. QED
      BY <2>2, <2>3, <2>4, <2>5 DEF CameraTyped
<1>3. LineTyped
  <2>1. RingSize \in Nat /\ 0 <= RingSize /\ 0 \in 0..MaxFaults
      BY ByteAssumption
  <2>. QED
      BY <1>0, <1>1, <2>1 DEF LineTyped
<1>4. ReceiverTyped
  <2>1. NoImage \in Assemblies
    <3>1. 0 \in 0..MaxTotal
        BY ByteAssumption
    <3>. QED
        BY <3>1 DEF NoImage, Assemblies
  <2>. QED
      BY <1>1, <2>1, FreshTyped DEF Init, ReceiverTyped
<1>. QED
    BY <1>2, <1>3, <1>4 DEF WireTyped

(* The UART's receiving end never writes past a buffer, whatever bytes the *)
(* line loses or turns: the parser's payload stays within MAX_PAYLOAD, the *)
(* assembled image within the total it was announced with and that within  *)
(* MaxTotal, and every number that goes into a byte fits into one.         *)
THEOREM UartBuffersBounded == Spec => []TypeOK
<1>1. Init => WireTyped
    BY WireInit
<1>2. WireTyped /\ [Next]_vars => WireTyped'
    BY WireStep
<1>3. WireTyped => TypeOK
  <2> SUFFICES ASSUME WireTyped
               PROVE  TypeOK
      OBVIOUS
  <2>1. /\ parser.state_ \in {"WAIT_START", "WAIT_TYPE", "WAIT_LEN",
                              "PAYLOAD", "WAIT_CRC"}
        /\ parser.len_ \in 0..255 /\ Len(parser.payload_) <= MAX_PAYLOAD
      BY ZenonT(30), ParserFieldsTyped DEF WireTyped, ReceiverTyped, Byte
  <2>2. img.total <= MaxTotal /\ Len(img.buf) <= img.total
      BY DEF WireTyped, ReceiverTyped, Assemblies
  <2>. QED
      BY <2>1, <2>2 DEF WireTyped, CameraTyped, LineTyped, ReceiverTyped,
                        TypeOK, Byte
<1>. QED
    BY <1>1, <1>2, <1>3, PTL DEF Spec

-----------------------------------------------------------------------------
(* Frames in order.  Until a fault moves a frame's start or its length,    *)
(* the ring is a row of frames, and what was handed up is what was sent,   *)
(* but for the frames in which a byte was turned.                          *)

(* H is what was handed up of S's first `from' frames: H's frame j is S's  *)
(* frame pos[j]; w faults have turned a byte of each of the others, and of *)
(* the frames in `bad', which are still on the line.                       *)
Kept(S, H, w, from, bad, pos) ==
    /\ Len(H) <= from /\ IsFiniteSet(bad)
    /\ pos \in [1..Len(H) -> 1..from]
    /\ \A i, j \in 1..Len(H) : i < j => pos[i] < pos[j]
    /\ \A j \in 1..Len(H) : /\ H[j] = S[pos[j]]
                           /\ pos[j] <= j + (from - Len(H))
    /\ (from - Len(H)) + Cardinality(bad) = w

InStep == \E at, from, bad, pos :
             /\ Layout(ring, sent, at, from, bad)
             /\ Kept(sent, handled, faults, from, bad, pos)

Unshifted == /\ shifted => faults >= 1
             /\ ~shifted => Waiting(parser) /\ InStep

LEMMA KeptBounds ==
    ASSUME NEW S, NEW H \in Seq(Frames), NEW w, NEW from \in Nat, NEW bad,
           NEW pos, Kept(S, H, w, from, bad, pos)
    PROVE  /\ Len(H) \in Nat /\ Len(H) <= from
           /\ IsFiniteSet(bad) /\ Cardinality(bad) \in Nat
           /\ (from - Len(H)) + Cardinality(bad) = w
           /\ \A j \in 1..Len(H) :
                 /\ pos[j] \in Nat /\ pos[j] >= 1 /\ pos[j] <= from
                 /\ H[j] = S[pos[j]] /\ pos[j] <= j + (from - Len(H))
           /\ \A i, j \in 1..Len(H) : i < j => pos[i] < pos[j]
<1>1. /\ Len(H) <= from /\ IsFiniteSet(bad)
      /\ pos \in [1..Len(H) -> 1..from]
      /\ \A i, j \in 1..Len(H) : i < j => pos[i] < pos[j]
      /\ \A j \in 1..Len(H) : /\ H[j] = S[pos[j]]
                             /\ pos[j] <= j + (from - Len(H))
      /\ (from - Len(H)) + Cardinality(bad) = w
    BY Zenon DEF Kept
<1>2. Cardinality(bad) \in Nat
    BY <1>1, FS_CardinalityType
<1>3. \A j \in 1..Len(H) : pos[j] \in 1..from
    BY <1>1
<1>4. \A j \in 1..from : j \in Nat /\ j >= 1 /\ j <= from
    OBVIOUS
<1>5. Len(H) \in Nat
    OBVIOUS
<1>. QED
    BY <1>1, <1>2, <1>3, <1>4, <1>5

(* One more frame is sent: whole, or a fault turns one of its bytes.       *)
LEMMA KeptSends ==
    ASSUME NEW S \in Seq(Frames), NEW H \in Seq(Frames), NEW w,
           NEW from \in 0..Len(S), NEW bad, bad \subseteq (from + 1)..Len(S),
           NEW pos, Kept(S, H, w, from, bad, pos), NEW f
    PROVE  /\ Kept(Append(S, f), H, w, from, bad \cup {}, pos)
           /\ Kept(Append(S, f), H, w + 1, from, bad \cup {Len(S) + 1}, pos)
<1> DEFINE T == Append(S, f)
<1>1. from \in Nat /\ from <= Len(S) /\ Len(S) \in Nat
    OBVIOUS
<1>2. /\ Len(H) \in Nat /\ Len(H) <= from
      /\ IsFiniteSet(bad) /\ Cardinality(bad) \in Nat
      /\ (from - Len(H)) + Cardinality(bad) = w
      /\ \A j \in 1..Len(H) :
            /\ pos[j] \in Nat /\ pos[j] >= 1 /\ pos[j] <= from
            /\ H[j] = S[pos[j]] /\ pos[j] <= j + (from - Len(H))
      /\ \A i, j \in 1..Len(H) : i < j => pos[i] < pos[j]
    BY <1>1, KeptBounds
<1>3. \A k \in 1..Len(S) : T[k] = S[k]
    OBVIOUS
<1>4. \A j \in 1..Len(H) : H[j] = T[pos[j]]
  <2>1. ASSUME NEW j \in 1..Len(H)
        PROVE  H[j] = T[pos[j]]
    <3>1. pos[j] \in 1..Len(S)
        BY <1>1, <1>2
    <3> HIDE DEF T
    <3>. QED
        BY <1>2, <1>3, <3>1
  <2>. QED
      BY <2>1
<1> HIDE DEF T
<1>5. pos \in [1..Len(H) -> 1..from]
    BY Zenon DEF Kept
<1>6. bad \cup {} = bad
    OBVIOUS
<1>7. Kept(T, H, w, from, bad, pos)
    BY <1>2, <1>4, <1>5 DEF Kept
<1>8. IsFiniteSet(bad \cup {Len(S) + 1})
         /\ Cardinality(bad \cup {Len(S) + 1}) = Cardinality(bad) + 1
  <2>1. Len(S) + 1 \notin bad
      BY <1>1
  <2>. QED
      BY <1>2, <2>1, FS_AddElement
<1>9. (from - Len(H)) + Cardinality(bad \cup {Len(S) + 1}) = w + 1
    BY <1>1, <1>2, <1>8
<1>10. Kept(T, H, w + 1, from, bad \cup {Len(S) + 1}, pos)
    BY <1>2, <1>4, <1>5, <1>8, <1>9 DEF Kept
<1>. QED
    BY <1>6, <1>7, <1>10 DEF T

(* Only damaged frames were left on the line.                              *)
LEMMA KeptSkips ==
    ASSUME NEW S \in Seq(Frames), NEW H \in Seq(Frames), NEW w,
           NEW from \in 0..Len(S), NEW bad, Cardinality(bad) = Len(S) - from,
           NEW pos, Kept(S, H, w, from, bad, pos)
    PROVE  Kept(S, H, w, Len(S), {}, pos)
<1>1. from \in Nat /\ from <= Len(S) /\ Len(S) \in Nat
    OBVIOUS
<1>2. /\ Len(H) \in Nat /\ Len(H) <= from
      /\ IsFiniteSet(bad) /\ Cardinality(bad) \in Nat
      /\ (from - Len(H)) + Cardinality(bad) = w
      /\ \A j \in 1..Len(H) :
            /\ pos[j] \in Nat /\ pos[j] >= 1 /\ pos[j] <= from
            /\ H[j] = S[pos[j]] /\ pos[j] <= j + (from - Len(H))
      /\ \A i, j \in 1..Len(H) : i < j => pos[i] < pos[j]
    BY <1>1, KeptBounds
<1>3. Cardinality(bad) = Len(S) - from
    OBVIOUS
<1>4. IsFiniteSet({}) /\ Cardinality({}) = 0
    BY FS_EmptySet
<1>5. (Len(S) - Len(H)) + Cardinality({}) = w /\ Len(H) <= Len(S)
    BY <1>1, <1>2, <1>3, <1>4
<1>6. pos \in [1..Len(H) -> 1..Len(S)]
  <2>1. pos \in [1..Len(H) -> 1..from]
      BY Zenon DEF Kept
  <2>2. 1..from \subseteq 1..Len(S)
      BY <1>1
  <2>. QED
      BY <2>1, <2>2
<1>7. \A j \in 1..Len(H) : pos[j] <= j + (Len(S) - Len(H))
    BY <1>1, <1>2
<1>. QED
    BY <1>2, <1>4, <1>5, <1>6, <1>7 DEF Kept

(* The first whole frame is handed up; the ones before it were damaged.    *)
LEMMA KeptTakes ==
    ASSUME NEW S \in Seq(Frames), NEW H \in Seq(Frames), NEW w,
           NEW from \in 0..Len(S), NEW bad, bad \subseteq (from + 1)..Len(S),
           NEW pos, Kept(S, H, w, from, bad, pos),
           NEW i0 \in ((from + 1)..Len(S)) \ bad,
           (from + 1)..(i0 - 1) \subseteq bad
    PROVE  \E to : Kept(S, Append(H, S[i0]), w, i0,
                        bad \cap ((i0 + 1)..Len(S)), to)
<1> DEFINE few == bad \cap ((i0 + 1)..Len(S))
           old == (from + 1)..(i0 - 1)
           G   == Append(H, S[i0])
           m   == Len(H)
           to  == [j \in 1..(m + 1) |-> IF j <= m THEN pos[j] ELSE i0]
<1>1. /\ from \in Nat /\ Len(S) \in Nat /\ i0 \in Nat /\ from < i0
      /\ i0 <= Len(S) /\ i0 \in 1..Len(S)
    OBVIOUS
<1>2. /\ m \in Nat /\ m <= from
      /\ IsFiniteSet(bad) /\ Cardinality(bad) \in Nat
      /\ (from - m) + Cardinality(bad) = w
      /\ \A j \in 1..m :
            /\ pos[j] \in Nat /\ pos[j] >= 1 /\ pos[j] <= from
            /\ H[j] = S[pos[j]] /\ pos[j] <= j + (from - m)
      /\ \A i, j \in 1..m : i < j => pos[i] < pos[j]
    BY <1>1, KeptBounds
<1>3. S[i0] \in Frames
    BY <1>1
<1>4. /\ Len(G) = m + 1 /\ G[m + 1] = S[i0]
      /\ \A j \in 1..m : G[j] = H[j]
    BY <1>3
<1>5. /\ \A j \in 1..m : to[j] = pos[j]
      /\ to[m + 1] = i0 /\ 1..(m + 1) = (1..m) \cup {m + 1}
      /\ to = [j \in 1..(m + 1) |-> to[j]]
  <2>1. /\ 1..(m + 1) = (1..m) \cup {m + 1} /\ m + 1 \in 1..(m + 1)
        /\ ~(m + 1 <= m) /\ \A j \in 1..m : j <= m
      BY <1>2
  <2>2. to[m + 1] = i0
      BY <2>1
  <2>3. \A j \in 1..m : to[j] = pos[j]
      BY <2>1
  <2>4. to = [j \in 1..(m + 1) |-> to[j]]
      OBVIOUS
  <2>. QED
      BY <2>1, <2>2, <2>3, <2>4
<1> HIDE DEF G, to, m
<1>6. IsFiniteSet(few) /\ Cardinality(bad) = Cardinality(few) + (i0 - 1 - from)
  <2>1. bad = few \cup old /\ few \cap old = {}
    <3>1. \A k \in (from + 1)..Len(S) :
             k # i0 => k \in (from + 1)..(i0 - 1) \/ k \in (i0 + 1)..Len(S)
        BY <1>1
    <3>2. i0 \notin bad
        OBVIOUS
    <3>3. \A k : ~(k \in (from + 1)..(i0 - 1) /\ k \in (i0 + 1)..Len(S))
        BY <1>1
    <3>. QED
        BY <3>1, <3>2, <3>3
  <2>2. /\ IsFiniteSet(old)
        /\ Cardinality(old) = IF from + 1 > i0 - 1 THEN 0
                              ELSE (i0 - 1) - (from + 1) + 1
    <3>1. from + 1 \in Int /\ i0 - 1 \in Int
        BY <1>1
    <3>. QED
        BY <3>1, FS_Interval
  <2>3. Cardinality(old) = i0 - 1 - from
      BY <1>1, <2>2
  <2>4. IsFiniteSet(few)
      BY <1>2, FS_Subset
  <2> HIDE DEF few, old
  <2>5. Cardinality(few \cup old)
           = Cardinality(few) + Cardinality(old) - Cardinality(few \cap old)
      BY <2>2, <2>4, FS_Union
  <2>6. Cardinality(few) \in Nat /\ Cardinality({}) = 0
      BY <2>4, FS_CardinalityType, FS_EmptySet
  <2>7. Cardinality(bad)
           = Cardinality(few) + Cardinality(old) - Cardinality({})
      BY <2>1, <2>5
  <2>. QED
      BY <1>1, <2>3, <2>4, <2>6, <2>7
<1> HIDE DEF few
<1>7. (i0 - (m + 1)) + Cardinality(few) = w
  <2>1. Cardinality(few) \in Nat
      BY <1>6, FS_CardinalityType
  <2>. QED
      BY <1>1, <1>2, <1>6, <2>1
<1>8. to \in [1..(m + 1) -> 1..i0]
  <2>1. ASSUME NEW j \in 1..(m + 1)
        PROVE  to[j] \in 1..i0
    <3>1. CASE j \in 1..m
      <4>1. to[j] = pos[j] /\ pos[j] \in Nat /\ pos[j] >= 1 /\ pos[j] <= from
          BY <1>2, <1>5, <3>1
      <4>. QED
          BY <1>1, <4>1
    <3>2. CASE j = m + 1
        BY <1>1, <1>5, <3>2
    <3>. QED
        BY <1>5, <3>1, <3>2
  <2>. QED
      BY <1>5, <2>1
<1>9. ASSUME NEW i \in 1..(m + 1), NEW j \in 1..(m + 1), i < j
      PROVE  to[i] < to[j]
  <2>1. i \in 1..m
      BY <1>2, <1>9
  <2>2. CASE j \in 1..m
      BY <1>2, <1>5, <1>9, <2>1, <2>2
  <2>3. CASE j = m + 1
    <3>1. to[i] = pos[i] /\ pos[i] \in Nat /\ pos[i] <= from /\ to[j] = i0
        BY <1>2, <1>5, <2>1, <2>3
    <3>. QED
        BY <1>1, <3>1
  <2>. QED
      BY <1>5, <2>2, <2>3
<1>10. ASSUME NEW j \in 1..(m + 1)
       PROVE  G[j] = S[to[j]] /\ to[j] <= j + (i0 - (m + 1))
  <2>1. CASE j \in 1..m
    <3>1. /\ G[j] = H[j] /\ to[j] = pos[j] /\ H[j] = S[pos[j]]
          /\ pos[j] \in Nat /\ pos[j] <= j + (from - m)
        BY <1>2, <1>4, <1>5, <2>1
    <3>2. j \in Nat
        BY <2>1
    <3>. QED
        BY <1>1, <1>2, <3>1, <3>2
  <2>2. CASE j = m + 1
      BY <1>1, <1>2, <1>4, <1>5, <2>2
  <2>. QED
      BY <1>5, <2>1, <2>2
<1>11. Len(G) <= i0
    BY <1>1, <1>2, <1>4
<1>12. Kept(S, G, w, i0, few, to)
    BY <1>4, <1>6, <1>7, <1>8, <1>9, <1>10, <1>11 DEF Kept
<1>. QED
    BY <1>12 DEF few, G

(* What the parser hands up is the frame the line held.                    *)
LEMMA FrameHandedUp ==
    ASSUME WireTyped, NEW kinds, rxFrame(kinds),
           NEW i \in 1..Len(sent), NEW n,
           Parse(parser, ring).used = n,
           Parse(parser, ring).p.type_ = sent[i].type,
           Parse(parser, ring).p.payload_ = sent[i].payload
    PROVE  /\ handled' = Append(handled, sent[i]) /\ parser' = Fresh
           /\ ring' = SubSeq(ring, n + 1, Len(ring))
           /\ UNCHANGED <<faults, shifted, sent>>
<1> DEFINE a == Parse(parser, ring)
           f == [type |-> a.p.type_, payload |-> a.p.payload_]
<1>1. /\ parser' = Fresh /\ ring' = SubSeq(ring, a.used + 1, Len(ring))
      /\ handled' = (IF kind(a.p) # "ignored" THEN Append(handled, f)
                     ELSE handled)
      /\ UNCHANGED <<faults, shifted, sent>>
    BY DEF rxFrame
<1>2. /\ a.used = n /\ a.p.type_ = sent[i].type
      /\ a.p.payload_ = sent[i].payload
    OBVIOUS
<1> HIDE DEF a
<1>3. sent[i] \in Proper
    BY DEF WireTyped, LineTyped
<1>4. f = sent[i]
  <2>1. sent[i] \in [type : Byte, payload : Seq(Byte)]
      BY <1>3 DEF Proper, Frames
  <2>2. sent[i] = [type |-> sent[i].type, payload |-> sent[i].payload]
      BY <2>1
  <2>. QED
      BY <1>2, <2>2
<1>5. kind(a.p) # "ignored"
  <2> HIDE DEF f
  <2>1. \/ a.p.type_ = CONTROL_CMD /\ Len(a.p.payload_) = 1
        \/ a.p.type_ = IMAGE_CHUNK /\ Len(a.p.payload_) >= 2
      BY <1>2, <1>3 DEF Proper
  <2>2. isControl(a.p) \/ isChunk(a.p)
    <3>1. CASE a.p.type_ = CONTROL_CMD /\ Len(a.p.payload_) = 1
      <4>1. Len(a.p.payload_) >= 1
          BY <3>1
      <4>. QED
          BY <3>1, <4>1, Zenon DEF isControl
    <3>2. CASE a.p.type_ = IMAGE_CHUNK /\ Len(a.p.payload_) >= 2
      <4>1. CHUNK_HDR = 2
          BY DEF CHUNK_HDR
      <4>. QED
          BY <3>2, <4>1, Zenon DEF isChunk
    <3>. QED
        BY <2>1, <3>1, <3>2
  <2>. QED
      BY <2>2 DEF kind
<1>. QED
    BY <1>1, <1>2, <1>4, <1>5

LEMMA InStepSends ==
    ASSUME WireTyped, Unshifted, NEW f \in Proper,
           sent' = Append(sent, f), WriteWhole(f) \/ WriteDamaged(f),
           UNCHANGED <<parser, handled>>
    PROVE  Unshifted'
<1>1. /\ ring \in Seq(Byte) /\ sent \in Seq(Frames) /\ handled \in Seq(Frames)
      /\ f \in Frames /\ shifted \in BOOLEAN /\ faults \in Nat
    BY ProperAreFrames DEF WireTyped, LineTyped, ReceiverTyped
<1>2. CASE shifted' = TRUE /\ faults' = faults + 1
    BY <1>1, <1>2 DEF Unshifted
<1>3. ASSUME ~shifted, shifted' = shifted, NEW bytes \in Seq(Byte),
             Len(bytes) = Span(f), ring' = ring \o bytes,
             \/ Whole(bytes, 0, f) /\ faults' = faults
             \/ Turned(bytes, 0, f) /\ faults' = faults + 1
      PROVE  Unshifted'
  <2>1. PICK at, from, bad, pos :
           /\ Layout(ring, sent, at, from, bad)
           /\ Kept(sent, handled, faults, from, bad, pos)
      BY <1>3 DEF Unshifted, InStep
  <2>2. from \in 0..Len(sent) /\ bad \subseteq (from + 1)..Len(sent)
      BY <2>1, Zenon DEF Layout
  <2>3. /\ Kept(Append(sent, f), handled, faults, from, bad \cup {}, pos)
        /\ Kept(Append(sent, f), handled, faults + 1, from,
                bad \cup {Len(sent) + 1}, pos)
      BY <1>1, <2>1, <2>2, KeptSends
  <2>4. InStep'
    <3>1. CASE Whole(bytes, 0, f) /\ faults' = faults
      <4>1. PICK to : Layout(ring \o bytes, Append(sent, f), to, from,
                             bad \cup {})
          BY <1>1, <1>3, <2>1, <3>1, LayoutGrows
      <4>2. /\ Layout(ring', sent', to, from, bad \cup {})
            /\ Kept(sent', handled', faults', from, bad \cup {}, pos)
          BY <1>3, <2>3, <3>1, <4>1
      <4>. QED
          BY <4>2, Zenon DEF InStep
    <3>2. CASE Turned(bytes, 0, f) /\ faults' = faults + 1
      <4>1. PICK to : Layout(ring \o bytes, Append(sent, f), to, from,
                             bad \cup {Len(sent) + 1})
          BY <1>1, <1>3, <2>1, <3>2, LayoutGrows
      <4>2. /\ Layout(ring', sent', to, from, bad \cup {Len(sent) + 1})
            /\ Kept(sent', handled', faults', from,
                    bad \cup {Len(sent) + 1}, pos)
          BY <1>3, <2>3, <3>2, <4>1
      <4>. QED
          BY <4>2, Zenon DEF InStep
    <3>. QED
        BY <1>3, <3>1, <3>2
  <2>5. Waiting(parser')
      BY <1>3 DEF Unshifted
  <2>. QED
      BY <1>3, <2>4, <2>5 DEF Unshifted
<1>4. CASE shifted /\ shifted' = shifted
             /\ (faults' = faults \/ faults' = faults + 1)
    BY <1>1, <1>4 DEF Unshifted
<1>5. CASE ~shifted /\ WriteWhole(f)
  <2>1. /\ FrameOf(f) \in Seq(Byte) /\ Len(FrameOf(f)) = Span(f)
      BY <1>1, FrameFields
  <2>2. Whole(FrameOf(f), 0, f)
    <3>1. \A k \in 1..Span(f) : 0 + k = k
        OBVIOUS
    <3>. QED
        BY <3>1 DEF Whole
  <2>. QED
      BY <1>3, <1>5, <2>1, <2>2 DEF WriteWhole
<1>6. CASE ~shifted /\ WriteDamaged(f)
    BY <1>2, <1>3, <1>6 DEF WriteDamaged
<1>. QED
    BY <1>1, <1>2, <1>4, <1>5, <1>6 DEF WriteWhole, WriteDamaged

LEMMA InStepReceives ==
    ASSUME WireTyped, Unshifted,
           rxPartial \/ (\E kinds : rxFrame(kinds))
    PROVE  Unshifted'
<1>1. /\ ring \in Seq(Byte) /\ sent \in Seq(Frames) /\ handled \in Seq(Frames)
      /\ parser \in Parsers
    BY ProperAreFrames DEF WireTyped, LineTyped, ReceiverTyped
<1>2. UNCHANGED <<shifted, faults, sent>>
    BY DEF rxPartial, rxFrame, histVars
<1>3. CASE shifted
    BY <1>2, <1>3 DEF Unshifted
<1>4. CASE ~shifted
  <2>1. PICK at, from, bad, pos :
           /\ Layout(ring, sent, at, from, bad)
           /\ Kept(sent, handled, faults, from, bad, pos)
      BY <1>4 DEF Unshifted, InStep
  <2>2. from \in 0..Len(sent) /\ bad \subseteq (from + 1)..Len(sent)
      BY <2>1, Zenon DEF Layout
  <2> DEFINE a == Parse(parser, ring)
  <2>3. \/ /\ bad = (from + 1)..Len(sent)
           /\ a.p \in Parsers /\ Waiting(a.p)
        \/ \E i \in ((from + 1)..Len(sent)) \ bad :
              /\ (from + 1)..(i - 1) \subseteq bad
              /\ a.p.ready = TRUE /\ a.used = at[i]
              /\ a.p.type_ = sent[i].type /\ a.p.payload_ = sent[i].payload
    <3>1. Waiting(parser) /\ Layout(ring, sent, at, from, bad)
        BY <1>4, <2>1 DEF Unshifted
    <3>2. FirstWhole(Parse(parser, ring), sent, at, from, bad)
        BY <1>1, <3>1, LineScanned
    <3>. QED
        BY <3>2, Zenon DEF FirstWhole, a
  <2>4. CASE rxPartial
    <3>1. /\ ~a.p.ready /\ parser' = a.p /\ ring' = <<>> /\ handled' = handled
        BY <2>4 DEF rxPartial, histVars
    <3> HIDE DEF a
    <3>2. bad = (from + 1)..Len(sent) /\ Waiting(parser')
        BY <2>3, <3>1
    <3>3. Layout(<<>>, sent, [i \in Len(sent)..Len(sent) |-> 0], Len(sent), {})
      <4>1. Len(sent) \in Nat
          BY <1>1
      <4>. QED
          BY <4>1, LayoutEmpty
    <3>4. Kept(sent, handled, faults, Len(sent), {}, pos)
      <4>1. Len(sent) \in Nat /\ from \in Nat /\ from <= Len(sent)
          BY <1>1, <2>2
      <4>2. from + 1 \in Int /\ Len(sent) \in Int
          BY <4>1
      <4>3. Cardinality(bad)
               = IF from + 1 > Len(sent) THEN 0
                 ELSE Len(sent) - (from + 1) + 1
          BY <3>2, <4>2, FS_Interval
      <4>4. Cardinality(bad) = Len(sent) - from
          BY <4>1, <4>3
      <4>. QED
          BY <1>1, <2>1, <2>2, <4>4, KeptSkips
    <3> DEFINE to == [i \in Len(sent)..Len(sent) |-> 0]
    <3>5. /\ Layout(ring', sent', to, Len(sent), {})
          /\ Kept(sent', handled', faults', Len(sent), {}, pos)
        BY <1>2, <3>1, <3>3, <3>4
    <3> HIDE DEF to
    <3>6. InStep'
        BY <3>5, Zenon DEF InStep
    <3>. QED
        BY <1>2, <1>4, <3>2, <3>6 DEF Unshifted
  <2>5. CASE \E kinds : rxFrame(kinds)
    <3>1. PICK kinds : rxFrame(kinds)
        BY <2>5
    <3>2. a.p.ready
        BY <3>1 DEF rxFrame
    <3> HIDE DEF a
    <3>3. PICK i \in ((from + 1)..Len(sent)) \ bad :
              /\ (from + 1)..(i - 1) \subseteq bad
              /\ a.p.ready = TRUE /\ a.used = at[i]
              /\ a.p.type_ = sent[i].type /\ a.p.payload_ = sent[i].payload
        BY <2>3, <3>2 DEF Waiting
    <3>4. i \in 1..Len(sent) /\ i \in (from + 1)..Len(sent)
        BY <2>2
    <3>5. /\ handled' = Append(handled, sent[i]) /\ parser' = Fresh
          /\ ring' = SubSeq(ring, at[i] + 1, Len(ring))
          /\ UNCHANGED <<faults, shifted, sent>>
        BY <3>1, <3>3, <3>4, FrameHandedUp DEF a
    <3> DEFINE few  == bad \cap ((i + 1)..Len(sent))
               next == [k \in i..Len(sent) |-> at[k] - at[i]]
    <3>6. Layout(SubSeq(ring, at[i] + 1, Len(ring)), sent, next, i, few)
        BY <1>1, <2>1, <3>4, LayoutDrops
    <3>7. PICK to : Kept(sent, Append(handled, sent[i]), faults, i, few, to)
        BY <1>1, <2>1, <2>2, <3>3, KeptTakes
    <3>8. /\ Layout(ring', sent', next, i, few)
          /\ Kept(sent', handled', faults', i, few, to)
        BY <3>5, <3>6, <3>7
    <3> HIDE DEF few, next
    <3>9. InStep'
        BY <3>8, Zenon DEF InStep
    <3>10. Waiting(parser')
        BY <3>5, FreshTyped
    <3>. QED
        BY <1>2, <1>4, <3>9, <3>10 DEF Unshifted
  <2>. QED
      BY <2>4, <2>5
<1>. QED
    BY <1>3, <1>4

LEMMA UnshiftedStep ==
    ASSUME WireTyped, Unshifted,
           [Next]_vars
    PROVE  Unshifted'
<1>1. CASE sendControlCmd \/ sendImage
  <2>1. PICK f \in Proper : /\ sent' = Append(sent, f)
                            /\ WriteWhole(f) \/ WriteDamaged(f)
                            /\ UNCHANGED <<parser, handled>>
      BY <1>1, FrameIsSent DEF WireTyped
  <2>. QED
      BY <2>1, InStepSends
<1>2. CASE CameraCapture \/ TakeRequest \/ captureJpeg
  <2>1. UNCHANGED <<ring, faults, shifted, parser, sent, handled>>
      BY <1>2, CameraMoves DEF WireTyped
  <2>. QED
      BY <2>1 DEF Unshifted, InStep
<1>3. CASE rxPartial \/ rxControl \/ forwardChunk \/ assembleChunk
  <2>1. rxPartial \/ (\E kinds : rxFrame(kinds))
      BY <1>3 DEF rxControl, forwardChunk, assembleChunk
  <2>. QED
      BY <2>1, InStepReceives
<1>4. CASE UNCHANGED vars
  <2>1. UNCHANGED <<ring, faults, shifted, parser, sent, handled>>
      BY <1>4 DEF vars, lineVars, c5Vars, histVars
  <2>. QED
      BY <2>1 DEF Unshifted, InStep
<1>. QED
    BY <1>1, <1>2, <1>3, <1>4 DEF Next

LEMMA UnshiftedInit ==
    ASSUME Init
    PROVE  Unshifted
<1>1. /\ ring = <<>> /\ faults = 0 /\ shifted = FALSE /\ parser = Fresh
      /\ sent = <<>> /\ handled = <<>>
    BY DEF Init
<1> DEFINE at == [i \in Len(sent)..Len(sent) |-> 0]
<1>2. Len(<<>>) = 0 /\ 0 \in Nat /\ IsFiniteSet({}) /\ Cardinality({}) = 0
    BY FS_EmptySet
<1>3. Layout(ring, sent, at, Len(sent), {})
    BY <1>1, <1>2, LayoutEmpty
<1> DEFINE pos == [j \in 1..0 |-> 1]
<1>4. Kept(<<>>, <<>>, 0, 0, {}, pos)
  <2>1. pos \in [1..0 -> 1..0] /\ \A j \in 1..0 : FALSE
      OBVIOUS
  <2> HIDE DEF pos
  <2>. QED
      BY <1>2, <2>1 DEF Kept
<1>5. Kept(sent, handled, faults, Len(sent), {}, pos)
    BY <1>1, <1>2, <1>4
<1> HIDE DEF at, pos
<1>6. InStep
    BY <1>3, <1>5, Zenon DEF InStep
<1>. QED
    BY <1>1, <1>6, FreshTyped DEF Unshifted

(* Frames come up in the order they were sent, each once and as it was     *)
(* sent, as long as no fault has moved a frame's start or its length; each *)
(* fault costs the one frame it hit, and no frame is late by more places   *)
(* than frames were lost.                                                  *)
EachOnceInOrder ==
    ~shifted =>
       /\ \E pos \in [1..Len(handled) -> 1..Len(sent)] :
             /\ \A i, j \in 1..Len(handled) : i < j => pos[i] < pos[j]
             /\ \A j \in 1..Len(handled) : /\ handled[j] = sent[pos[j]]
                                          /\ pos[j] <= j + faults
       /\ ring = <<>> => Len(sent) = Len(handled) + faults

LEMMA UnshiftedMeans ==
    ASSUME WireTyped, Unshifted
    PROVE  EachOnceInOrder
<1> SUFFICES ASSUME ~shifted
             PROVE  /\ \E pos \in [1..Len(handled) -> 1..Len(sent)] :
                         /\ \A i, j \in 1..Len(handled) :
                               i < j => pos[i] < pos[j]
                         /\ \A j \in 1..Len(handled) :
                               /\ handled[j] = sent[pos[j]]
                               /\ pos[j] <= j + faults
                    /\ ring = <<>> => Len(sent) = Len(handled) + faults
    BY DEF EachOnceInOrder
<1>1. /\ ring \in Seq(Byte) /\ sent \in Seq(Frames) /\ handled \in Seq(Frames)
    BY ProperAreFrames DEF WireTyped, LineTyped, ReceiverTyped
<1>2. PICK at, from, bad, pos :
         /\ Layout(ring, sent, at, from, bad)
         /\ Kept(sent, handled, faults, from, bad, pos)
    BY DEF Unshifted, InStep
<1>3. /\ Len(sent) \in Nat /\ Len(ring) \in Nat /\ from \in Nat
      /\ from <= Len(sent) /\ bad \subseteq (from + 1)..Len(sent)
      /\ at[from] = 0 /\ at[Len(sent)] = Len(ring)
      /\ \A i \in from..Len(sent) : at[i] \in Nat /\ at[i] <= Len(ring)
    BY <1>1, <1>2, LayoutBounds
<1>4. /\ Len(handled) \in Nat /\ Len(handled) <= from
      /\ IsFiniteSet(bad) /\ Cardinality(bad) \in Nat
      /\ (from - Len(handled)) + Cardinality(bad) = faults
      /\ \A j \in 1..Len(handled) :
            /\ pos[j] \in Nat /\ pos[j] >= 1 /\ pos[j] <= from
            /\ handled[j] = sent[pos[j]]
            /\ pos[j] <= j + (from - Len(handled))
      /\ \A i, j \in 1..Len(handled) : i < j => pos[i] < pos[j]
    BY <1>1, <1>2, <1>3, KeptBounds
<1>5. pos \in [1..Len(handled) -> 1..Len(sent)]
  <2>1. pos \in [1..Len(handled) -> 1..from]
      BY <1>2, Zenon DEF Kept
  <2>2. 1..from \subseteq 1..Len(sent)
      BY <1>3
  <2>. QED
      BY <2>1, <2>2
<1>6. \A j \in 1..Len(handled) : pos[j] <= j + faults
    BY <1>3, <1>4
<1>7. ASSUME ring = <<>>
      PROVE  Len(sent) = Len(handled) + faults
  <2>1. Len(ring) = 0
      BY <1>7
  <2>2. from = Len(sent)
    <3> SUFFICES ASSUME from < Len(sent)
                 PROVE  FALSE
        BY <1>3
    <3> DEFINE i == from + 1
    <3>1. i \in (from + 1)..Len(sent)
        BY <1>3
    <3>2. /\ sent[i] \in Frames /\ at[i] = at[i - 1] + Span(sent[i])
          /\ at[i - 1] \in Nat /\ at[i] <= Len(ring)
        BY <1>1, <1>2, <3>1, LayoutFrame
    <3>3. Span(sent[i]) \in Nat /\ Span(sent[i]) >= 4
        BY <3>2, FrameFields
    <3>. QED
        BY <2>1, <3>2, <3>3
  <2>3. bad = {}
      BY <1>3, <2>2
  <2>4. Cardinality(bad) = 0
      BY <2>3, FS_EmptySet
  <2>. QED
      BY <1>3, <1>4, <2>2, <2>4
<1>. QED
    BY <1>4, <1>5, <1>6, <1>7

(* Frames come up in order, each once, until a frame's start or length is  *)
(* moved.                                                                  *)
THEOREM FramesInOrder == Spec => []EachOnceInOrder
<1>1. Init => WireTyped /\ Unshifted
    BY WireInit, UnshiftedInit
<1>2. WireTyped /\ Unshifted /\ [Next]_vars => (WireTyped /\ Unshifted)'
    BY WireStep, UnshiftedStep
<1>3. WireTyped /\ Unshifted => EachOnceInOrder
    BY UnshiftedMeans
<1>. QED
    BY <1>1, <1>2, <1>3, PTL DEF Spec

(* No frame is made up: what was handed up was sent, unless a fault has    *)
(* moved a frame's start or length.  The CRC sees to it, whatever byte of  *)
(* a frame was turned and however long the frame is.                       *)
THEOREM NothingMadeUp == Spec => []NothingForged
<1>1. WireTyped /\ EachOnceInOrder => NothingForged
  <2> SUFFICES ASSUME WireTyped, EachOnceInOrder, ~shifted
               PROVE  ~Forged
      BY DEF NothingForged
  <2>1. handled \in Seq(Frames) /\ sent \in Seq(Frames)
      BY ProperAreFrames DEF WireTyped, LineTyped, ReceiverTyped
  <2>2. DOMAIN handled = 1..Len(handled) /\ DOMAIN sent = 1..Len(sent)
      BY <2>1
  <2>3. PICK pos \in [1..Len(handled) -> 1..Len(sent)] :
           \A j \in 1..Len(handled) : handled[j] = sent[pos[j]]
      BY DEF EachOnceInOrder
  <2>4. ASSUME NEW j \in 1..Len(handled)
        PROVE  \E i \in 1..Len(sent) : handled[j] = sent[i]
      BY <2>3
  <2>5. Range(handled) \subseteq Range(sent)
      BY <2>2, <2>4 DEF Range
  <2>. QED
      BY <2>5, Zenon DEF Forged
<1>2. Init => WireTyped
    BY WireInit
<1>3. WireTyped /\ [Next]_vars => WireTyped'
    BY WireStep
<1>. QED
    BY <1>1, <1>2, <1>3, FramesInOrder, PTL DEF Spec

(* What comes out of the parser is sound, whatever the line does to it.    *)
THEOREM FramesAreSound == Spec => []FramesSound
    BY UartBuffersBounded, NothingMadeUp, PTL DEF FramesSound

(* Without a fault every frame arrives: once the ring is read out, what    *)
(* was handed up is all that was sent, in order.                           *)
THEOREM CleanLineDelivers ==
    Spec => [](faults = 0 /\ ring = <<>> => handled = sent)
<1>1. WireTyped /\ Unshifted /\ EachOnceInOrder
         => (faults = 0 /\ ring = <<>> => handled = sent)
  <2> SUFFICES ASSUME WireTyped, Unshifted, EachOnceInOrder,
                      faults = 0, ring = <<>>
               PROVE  handled = sent
      OBVIOUS
  <2>1. handled \in Seq(Frames) /\ sent \in Seq(Frames)
      BY ProperAreFrames DEF WireTyped, LineTyped, ReceiverTyped
  <2>2. ~shifted
      BY DEF Unshifted
  <2>3. PICK pos \in [1..Len(handled) -> 1..Len(sent)] :
           /\ \A i, j \in 1..Len(handled) : i < j => pos[i] < pos[j]
           /\ \A j \in 1..Len(handled) : /\ handled[j] = sent[pos[j]]
                                        /\ pos[j] <= j + faults
      BY <2>2 DEF EachOnceInOrder
  <2>4. Len(sent) = Len(handled)
      BY <2>1, <2>2 DEF EachOnceInOrder
  <2> DEFINE I == {k \in Nat : k + 1 <= Len(handled) => pos[k + 1] = k + 1}
  <2>5. \A j \in 1..Len(handled) : pos[j] \in Nat /\ pos[j] >= 1 /\ pos[j] <= j
    <3>1. \A j \in 1..Len(handled) : pos[j] \in 1..Len(sent)
        BY <2>3
    <3>. QED
        BY <2>3, <3>1
  <2>6. 0 \in I
    <3>1. 1 <= Len(handled) => 1 \in 1..Len(handled)
        BY <2>1
    <3>. QED
        BY <2>5, <3>1
  <2>7. ASSUME NEW k \in I
        PROVE  k + 1 \in I
    <3> SUFFICES ASSUME k + 1 + 1 <= Len(handled)
                 PROVE  pos[k + 1 + 1] = k + 1 + 1
        OBVIOUS
    <3> DEFINE j == k + 1 + 1
    <3>1. /\ k \in Nat /\ j \in Nat /\ j = k + 2
          /\ k + 1 \in 1..Len(handled) /\ j \in 1..Len(handled)
          /\ k + 1 < j /\ pos[k + 1] = k + 1
        BY <2>1
    <3> HIDE DEF I, j
    <3>2. pos[k + 1] < pos[j] /\ pos[j] \in Nat /\ pos[j] <= j
        BY <2>3, <2>5, <3>1
    <3>3. pos[j] = j
        BY <3>1, <3>2
    <3>. QED
        BY <3>3 DEF j
  <2>8. I \in SUBSET Nat
      OBVIOUS
  <2>9. ASSUME NEW j \in 1..Len(handled)
        PROVE  handled[j] = sent[j]
    <3>1. j - 1 \in Nat /\ (j - 1) + 1 = j /\ j <= Len(handled)
        BY <2>1
    <3>2. j - 1 \in I
      <4> HIDE DEF I
      <4>. QED
          BY <2>6, <2>7, <2>8, <3>1, InductionOnSet
    <3>3. pos[j] = j
        BY <3>1, <3>2
    <3>. QED
        BY <2>3, <3>3
  <2>. QED
      BY <2>1, <2>4, <2>9, SeqEqual
<1>2. Init => WireTyped /\ Unshifted
    BY WireInit, UnshiftedInit
<1>3. WireTyped /\ Unshifted /\ [Next]_vars => (WireTyped /\ Unshifted)'
    BY WireStep, UnshiftedStep
<1>. QED
    BY <1>1, <1>2, <1>3, FramesInOrder, PTL DEF Spec

-----------------------------------------------------------------------------
(* Pictures.  Until a fault moves a frame's start or its length, an image  *)
(* that was put together is one picture, or one run of losses was as long. *)

Room3 == MAX_PAYLOAD - CHUNK_HDR

(* A picture's chunks tell which it is, by what it is made of; the key of  *)
(* a chunk puts them in the order they are sent.                           *)
Colour(n)  == IF n = 1 THEN FRAME_START ELSE IF n = FRAME_START THEN 1 ELSE n
IsPiece(f) == f.type = IMAGE_CHUNK
DataAt(k)  == IF k = 0 THEN 4 ELSE 3
ShowOf(f)  == Colour(f.payload[DataAt(f.payload[1])])
Key(f)     == ShowOf(f) * 256 + f.payload[1]

(* Chunk k of picture n, which is len bytes long.                          *)
PieceOf(f, n, k, len) ==
    /\ f \in Proper /\ IsPiece(f)
    /\ Len(f.payload) >= DataAt(k)
    /\ f.payload[1] = k /\ f.payload[2] % 2 = (IF k = 0 THEN 1 ELSE 0)
    /\ k = 0 => f.payload[3] = len
    /\ \A i \in DataAt(k)..Len(f.payload) : f.payload[i] = Colour(n)

(* The chunks sent when t pictures have been taken, of which the last is   *)
(* being sent (c) and m chunks of it are.                                  *)
Due(t, c, len, m, n, k) ==
    /\ n \in 1..t /\ k \in Nat /\ k < Chunks(len[n])
    /\ n = t /\ c = "send" => k < m

PiecesSent(S, t, c, len, m) ==
    /\ \A i \in 1..Len(S) : IsPiece(S[i]) =>
          \E n, k \in Nat : /\ Due(t, c, len, m, n, k)
                            /\ PieceOf(S[i], n, k, len[n])
    /\ \A n, k \in Nat : Due(t, c, len, m, n, k) =>
          \E i \in 1..Len(S) : IsPiece(S[i]) /\ Key(S[i]) = n * 256 + k
    /\ \A i, j \in 1..Len(S) : i < j /\ IsPiece(S[i]) /\ IsPiece(S[j])
          => Key(S[i]) < Key(S[j])

(* m chunks of the picture in hand are sent, and there are more.           *)
CameraAt(len, m) ==
    /\ len \in [1..taken -> 1..255] /\ m \in Nat
    /\ camTask = "send" =>
          /\ taken >= 1 /\ picture = Content(taken, len[taken])
          /\ off = (IF m = 0 THEN 0 ELSE m * Room3 - 1)
          /\ m < Chunks(len[taken])

(* Chunks that will not come up any more, for a later one has.             *)
Lost(S, H) ==
    {f \in Range(S) : /\ IsPiece(f) /\ f \notin Range(H)
                      /\ \E h \in Range(H) : IsPiece(h) /\ Key(f) < Key(h)}

OfOne(s, n) == \A i \in 1..Len(s) : s[i] = Colour(n)

(* The image in hand ends with the last chunk that came up; it is of one   *)
(* picture, or as many chunks as it will have are lost.                    *)
Assembling(g, len, S, H) ==
    g.live =>
       \E h \in Range(H) :
          /\ IsPiece(h) /\ \A x \in Range(H) : IsPiece(x) => Key(x) <= Key(h)
          /\ g.seq = h.payload[1] + 1
          /\ \/ g.total = len[ShowOf(h)] /\ OfOne(g.buf, ShowOf(h))
             \/ Cardinality(Lost(S, H)) >= Chunks(g.total)

Assembled(ims, S, H) ==
    /\ ims \in Seq(Seq(Byte))
    /\ \A j \in 1..Len(ims) :
          \/ \E n \in 1..MaxRequests : OfOne(ims[j], n)
          \/ Cardinality(Lost(S, H)) >= Chunks(Len(ims[j]))

PicturesOK ==
    /\ streaming => ~img.live
    /\ ~shifted =>
          /\ Assembled(images, sent, handled)
          /\ \E len, m : /\ CameraAt(len, m)
                         /\ PiecesSent(sent, taken, camTask, len, m)
                         /\ Assembling(img, len, sent, handled)

(* Division, and products in their order.                                  *)
LEMMA ProductOrder ==
    ASSUME NEW a \in Nat, NEW b \in Nat, NEW y \in Nat
    PROVE  /\ a <= b => a * y <= b * y
           /\ a < b => a * y + y <= b * y
<1> DEFINE I == {n \in Nat : a * y <= (a + n) * y}
<1>1. 0 \in I
    BY SMT
<1>2. ASSUME NEW n \in I
      PROVE  n + 1 \in I
  <2>1. (a + (n + 1)) * y = (a + n) * y + y
      BY SMT
  <2>2. a * y \in Nat /\ (a + n) * y \in Nat
      BY SMT
  <2>. QED
      BY <2>1, <2>2
<1> HIDE DEF I
<1>3. \A n \in Nat : n \in I
  <2>1. I \in SUBSET Nat
      BY DEF I
  <2>. QED
      BY <1>1, <1>2, <2>1, InductionOnSet
<1>4. ASSUME NEW n \in Nat
      PROVE  a * y <= (a + n) * y
    BY <1>3 DEF I
<1>5. a <= b => a * y <= b * y
  <2> SUFFICES ASSUME a <= b
               PROVE  a * y <= b * y
      OBVIOUS
  <2>1. b - a \in Nat /\ a + (b - a) = b
      OBVIOUS
  <2>. QED
      BY <1>4, <2>1
<1>6. a < b => a * y + y <= b * y
  <2> SUFFICES ASSUME a < b
               PROVE  a * y + y <= b * y
      OBVIOUS
  <2> DEFINE n == b - a - 1
  <2>1. n \in Nat /\ (a + n) + 1 = b
      OBVIOUS
  <2>2. ((a + n) + 1) * y = (a + n) * y + y
      BY <2>1, SMT
  <2>3. a * y <= (a + n) * y
      BY <1>4, <2>1
  <2>4. a * y \in Nat /\ (a + n) * y \in Nat
      BY <2>1, SMT
  <2> HIDE DEF n
  <2>. QED
      BY <2>1, <2>2, <2>3, <2>4
<1>. QED
    BY <1>5, <1>6

LEMMA Quotient ==
    ASSUME NEW x \in Nat, NEW y \in Nat, y >= 1
    PROVE  /\ x \div y \in Nat /\ (x \div y) * y <= x
           /\ x < (x \div y) * y + y
    BY SMTT(30)

(* The chunks of a picture: m are sent, and are they all?                  *)
LEMMA ChunkCount ==
    ASSUME NEW len \in Nat, NEW m \in Nat
    PROVE  /\ Room3 \in Nat /\ Room3 >= 2 /\ m * Room3 \in Nat
           /\ Chunks(len) \in Nat /\ Chunks(len) <= 1 + len
           /\ m < Chunks(len) <=> m * Room3 <= len
<1>1. Room3 \in Nat /\ Room3 >= 2 /\ Room3 = MAX_PAYLOAD - 2
    BY MaxPayloadAssumption DEF Room3, CHUNK_HDR
<1> DEFINE y == Room3
           d == len \div y
<1>2. Chunks(len) = 1 + d
    BY <1>1 DEF Chunks
<1>3. y \in Nat /\ y >= 1
    BY <1>1
<1> HIDE DEF y
<1>4. d \in Nat /\ d * y <= len /\ len < d * y + y /\ d <= len
    BY <1>3, Quotient, QuotientBounded
<1> HIDE DEF d
<1>5. m * y \in Nat /\ d * y \in Nat
    BY <1>3, <1>4, SMT
<1>6. m <= d => m * y <= d * y
    BY <1>3, <1>4, ProductOrder
<1>7. d < m => d * y + y <= m * y
    BY <1>3, <1>4, ProductOrder
<1>8. m <= d <=> m * y <= len
  <2> DEFINE u == m * y
             v == d * y
  <2>1. /\ u \in Nat /\ v \in Nat /\ v <= len /\ len < v + y
        /\ m <= d => u <= v
        /\ d < m => v + y <= u
      BY <1>4, <1>5, <1>6, <1>7
  <2> HIDE DEF u, v
  <2>2. m <= d <=> u <= len
      BY <1>3, <1>4, <2>1
  <2>. QED
      BY <2>2 DEF u
<1>9. /\ Chunks(len) \in Nat /\ Chunks(len) <= 1 + len
      /\ m < Chunks(len) <=> m * y <= len
    BY <1>2, <1>4, <1>8
<1>. QED
    BY <1>1, <1>5, <1>9 DEF y

(* Going back from a place to the number of chunks before it.              *)
LEMMA PlaceToNumber ==
    ASSUME NEW m \in Nat, NEW y \in Nat, y >= 1
    PROVE  (m * y) \div y = m
<1> DEFINE x == m * y
           d == x \div y
<1>1. x \in Nat
    BY SMT
<1> HIDE DEF x
<1>2. d \in Nat /\ d * y <= x /\ x < d * y + y
    BY <1>1, Quotient
<1> HIDE DEF d
<1>3. d < m => d * y + y <= m * y
    BY <1>2, ProductOrder
<1>4. m < d => m * y + y <= d * y
    BY <1>2, ProductOrder
<1>5. x = m * y /\ d * y \in Nat /\ m * y \in Nat
    BY <1>2, SMT DEF x
<1>6. d = m
    BY <1>2, <1>3, <1>4, <1>5
<1>. QED
    BY <1>6 DEF d, x

(* A chunk's bytes.                                                        *)
LEMMA ChunkBytes ==
    ASSUME NEW s \in Byte, NEW g \in Byte, NEW head \in Seq(Byte),
           NEW data \in Seq(Byte)
    PROVE  LET p == <<s, g>> \o head \o data
           IN /\ p \in Seq(Byte) /\ Len(p) = 2 + Len(head) + Len(data)
              /\ p[1] = s /\ p[2] = g
              /\ \A i \in 1..Len(head) : p[2 + i] = head[i]
              /\ \A i \in 1..Len(data) : p[2 + Len(head) + i] = data[i]
<1> DEFINE hdr == <<s, g>>
           front == hdr \o head
           p == front \o data
<1>1. hdr \in Seq(Byte) /\ Len(hdr) = 2 /\ hdr[1] = s /\ hdr[2] = g
    OBVIOUS
<1> HIDE DEF hdr
<1>2. /\ front \in Seq(Byte) /\ Len(front) = 2 + Len(head)
      /\ \A i \in 1..(2 + Len(head)) :
            front[i] = IF i <= 2 THEN hdr[i] ELSE head[i - 2]
  <2>1. /\ front \in Seq(Byte) /\ Len(front) = Len(hdr) + Len(head)
        /\ \A i \in 1..(Len(hdr) + Len(head)) :
              front[i] = IF i <= Len(hdr) THEN hdr[i] ELSE head[i - Len(hdr)]
      BY <1>1, ConcatProperties
  <2> HIDE DEF front
  <2>2. Len(hdr) = 2
      BY <1>1
  <2>. QED
      BY <2>1, <2>2
<1> HIDE DEF front
<1>3. /\ p \in Seq(Byte) /\ Len(p) = Len(front) + Len(data)
      /\ \A i \in 1..(Len(front) + Len(data)) :
            p[i] = IF i <= Len(front) THEN front[i] ELSE data[i - Len(front)]
    BY <1>2, ConcatProperties
<1> HIDE DEF p
<1>4. Len(head) \in Nat /\ Len(data) \in Nat
    OBVIOUS
<1>5. p[1] = s /\ p[2] = g
    BY <1>1, <1>2, <1>3, <1>4
<1>6. ASSUME NEW i \in 1..Len(head)
      PROVE  p[2 + i] = head[i]
    BY <1>2, <1>3, <1>4
<1>7. ASSUME NEW i \in 1..Len(data)
      PROVE  p[2 + Len(head) + i] = data[i]
  <2> DEFINE j == 2 + Len(head) + i
  <2>1. /\ j \in 1..(Len(front) + Len(data)) /\ ~(j <= Len(front))
        /\ j - Len(front) = i
      BY <1>2, <1>4
  <2> HIDE DEF j
  <2>2. p[j] = data[j - Len(front)]
      BY <1>3, <2>1
  <2>. QED
      BY <2>1, <2>2 DEF j
<1>8. Len(p) = 2 + Len(head) + Len(data)
    BY <1>2, <1>3, <1>4
<1>. QED
    BY <1>3, <1>5, <1>6, <1>7, <1>8 DEF p, front, hdr

LEMMA PieceKey ==
    ASSUME NEW n \in 1..MaxRequests, NEW k \in Nat, NEW len, NEW f,
           PieceOf(f, n, k, len)
    PROVE  /\ k <= 255 /\ f.payload[1] = k /\ ShowOf(f) = n
           /\ Key(f) = n * 256 + k /\ IsPiece(f)
<1>1. /\ f \in Frames /\ f.payload \in Seq(Byte) /\ IsPiece(f)
      /\ Len(f.payload) >= DataAt(k) /\ f.payload[1] = k
      /\ \A i \in DataAt(k)..Len(f.payload) : f.payload[i] = Colour(n)
    BY ProperAreFrames DEF PieceOf, Frames
<1>2. /\ DataAt(k) \in {3, 4} /\ Len(f.payload) \in Nat
    BY <1>1 DEF DataAt
<1>3. 1 \in 1..Len(f.payload) /\ DataAt(k) \in DataAt(k)..Len(f.payload)
    BY <1>1, <1>2
<1>4. k <= 255
  <2>1. f.payload[1] \in Byte
      BY <1>1, <1>3
  <2>. QED
      BY <1>1, <2>1 DEF Byte
<1>5. f.payload[DataAt(k)] = Colour(n)
    BY <1>1, <1>3
<1>7. ShowOf(f) = n
    BY <1>1, <1>5 DEF ShowOf, Colour, FRAME_START
<1>. QED
    BY <1>1, <1>4, <1>7 DEF Key

(* The frame sendImage writes is the next chunk of the picture in hand.    *)
LEMMA NextPiece ==
    ASSUME CameraTyped, LineTyped, LineTyped', NEW len, NEW m,
           CameraAt(len, m), sendImage
    PROVE  /\ camTask = "send" /\ taken' = taken
           /\ \E f : /\ sent' = Append(sent, f)
                     /\ PieceOf(f, taken, m, len[taken])
           /\ \/ /\ camTask' = "send" /\ picture' = picture
                 /\ off' = (m + 1) * Room3 - 1
                 /\ m + 1 < Chunks(len[taken])
              \/ camTask' = "wait" /\ Chunks(len[taken]) = m + 1
<1> DEFINE L     == Len(picture)
           first == off = 0
           head  == IF first THEN <<L>> ELSE <<>>
           room  == MAX_PAYLOAD - CHUNK_HDR - Len(head)
           n     == Min({L - off, room})
           last  == off + n >= L
           later == MAX_PAYLOAD - CHUNK_HDR
           seq   == IF first THEN 0
                    ELSE 1 + (off - (later - FIRST_HDR)) \div later
           flags == (IF first THEN FLAG_FIRST ELSE 0)
                       + (IF last THEN FLAG_LAST ELSE 0)
           data  == SubSeq(picture, off + 1, off + n)
           payload == <<seq, flags>> \o head \o data
           f == [type |-> IMAGE_CHUNK, payload |-> payload]
<1>1. /\ camTask = "send"
      /\ uart_write_bytes(IMAGE_CHUNK, payload)
      /\ off' = IF last THEN 0 ELSE off + n
      /\ camTask' = IF last THEN "wait" ELSE "send"
      /\ picture' = IF last THEN <<>> ELSE picture
      /\ taken' = taken
    BY DEF sendImage
<1>2. sent' = Append(sent, f)
    BY <1>1 DEF uart_write_bytes
<1>3. /\ CHUNK_HDR = 2 /\ FIRST_HDR = 1 /\ FLAG_FIRST = 1 /\ FLAG_LAST = 2
      /\ Room3 = MAX_PAYLOAD - 2 /\ later = Room3
    BY DEF CHUNK_HDR, FIRST_HDR, FLAG_FIRST, FLAG_LAST, Room3
<1>4. /\ taken \in 1..MaxRequests /\ len[taken] \in 1..255 /\ m \in Nat
      /\ picture = Content(taken, len[taken])
      /\ off = (IF m = 0 THEN 0 ELSE m * Room3 - 1)
      /\ m < Chunks(len[taken])
    BY <1>1, ByteAssumption DEF CameraAt, CameraTyped
<1>5. /\ picture \in Seq(Byte) /\ L = len[taken] /\ L \in Nat /\ L <= 255
      /\ off \in Nat /\ off < L
  <2>1. taken \in Nat /\ taken <= 255
      BY <1>4, ByteAssumption
  <2>2. len[taken] \in Nat
      BY <1>4
  <2>3. Len(Content(taken, len[taken])) = len[taken]
      BY <2>1, <2>2, ContentTyped
  <2>4. L = len[taken]
      BY <1>4, <2>3
  <2>5. picture \in Seq(Byte) /\ off \in 0..Len(picture) /\ off < Len(picture)
      BY <1>1 DEF CameraTyped
  <2>6. picture \in Seq(Byte) /\ L \in 1..255 /\ off \in 0..L /\ off < L
      BY <1>4, <2>4, <2>5
  <2> HIDE DEF L
  <2>7. L \in Nat /\ L <= 255 /\ off \in Nat
      BY <2>6
  <2>. QED
      BY <2>4, <2>6, <2>7, Zenon
<1>6. \A i \in 1..L : picture[i] = Colour(taken)
    BY <1>4, <1>5 DEF Content, Colour
<1> HIDE DEF L
<1>7. /\ Room3 \in Nat /\ Room3 >= 2 /\ m * Room3 \in Nat
      /\ m + 1 \in Nat /\ (m + 1) * Room3 \in Nat
      /\ m * Room3 <= L
      /\ Chunks(L) \in Nat
      /\ m + 1 < Chunks(L) <=> (m + 1) * Room3 <= L
  <2>1. m + 1 \in Nat
      BY <1>4
  <2>. QED
      BY <1>4, <1>5, <2>1, ChunkCount
<1>8. (m + 1) * Room3 = m * Room3 + Room3
    BY <1>4, <1>7, SMT
<1>9. m >= 1 => m * Room3 >= Room3 /\ m - 1 \in Nat
                  /\ (m - 1) * Room3 = m * Room3 - Room3
  <2>1. m >= 1 => 1 * Room3 <= m * Room3
      BY <1>4, <1>7, ProductOrder
  <2>2. 1 * Room3 = Room3 /\ (m - 1) * Room3 = m * Room3 - Room3
      BY <1>4, <1>7, SMT
  <2>. QED
      BY <1>4, <2>1, <2>2
<1> DEFINE y == Room3
           u == m * Room3
           v == (m + 1) * Room3
<1>10. /\ y \in Nat /\ y >= 2 /\ u \in Nat /\ v \in Nat /\ v = u + y
       /\ u <= L /\ (m + 1 < Chunks(L) <=> v <= L)
       /\ (m >= 1 => u >= y) /\ off = (IF m = 0 THEN 0 ELSE u - 1)
       /\ (m = 0 => u = 0)
    BY <1>4, <1>7, <1>8, <1>9, SMT
<1>11. first <=> m = 0
  <2> HIDE DEF u, y
  <2>. QED
      BY <1>4, <1>10
<1>12. seq = m
  <2>1. CASE m = 0
      BY <1>11, <2>1
  <2>2. CASE m # 0
    <3> DEFINE w == (m - 1) * Room3
    <3>1. off - (later - FIRST_HDR) = w
      <4>1. w = u - y
          BY <1>4, <1>9, <2>2
      <4>2. off = u - 1 /\ later = y /\ FIRST_HDR = 1
          BY <1>3, <1>10, <2>2
      <4> HIDE DEF w, u, y, later
      <4>. QED
          BY <1>10, <4>1, <4>2
    <3>2. w \div Room3 = m - 1
        BY <1>4, <1>7, <1>9, <2>2, PlaceToNumber
    <3> HIDE DEF w
    <3>3. seq = 1 + w \div Room3
        BY <1>3, <1>11, <2>2, <3>1
    <3>. QED
        BY <1>4, <3>2, <3>3
  <2>. QED
      BY <2>1, <2>2
<1> HIDE DEF seq
<1>13. head \in Seq(Byte) /\ Len(head) = (IF m = 0 THEN 1 ELSE 0)
          /\ (m = 0 => head[1] = L)
  <2>1. L \in Byte
    <3>1. \A x \in Nat : x <= 255 => x \in Byte
        BY DEF Byte
    <3>. QED
        BY <1>5, <3>1
  <2>. QED
      BY <1>11, <2>1
<1> HIDE DEF head
<1>14. room = y - (IF m = 0 THEN 1 ELSE 0) /\ room \in Nat /\ room >= 1
  <2>1. /\ room = MAX_PAYLOAD - 2 - (IF m = 0 THEN 1 ELSE 0)
        /\ y = MAX_PAYLOAD - 2
      BY <1>3, <1>13
  <2> HIDE DEF y, room
  <2>. QED
      BY <1>10, <2>1, MaxPayloadAssumption
<1> HIDE DEF room
<1>15. n \in Nat /\ n >= 1 /\ off + n <= L
          /\ (IF last THEN off + n = L /\ L < v
              ELSE off + n = v - 1 /\ v <= L)
  <2>1. L - off \in Int /\ room \in Int /\ L - off >= 1
      BY <1>5, <1>14
  <2>2. n \in {L - off, room} /\ n <= L - off /\ n <= room
      BY <2>1, MinOfTwo
  <2>3. off + room = v - 1
    <3> HIDE DEF u, v, y
    <3>. QED
        BY <1>4, <1>10, <1>14
  <2> HIDE DEF n, u, v, y
  <2>. QED
      BY <1>5, <1>10, <1>14, <2>1, <2>2, <2>3
<1>16. last <=> Chunks(L) = m + 1
  <2>1. m < Chunks(L) /\ Chunks(L) \in Nat
      BY <1>4, <1>5, <1>7
  <2>2. last <=> ~(v <= L)
    <3> HIDE DEF u, v, y, n
    <3>. QED
        BY <1>5, <1>10, <1>15
  <2> HIDE DEF v, last
  <2>. QED
      BY <1>4, <1>10, <2>1, <2>2
<1> HIDE DEF n
<1>17. flags \in Byte /\ flags % 2 = (IF m = 0 THEN 1 ELSE 0)
  <2>1. flags \in {0, 1, 2, 3} /\ (m = 0 <=> flags \in {1, 3})
      BY <1>3, <1>11
  <2> HIDE DEF flags
  <2>. QED
      BY <2>1 DEF Byte
<1>18. data \in Seq(Byte) /\ Len(data) = n
          /\ \A i \in 1..n : data[i] = Colour(taken)
  <2>1. \A i \in (off + 1)..(off + n) : picture[i] \in Byte
    <3>1. (off + 1)..(off + n) \subseteq 1..L
        BY <1>5, <1>15
    <3>. QED
        BY <1>5, <3>1 DEF L
  <2>2. off + 1 \in Int /\ off + n \in Int /\ off + 1 <= off + n
           /\ (off + n) - (off + 1) + 1 = n
      BY <1>5, <1>15
  <2>3. /\ data \in Seq(Byte) /\ Len(data) = n
        /\ \A i \in 1..n : data[i] = picture[off + 1 + i - 1]
      BY <2>1, <2>2, SubSeqProperties
  <2> HIDE DEF data
  <2>4. ASSUME NEW i \in 1..n
        PROVE  data[i] = Colour(taken)
    <3> DEFINE j == off + 1 + i - 1
    <3>1. j \in 1..L
        BY <1>5, <1>15
    <3> HIDE DEF j
    <3>2. picture[j] = Colour(taken)
        BY <1>6, <3>1
    <3>. QED
        BY <2>3, <3>2 DEF j
  <2>. QED
      BY <2>3, <2>4
<1> HIDE DEF data, flags
<1>19. /\ payload \in Seq(Byte) /\ Len(payload) = 2 + Len(head) + n
       /\ payload[1] = m /\ payload[2] % 2 = (IF m = 0 THEN 1 ELSE 0)
       /\ m = 0 => payload[3] = L
       /\ \A i \in 1..n : payload[2 + Len(head) + i] = Colour(taken)
  <2>1. seq \in Byte
    <3>1. m <= L
      <4>1. m * 2 <= m * Room3
        <5>1. 2 * m <= Room3 * m
            BY <1>4, <1>7, ProductOrder
        <5>2. 2 * m = m * 2 /\ Room3 * m = m * Room3
            BY <1>4, <1>7, SMT
        <5>. QED
            BY <5>1, <5>2
      <4> HIDE DEF u
      <4>2. m * 2 <= u /\ u <= L /\ u \in Nat
          BY <1>10, <4>1 DEF u
      <4>. QED
          BY <1>4, <1>5, <4>2
    <3>. QED
        BY <1>4, <1>5, <1>12, <3>1 DEF Byte
  <2>2. /\ payload \in Seq(Byte) /\ Len(payload) = 2 + Len(head) + Len(data)
        /\ payload[1] = seq /\ payload[2] = flags
        /\ \A i \in 1..Len(head) : payload[2 + i] = head[i]
        /\ \A i \in 1..Len(data) : payload[2 + Len(head) + i] = data[i]
      BY <1>13, <1>17, <1>18, <2>1, ChunkBytes
  <2> HIDE DEF payload
  <2>3. m = 0 => payload[3] = L
    <3>1. m = 0 => 1 \in 1..Len(head) /\ 2 + 1 = 3
        BY <1>13
    <3>. QED
        BY <1>13, <2>2, <3>1
  <2>. QED
      BY <1>12, <1>13, <1>17, <1>18, <2>2, <2>3
<1> HIDE DEF payload
<1>20. PieceOf(f, taken, m, len[taken])
  <2>1. f \in Proper
    <3>1. sent' \in Seq(Proper) /\ sent \in Seq(Proper)
        BY DEF LineTyped
    <3>2. Len(sent') = Len(sent) + 1 /\ sent'[Len(sent) + 1] = f
        BY <1>2, <3>1
    <3>3. Len(sent) + 1 \in 1..Len(sent')
        BY <3>1, <3>2
    <3>. QED
        BY <3>1, <3>2, <3>3
  <2>2. f.type = IMAGE_CHUNK /\ f.payload = payload
      OBVIOUS
  <2> HIDE DEF f
  <2>3. DataAt(m) = 2 + Len(head) + 1
      BY <1>13 DEF DataAt
  <2>4. \A i \in DataAt(m)..Len(payload) : payload[i] = Colour(taken)
    <3> SUFFICES ASSUME NEW i \in DataAt(m)..Len(payload)
                 PROVE  payload[i] = Colour(taken)
        OBVIOUS
    <3> DEFINE j == i - (2 + Len(head))
    <3>1. j \in 1..n /\ 2 + Len(head) + j = i
        BY <1>13, <1>15, <1>19, <2>3
    <3> HIDE DEF j
    <3>. QED
        BY <1>19, <3>1
  <2>5. Len(payload) >= DataAt(m)
      BY <1>13, <1>15, <1>19, <2>3
  <2>. QED
      BY <1>5, <1>19, <2>1, <2>2, <2>4, <2>5 DEF PieceOf, IsPiece
<1>21. \/ /\ camTask' = "send" /\ picture' = picture
          /\ off' = (m + 1) * Room3 - 1 /\ m + 1 < Chunks(L)
       \/ camTask' = "wait" /\ Chunks(L) = m + 1
  <2>1. CASE last
      BY <1>1, <1>16, <2>1
  <2>2. CASE ~last
    <3>1. off' = v - 1 /\ v <= L
        BY <1>1, <1>15, <2>2
    <3>2. m + 1 < Chunks(L)
        BY <1>10, <3>1
    <3>. QED
        BY <1>1, <2>2, <3>1, <3>2
  <2>. QED
      BY <2>1, <2>2
<1>. QED
    BY <1>1, <1>2, <1>5, <1>20, <1>21 DEF L

(* What is appended to what was sent.                                      *)
LEMMA AppendKeeps ==
    ASSUME NEW T, NEW S \in Seq(T), NEW f
    PROVE  LET A == Append(S, f)
           IN /\ Len(S) \in Nat /\ Len(A) = Len(S) + 1 /\ A[Len(A)] = f
              /\ \A i \in 1..Len(S) : i \in 1..Len(A) /\ A[i] = S[i]
              /\ \A i \in 1..Len(A) : i \in 1..Len(S) \/ i = Len(A)
<1>1. /\ Len(S) \in Nat /\ Len(Append(S, f)) = Len(S) + 1
      /\ Append(S, f)[Len(S) + 1] = f
      /\ \A i \in 1..Len(S) : Append(S, f)[i] = S[i]
    OBVIOUS
<1>. QED
    BY <1>1

LEMMA LengthIsNat == \A x \in 1..255 : x \in Nat /\ x <= 255
    OBVIOUS

(* The next chunk of the picture in hand comes after all the others.       *)
LEMMA PieceAdded ==
    ASSUME NEW S \in Seq(Proper), NEW t \in 1..MaxRequests,
           NEW len \in [1..t -> 1..255], NEW m \in Nat, m < Chunks(len[t]),
           PiecesSent(S, t, "send", len, m),
           NEW f, PieceOf(f, t, m, len[t]),
           NEW c, \/ c = "send" /\ m + 1 < Chunks(len[t])
                  \/ c # "send" /\ Chunks(len[t]) = m + 1
    PROVE  PiecesSent(Append(S, f), t, c, len, m + 1)
<1> DEFINE A == Append(S, f)
           l == Len(S)
<1>0. t \in Nat /\ t >= 1 /\ t <= MaxRequests /\ MaxRequests \in Nat
    BY ByteAssumption
<1>1. /\ l \in Nat /\ Len(A) = l + 1 /\ A[Len(A)] = f
      /\ \A i \in 1..l : i \in 1..Len(A) /\ A[i] = S[i]
      /\ \A i \in 1..Len(A) : i \in 1..l \/ i = Len(A)
    BY AppendKeeps
<1> HIDE DEF A, l
<1>2. /\ \A i \in 1..l : IsPiece(S[i]) =>
            \E n, k \in Nat : /\ Due(t, "send", len, m, n, k)
                              /\ PieceOf(S[i], n, k, len[n])
      /\ \A n, k \in Nat : Due(t, "send", len, m, n, k) =>
            \E i \in 1..l : IsPiece(S[i]) /\ Key(S[i]) = n * 256 + k
      /\ \A i, j \in 1..l : i < j /\ IsPiece(S[i]) /\ IsPiece(S[j])
            => Key(S[i]) < Key(S[j])
    BY DEF PiecesSent, l
<1>3. \A n, k \in Nat : Due(t, c, len, m + 1, n, k)
                           <=> Due(t, "send", len, m, n, k) \/ (n = t /\ k = m)
  <2> SUFFICES ASSUME NEW n \in Nat, NEW k \in Nat
               PROVE  Due(t, c, len, m + 1, n, k)
                         <=> Due(t, "send", len, m, n, k) \/ (n = t /\ k = m)
      OBVIOUS
  <2>1. t \in 1..t /\ Chunks(len[t]) \in Nat
    <3>1. t \in 1..t
        BY <1>0
    <3>2. len[t] \in 1..255
        BY <3>1
    <3>3. len[t] \in Nat
        BY <3>2, LengthIsNat
    <3>. QED
        BY <3>1, <3>3, ChunkCount
  <2>2. CASE n = t
    <3> DEFINE ch == Chunks(len[t])
    <3>1. /\ Due(t, c, len, m + 1, t, k)
                <=> k < ch /\ (c = "send" => k < m + 1)
          /\ Due(t, "send", len, m, t, k) <=> k < ch /\ k < m
        BY <2>1 DEF Due
    <3>2. /\ ch \in Nat /\ m < ch
          /\ \/ c = "send" /\ m + 1 < ch
             \/ c # "send" /\ ch = m + 1
        BY <2>1
    <3> HIDE DEF ch
    <3>3. k < ch /\ (c = "send" => k < m + 1) <=> k < m \/ k = m
        BY <3>2
    <3>. QED
        BY <2>2, <3>1, <3>2, <3>3
  <2>3. CASE n # t
      BY <2>3, Zenon DEF Due
  <2>. QED
      BY <2>2, <2>3
<1>4. IsPiece(f) /\ Key(f) = t * 256 + m
    BY PieceKey
<1>5. ASSUME NEW i \in 1..l, IsPiece(S[i])
      PROVE  Key(S[i]) < Key(f)
  <2>1. PICK n \in Nat, k \in Nat : /\ Due(t, "send", len, m, n, k)
                                    /\ PieceOf(S[i], n, k, len[n])
      BY <1>2, <1>5
  <2>2. n \in 1..t /\ n \in 1..MaxRequests /\ (n = t => k < m)
      BY <1>0, <2>1 DEF Due
  <2>3. Key(S[i]) = n * 256 + k /\ k <= 255
      BY <2>1, <2>2, PieceKey
  <2>4. n * 256 + k < t * 256 + m
      BY <1>0, <2>2, <2>3
  <2>. QED
      BY <1>4, <2>3, <2>4
<1>6. ASSUME NEW i \in 1..Len(A), IsPiece(A[i])
      PROVE  \E n, k \in Nat : Due(t, c, len, m + 1, n, k)
                                  /\ PieceOf(A[i], n, k, len[n])
  <2>1. CASE i \in 1..l
    <3>1. PICK n \in Nat, k \in Nat : /\ Due(t, "send", len, m, n, k)
                                      /\ PieceOf(S[i], n, k, len[n])
        BY <1>1, <1>2, <1>6, <2>1
    <3>2. A[i] = S[i] /\ Due(t, c, len, m + 1, n, k)
        BY <1>1, <1>3, <2>1, <3>1
    <3>. QED
        BY <3>1, <3>2, Zenon
  <2>2. CASE i = Len(A)
      BY <1>0, <1>1, <1>3, <2>2
  <2>. QED
      BY <1>1, <2>1, <2>2
<1>7. ASSUME NEW n \in Nat, NEW k \in Nat, Due(t, c, len, m + 1, n, k)
      PROVE  \E i \in 1..Len(A) : IsPiece(A[i]) /\ Key(A[i]) = n * 256 + k
  <2>1. CASE Due(t, "send", len, m, n, k)
    <3>1. PICK i \in 1..l : IsPiece(S[i]) /\ Key(S[i]) = n * 256 + k
        BY <1>2, <2>1
    <3>2. i \in 1..Len(A) /\ A[i] = S[i]
        BY <1>1
    <3>. QED
        BY <3>1, <3>2, Zenon
  <2>2. CASE n = t /\ k = m
    <3>1. Len(A) \in 1..Len(A)
        BY <1>1
    <3>. QED
        BY <1>1, <1>4, <2>2, <3>1
  <2>. QED
      BY <1>3, <1>7, <2>1, <2>2
<1>8. ASSUME NEW i \in 1..Len(A), NEW j \in 1..Len(A),
             i < j, IsPiece(A[i]), IsPiece(A[j])
      PROVE  Key(A[i]) < Key(A[j])
  <2>1. i \in 1..l /\ A[i] = S[i]
      BY <1>1, <1>8
  <2>2. CASE j \in 1..l
      BY <1>1, <1>2, <1>8, <2>1, <2>2
  <2>3. CASE j = Len(A)
      BY <1>1, <1>5, <1>8, <2>1, <2>3
  <2>. QED
      BY <1>1, <2>2, <2>3
<1>9. PiecesSent(A, t, c, len, m + 1)
    BY <1>6, <1>7, <1>8 DEF PiecesSent
<1>. QED
    BY <1>9 DEF A

LEMMA CommandAdded ==
    ASSUME NEW S \in Seq(Proper), NEW t, NEW len, NEW m, NEW c,
           PiecesSent(S, t, c, len, m), NEW f, ~IsPiece(f)
    PROVE  PiecesSent(Append(S, f), t, c, len, m)
<1> DEFINE A == Append(S, f)
           l == Len(S)
<1>1. /\ l \in Nat /\ Len(A) = l + 1 /\ A[Len(A)] = f
      /\ \A i \in 1..l : i \in 1..Len(A) /\ A[i] = S[i]
      /\ \A i \in 1..Len(A) : i \in 1..l \/ i = Len(A)
    BY AppendKeeps
<1> HIDE DEF A, l
<1>2. /\ \A i \in 1..l : IsPiece(S[i]) =>
            \E n, k \in Nat : /\ Due(t, c, len, m, n, k)
                              /\ PieceOf(S[i], n, k, len[n])
      /\ \A n, k \in Nat : Due(t, c, len, m, n, k) =>
            \E i \in 1..l : IsPiece(S[i]) /\ Key(S[i]) = n * 256 + k
      /\ \A i, j \in 1..l : i < j /\ IsPiece(S[i]) /\ IsPiece(S[j])
            => Key(S[i]) < Key(S[j])
    BY DEF PiecesSent, l
<1>3. \A i \in 1..Len(A) : IsPiece(A[i]) => i \in 1..l /\ A[i] = S[i]
    BY <1>1
<1>4. \A i \in 1..Len(A) : IsPiece(A[i]) =>
            \E n, k \in Nat : /\ Due(t, c, len, m, n, k)
                              /\ PieceOf(A[i], n, k, len[n])
    BY <1>2, <1>3
<1>5. \A n, k \in Nat : Due(t, c, len, m, n, k) =>
            \E i \in 1..Len(A) : IsPiece(A[i]) /\ Key(A[i]) = n * 256 + k
  <2> SUFFICES ASSUME NEW n \in Nat, NEW k \in Nat, Due(t, c, len, m, n, k)
               PROVE  \E i \in 1..Len(A) : /\ IsPiece(A[i])
                                           /\ Key(A[i]) = n * 256 + k
      OBVIOUS
  <2>1. PICK i \in 1..l : IsPiece(S[i]) /\ Key(S[i]) = n * 256 + k
      BY <1>2
  <2>2. i \in 1..Len(A) /\ A[i] = S[i]
      BY <1>1
  <2>. QED
      BY <2>1, <2>2, Zenon
<1>6. \A i, j \in 1..Len(A) : i < j /\ IsPiece(A[i]) /\ IsPiece(A[j])
            => Key(A[i]) < Key(A[j])
    BY <1>2, <1>3
<1>7. PiecesSent(A, t, c, len, m)
    BY <1>4, <1>5, <1>6 DEF PiecesSent
<1>. QED
    BY <1>7 DEF A

(* The chunks are the same while nothing is sent.                          *)
LEMMA SamePieces ==
    ASSUME NEW S, NEW t, NEW c, NEW len, NEW m,
           PiecesSent(S, t, c, len, m),
           NEW t2, NEW c2, NEW len2, NEW m2,
           \A n, k \in Nat :
              /\ Due(t2, c2, len2, m2, n, k) <=> Due(t, c, len, m, n, k)
              /\ Due(t, c, len, m, n, k) => len2[n] = len[n]
    PROVE  PiecesSent(S, t2, c2, len2, m2)
<1>1. ASSUME NEW i \in 1..Len(S), IsPiece(S[i])
      PROVE  \E n, k \in Nat : /\ Due(t2, c2, len2, m2, n, k)
                               /\ PieceOf(S[i], n, k, len2[n])
  <2>1. PICK n \in Nat, k \in Nat : /\ Due(t, c, len, m, n, k)
                                    /\ PieceOf(S[i], n, k, len[n])
      BY <1>1 DEF PiecesSent
  <2>. QED
      BY <2>1
<1>. QED
    BY <1>1 DEF PiecesSent

(* The S3 goes on from chunk to chunk and from picture to picture.         *)
LEMMA CameraGoesOn ==
    ASSUME WireTyped, WireTyped', NEW len, NEW m, CameraAt(len, m),
           PiecesSent(sent, taken, camTask, len, m),
           \/ sendControlCmd \/ CameraCapture \/ TakeRequest \/ captureJpeg
           \/ sendImage
    PROVE  \E len2, m2 :
              /\ CameraAt(len2, m2)'
              /\ PiecesSent(sent', taken', camTask', len2, m2)
              /\ \A n \in 1..taken : len2[n] = len[n]
<1>1. /\ CameraTyped /\ CameraTyped' /\ LineTyped /\ LineTyped'
      /\ sent \in Seq(Proper) /\ taken \in Nat /\ MaxRequests \in Nat
  <2>1. CameraTyped /\ CameraTyped' /\ LineTyped /\ LineTyped'
      BY DEF WireTyped
  <2>2. /\ sent \in Seq(Proper)
        /\ taken \in 0..requests /\ requests \in 0..MaxRequests
      BY <2>1, Zenon DEF CameraTyped, LineTyped
  <2>3. MaxRequests \in Nat
      BY ByteAssumption
  <2>4. taken \in Nat
      BY <2>2, <2>3
  <2>. QED
      BY <2>1, <2>2, <2>3, <2>4
<1>2. CASE sendControlCmd
  <2>1. UNCHANGED <<camTask, picture, off, taken>>
      BY <1>2 DEF sendControlCmd, s3Vars
  <2> DEFINE f == [type |-> CONTROL_CMD, payload |-> <<commands + 1>>]
  <2>2. sent' = Append(sent, f)
      BY <1>2 DEF sendControlCmd, uart_write_bytes
  <2>3. ~IsPiece(f)
      BY DEF IsPiece, CONTROL_CMD, IMAGE_CHUNK
  <2> HIDE DEF f
  <2>4. PiecesSent(sent', taken', camTask', len, m)
      BY <1>1, <2>1, <2>2, <2>3, CommandAdded
  <2>5. CameraAt(len, m)'
      BY <2>1 DEF CameraAt
  <2>. QED
      BY <2>4, <2>5
<1>3. CASE sendImage
  <2>1. camTask = "send" /\ taken' = taken /\ taken \in 1..MaxRequests
           /\ m \in Nat /\ m < Chunks(len[taken])
           /\ len \in [1..taken -> 1..255]
           /\ picture = Content(taken, len[taken])
    <3>1. camTask = "send" /\ taken' = taken
        BY <1>3 DEF sendImage
    <3>. QED
        BY <1>1, <3>1 DEF CameraAt, CameraTyped
  <2>2. PICK f : /\ sent' = Append(sent, f)
                 /\ PieceOf(f, taken, m, len[taken])
      BY <1>1, <1>3, NextPiece
  <2>3. \/ /\ camTask' = "send" /\ picture' = picture
           /\ off' = (m + 1) * Room3 - 1
           /\ m + 1 < Chunks(len[taken])
        \/ camTask' = "wait" /\ Chunks(len[taken]) = m + 1
      BY <1>1, <1>3, NextPiece
  <2>4. PiecesSent(sent', taken', camTask', len, m + 1)
    <3>1. PiecesSent(sent, taken, "send", len, m)
        BY <2>1
    <3>2. \/ camTask' = "send" /\ m + 1 < Chunks(len[taken])
          \/ camTask' # "send" /\ Chunks(len[taken]) = m + 1
        BY <2>3
    <3>3. PiecesSent(Append(sent, f), taken, camTask', len, m + 1)
        BY <1>1, <2>1, <2>2, <3>1, <3>2, PieceAdded
    <3>. QED
        BY <2>1, <2>2, <3>3
  <2>5. CameraAt(len, m + 1)'
    <3>1. m + 1 \in Nat /\ m + 1 # 0 /\ taken >= 1
        BY <2>1
    <3>. QED
        BY <2>1, <2>3, <3>1 DEF CameraAt
  <2>. QED
      BY <2>4, <2>5
<1>4. CASE CameraCapture \/ TakeRequest
  <2>1. UNCHANGED <<picture, off, taken, sent>>
           /\ (camTask' = "send" <=> camTask = "send")
      BY <1>4 DEF CameraCapture, TakeRequest, lineVars, c5Vars, histVars
  <2>2. PiecesSent(sent', taken', camTask', len, m)
    <3>1. \A n, k \in Nat : Due(taken', camTask', len, m, n, k)
                               <=> Due(taken, camTask, len, m, n, k)
        BY <2>1 DEF Due
    <3>. QED
        BY <2>1, <3>1, SamePieces
  <2>3. CameraAt(len, m)'
      BY <2>1 DEF CameraAt
  <2>. QED
      BY <2>2, <2>3
<1>5. CASE captureJpeg
  <2>1. /\ camTask = "capture" /\ off = 0 /\ off' = 0 /\ sent' = sent
        /\ \/ \E l \in Lengths :
                 /\ picture' = Content(taken + 1, l)
                 /\ taken' = taken + 1 /\ camTask' = "send"
           \/ camTask' = "wait" /\ UNCHANGED <<picture, taken>>
      BY <1>1, <1>5 DEF captureJpeg, lineVars, CameraTyped
  <2>2. CASE camTask' = "wait" /\ UNCHANGED <<picture, taken>>
    <3>1. \A n, k \in Nat : Due(taken', camTask', len, m, n, k)
                               <=> Due(taken, camTask, len, m, n, k)
        BY <2>1, <2>2 DEF Due
    <3>2. PiecesSent(sent', taken', camTask', len, m)
        BY <2>1, <2>2, <3>1, SamePieces
    <3>3. CameraAt(len, m)'
        BY <2>2 DEF CameraAt
    <3>. QED
        BY <3>2, <3>3
  <2>3. CASE \E l \in Lengths :
                /\ picture' = Content(taken + 1, l)
                /\ taken' = taken + 1 /\ camTask' = "send"
    <3>1. PICK l \in Lengths :
                /\ picture' = Content(taken + 1, l)
                /\ taken' = taken + 1 /\ camTask' = "send"
        BY <2>3
    <3> DEFINE t == taken + 1
    <3>2. /\ l \in 1..255 /\ t \in Nat /\ t >= 1 /\ t \in 1..t
          /\ \A n \in 1..t : n \in 1..taken \/ n = t
          /\ \A n \in 1..taken : n \in 1..t /\ n # t /\ n # taken + 1
        BY <1>1, ByteAssumption
    <3>3. len \in [1..taken -> 1..255]
        BY DEF CameraAt
    <3>4. PICK len2 : /\ len2 \in [1..t -> 1..255] /\ len2[t] = l
                         /\ \A n \in 1..taken : len2[n] = len[n]
      <4> DEFINE new == [n \in 1..t |-> IF n = t THEN l ELSE len[n]]
      <4>1. /\ new \in [1..t -> 1..255] /\ new[t] = l
            /\ \A n \in 1..taken : new[n] = len[n]
          BY <3>2, <3>3
      <4>. QED
          BY <4>1
    <3>5. 0 < Chunks(l)
      <4>1. l \in Nat /\ 0 * Room3 <= l
        <5>1. l \in Nat /\ l >= 0 /\ Room3 \in Nat
            BY <3>2, ChunkCount, LengthIsNat
        <5>2. 0 * Room3 = 0
            BY <5>1, SMT
        <5>. QED
            BY <5>1, <5>2
      <4>. QED
          BY <4>1, ChunkCount
    <3>6. \A n, k \in Nat :
             /\ Due(taken', camTask', len2, 0, n, k)
                   <=> Due(taken, camTask, len, m, n, k)
             /\ Due(taken, camTask, len, m, n, k) => len2[n] = len[n]
      <4> SUFFICES ASSUME NEW n \in Nat, NEW k \in Nat
                   PROVE  /\ Due(t, "send", len2, 0, n, k)
                                <=> Due(taken, camTask, len, m, n, k)
                          /\ Due(taken, camTask, len, m, n, k)
                                => len2[n] = len[n]
          BY <3>1
      <4>1. ~(k < 0)
          OBVIOUS
      <4>2. CASE n \in 1..taken
        <5>1. n \in 1..t /\ n # t /\ len2[n] = len[n]
            BY <3>2, <3>4, <4>2
        <5>. QED
            BY <2>1, <4>2, <5>1, Zenon DEF Due
      <4>3. CASE n \notin 1..taken
        <5>1. n \in 1..t => n = t
            BY <3>2, <4>3
        <5>. QED
            BY <4>1, <4>3, <5>1, Zenon DEF Due
      <4>. QED
          BY <4>2, <4>3
    <3>7. PiecesSent(sent', taken', camTask', len2, 0)
      <4>1. PiecesSent(sent, taken', camTask', len2, 0)
          BY <3>6, SamePieces
      <4>. QED
          BY <2>1, <4>1
    <3>8. CameraAt(len2, 0)'
      <4>1. /\ taken' = t /\ taken' >= 1
            /\ picture' = Content(taken', len2[taken'])
            /\ off' = 0 /\ 0 < Chunks(len2[taken'])
            /\ len2 \in [1..taken' -> 1..255] /\ 0 \in Nat
          BY <2>1, <3>1, <3>2, <3>4, <3>5
      <4>. QED
          BY <4>1 DEF CameraAt
    <3>. QED
        BY <3>4, <3>7, <3>8
  <2>. QED
      BY <2>1, <2>2, <2>3
<1>. QED
    BY <1>2, <1>3, <1>4, <1>5

(* A set of chunks is finite, and as large as the numbers in it.           *)
LEMMA RangeFinite ==
    ASSUME NEW T, NEW S \in Seq(T)
    PROVE  IsFiniteSet(Range(S))
<1>1. DOMAIN S = 1..Len(S) /\ Len(S) \in Nat /\ S \in [1..Len(S) -> Range(S)]
    BY DEF Range
<1>2. S \in Surjection(1..Len(S), Range(S))
    BY <1>1 DEF Surjection, Range
<1>3. IsFiniteSet(1..Len(S))
    BY <1>1, FS_Interval
<1>. QED
    BY <1>2, <1>3, FS_Surjection

LEMMA ManyPieces ==
    ASSUME NEW L, IsFiniteSet(L), NEW c \in Nat,
           \A j \in 0..(c - 1) : \E f \in L : f.payload[1] = j
    PROVE  Cardinality(L) \in Nat /\ Cardinality(L) >= c
<1> DEFINE F == [j \in 0..(c - 1) |-> CHOOSE f \in L : f.payload[1] = j]
<1>1. F \in [0..(c - 1) -> L] /\ \A j \in 0..(c - 1) : F[j].payload[1] = j
    OBVIOUS
<1> HIDE DEF F
<1>2. F \in Injection(0..(c - 1), L)
    BY <1>1 DEF Injection, IsInjective
<1>3. IsFiniteSet(0..(c - 1)) /\ Cardinality(0..(c - 1)) = c
    BY FS_Interval
<1>4. Cardinality(0..(c - 1)) <= Cardinality(L)
    BY <1>2, FS_Injection
<1>5. Cardinality(L) \in Nat
    BY FS_CardinalityType
<1>. QED
    BY <1>3, <1>4, <1>5

(* What is lost stays lost.                                                *)
LEMMA LostGrows ==
    ASSUME NEW T, NEW S2 \in Seq(T), NEW S, NEW H, NEW H2,
           Range(S) \subseteq Range(S2), Range(H) \subseteq Range(H2),
           \A f \in Range(S2) \cup Range(H2) : IsPiece(f) => Key(f) \in Nat,
           \A h \in Range(H), x \in Range(H2) :
              IsPiece(h) /\ IsPiece(x) /\ x \notin Range(H) => Key(h) < Key(x)
    PROVE  /\ Lost(S, H) \subseteq Lost(S2, H2)
           /\ IsFiniteSet(Lost(S2, H2)) /\ Cardinality(Lost(S2, H2)) \in Nat
           /\ IsFiniteSet(Lost(S, H)) /\ Cardinality(Lost(S, H)) \in Nat
           /\ Cardinality(Lost(S, H)) <= Cardinality(Lost(S2, H2))
<1>1. ASSUME NEW f \in Lost(S, H)
      PROVE  f \in Lost(S2, H2)
  <2>1. PICK h \in Range(H) : IsPiece(h) /\ Key(f) < Key(h)
      BY DEF Lost
  <2>2. f \in Range(S) /\ IsPiece(f) /\ f \notin Range(H)
      BY DEF Lost
  <2>3. f \notin Range(H2)
    <3> SUFFICES ASSUME f \in Range(H2)
                 PROVE  FALSE
        OBVIOUS
    <3>1. Key(h) < Key(f) /\ Key(h) \in Nat /\ Key(f) \in Nat
        BY <2>1, <2>2
    <3>. QED
        BY <2>1, <3>1
  <2>. QED
      BY <2>1, <2>2, <2>3 DEF Lost
<1>2. IsFiniteSet(Range(S2)) /\ Lost(S2, H2) \in SUBSET Range(S2)
    BY RangeFinite DEF Lost
<1>3. IsFiniteSet(Lost(S2, H2))
    BY <1>2, FS_Subset
<1>4. /\ IsFiniteSet(Lost(S, H))
      /\ Cardinality(Lost(S, H)) <= Cardinality(Lost(S2, H2))
  <2>1. Lost(S, H) \in SUBSET Lost(S2, H2)
      BY <1>1
  <2>. QED
      BY <1>3, <2>1, FS_Subset
<1>. QED
    BY <1>1, <1>3, <1>4, FS_CardinalityType

(* What is known of a chunk that was sent.                                 *)
LEMMA PieceKnown ==
    ASSUME NEW S, NEW t \in 0..MaxRequests, NEW c, NEW len, NEW m,
           PiecesSent(S, t, c, len, m),
           NEW i \in 1..Len(S), IsPiece(S[i])
    PROVE  \E n, k \in Nat :
              /\ n \in 1..t /\ n >= 1 /\ n <= t /\ k <= 255
              /\ Due(t, c, len, m, n, k) /\ PieceOf(S[i], n, k, len[n])
              /\ S[i].payload[1] = k /\ ShowOf(S[i]) = n
              /\ Key(S[i]) = n * 256 + k /\ Key(S[i]) \in Nat
<1>1. PICK n \in Nat, k \in Nat : /\ Due(t, c, len, m, n, k)
                                  /\ PieceOf(S[i], n, k, len[n])
    BY DEF PiecesSent
<1>2. n \in 1..t
    BY <1>1 DEF Due
<1>3. n \in 1..MaxRequests
    BY <1>2, ByteAssumption
<1>4. /\ k <= 255 /\ S[i].payload[1] = k /\ ShowOf(S[i]) = n
      /\ Key(S[i]) = n * 256 + k
    BY <1>1, <1>3, PieceKey
<1>5. Key(S[i]) \in Nat
    BY <1>4
<1>6. n >= 1 /\ n <= t
    BY <1>2, ByteAssumption
<1>. QED
    BY <1>1, <1>2, <1>4, <1>5, <1>6

(* H's frames are frames of S, in order; S's chunks are in order of key.   *)
Picked(H, S, pos) ==
    /\ pos \in [1..Len(H) -> 1..Len(S)]
    /\ \A i, j \in 1..Len(H) : i < j => pos[i] < pos[j]
    /\ \A j \in 1..Len(H) : H[j] = S[pos[j]]

KeysRise(S) == \A i, j \in 1..Len(S) : i < j /\ IsPiece(S[i]) /\ IsPiece(S[j])
                  => Key(S[i]) < Key(S[j])

(* Only a chunk that comes up after the others has a higher key.           *)
LEMMA NewestKey ==
    ASSUME NEW T, NEW S, NEW H \in Seq(T), NEW x, NEW A, A = Append(H, x),
           NEW pos, Picked(A, S, pos), KeysRise(S)
    PROVE  /\ \E i \in 1..Len(S) : x = S[i]
           /\ \A h \in Range(H) : \E i \in 1..Len(S) : h = S[i]
           /\ Range(A) = Range(H) \cup {x}
           /\ \A h \in Range(H) :
                 IsPiece(h) /\ IsPiece(x) => Key(h) < Key(x)
<1> DEFINE l == Len(H)
<1>1. /\ l \in Nat /\ Len(A) = l + 1 /\ A[Len(A)] = x
      /\ \A i \in 1..l : i \in 1..Len(A) /\ A[i] = H[i]
      /\ \A i \in 1..Len(A) : i \in 1..l \/ i = Len(A)
    BY AppendKeeps
<1>2. DOMAIN A = 1..Len(A) /\ DOMAIN H = 1..l
    OBVIOUS
<1>3. /\ pos \in [1..Len(A) -> 1..Len(S)]
      /\ \A i, j \in 1..Len(A) : i < j => pos[i] < pos[j]
      /\ \A j \in 1..Len(A) : A[j] = S[pos[j]]
    BY Zenon DEF Picked
<1> HIDE DEF l
<1>4. Len(A) \in 1..Len(A) /\ pos[Len(A)] \in 1..Len(S)
    <2>1. Len(A) \in 1..Len(A)
        BY <1>1
    <2>. QED
        BY <1>3, <2>1
<1>5. x = S[pos[Len(A)]]
    BY <1>1, <1>3, <1>4
<1>6. ASSUME NEW h \in Range(H)
      PROVE  \E i \in 1..Len(S) : h = S[i] /\ i < pos[Len(A)]
  <2>1. PICK i \in 1..l : h = H[i]
      BY <1>2 DEF Range
  <2>2. i \in 1..Len(A) /\ A[i] = h /\ i < Len(A)
      BY <1>1, <2>1
  <2>3. pos[i] \in 1..Len(S) /\ h = S[pos[i]] /\ pos[i] < pos[Len(A)]
      BY <1>3, <1>4, <2>2
  <2>. QED
      BY <2>3
<1>7. Range(A) = Range(H) \cup {x}
  <2>1. ASSUME NEW y \in Range(A)
        PROVE  y \in Range(H) \cup {x}
    <3>1. PICK i \in 1..Len(A) : y = A[i]
        BY <1>2 DEF Range
    <3>2. CASE i \in 1..l
      <4>1. y = H[i] /\ i \in DOMAIN H
          BY <1>1, <1>2, <3>1, <3>2
      <4>. QED
          BY <4>1 DEF Range
    <3>3. CASE i = Len(A)
        BY <1>1, <3>1, <3>3
    <3>. QED
        BY <1>1, <3>2, <3>3
  <2>2. x \in Range(A)
      BY <1>1, <1>2, <1>4 DEF Range
  <2>3. ASSUME NEW y \in Range(H)
        PROVE  y \in Range(A)
    <3>1. PICK i \in 1..l : y = H[i]
        BY <1>2 DEF Range
    <3>2. i \in DOMAIN A /\ A[i] = y
        BY <1>1, <1>2, <3>1
    <3>. QED
        BY <3>2 DEF Range
  <2>. QED
      BY <2>1, <2>2, <2>3
<1>8. ASSUME NEW h \in Range(H), IsPiece(h), IsPiece(x)
      PROVE  Key(h) < Key(x)
  <2>1. PICK i \in 1..Len(S) : h = S[i] /\ i < pos[Len(A)]
      BY <1>6
  <2>. QED
      BY <1>4, <1>5, <1>8, <2>1 DEF KeysRise
<1>9. \E i \in 1..Len(S) : x = S[i]
    BY <1>4, <1>5
<1>10. \A h \in Range(H) : \E i \in 1..Len(S) : h = S[i]
    BY <1>6
<1>. QED
    BY <1>7, <1>8, <1>9, <1>10

Digits(x, n, k) == n \in Nat /\ k \in Nat /\ k <= 255 /\ x = n * 256 + k

LEMMA SameDigits ==
    \A x, u, v, r, j : Digits(x, u, v) /\ Digits(x, r, j) => v = j
    BY DEF Digits

(* Where the next number in the row belongs to another picture, the rest   *)
(* of the one and the beginning of the other are lost.                     *)
LEMMA Joined ==
    ASSUME NEW S \in Seq(Proper), NEW t \in 0..MaxRequests, NEW c, NEW len,
           len \in [1..t -> 1..255], NEW m \in Nat,
           PiecesSent(S, t, c, len, m),
           NEW a \in 1..Len(S), IsPiece(S[a]),
           NEW b \in 1..Len(S), IsPiece(S[b]),
           NEW H, NEW H2, Range(H2) = Range(H) \cup {S[b]},
           \A y \in Range(H) : /\ \E i \in 1..Len(S) : y = S[i]
                               /\ IsPiece(y) => Key(y) <= Key(S[a]),
           Key(S[a]) < Key(S[b]),
           S[b].payload[1] = S[a].payload[1] + 1,
           ShowOf(S[a]) # ShowOf(S[b])
    PROVE  Cardinality(Lost(S, H2)) >= Chunks(len[ShowOf(S[a])])
<1> DEFINE L == Lost(S, H2)
           x == S[b]
<1>0. t \in Nat
    BY ByteAssumption
<1>1. PICK p \in Nat, q \in Nat :
         /\ p \in 1..t /\ p >= 1 /\ p <= t /\ q <= 255
         /\ Due(t, c, len, m, p, q) /\ PieceOf(S[a], p, q, len[p])
         /\ S[a].payload[1] = q /\ ShowOf(S[a]) = p
         /\ Key(S[a]) = p * 256 + q /\ Key(S[a]) \in Nat
    BY PieceKnown
<1>2. PICK n \in Nat, k \in Nat :
         /\ n \in 1..t /\ n >= 1 /\ n <= t /\ k <= 255
         /\ Due(t, c, len, m, n, k) /\ PieceOf(x, n, k, len[n])
         /\ x.payload[1] = k /\ ShowOf(x) = n
         /\ Key(x) = n * 256 + k /\ Key(x) \in Nat
    BY PieceKnown
<1> HIDE DEF x
<1>3. k = q + 1 /\ n # p /\ p * 256 + q < n * 256 + k
    BY <1>1, <1>2 DEF x
<1>4. /\ p \in Nat /\ n \in Nat /\ k \in Nat /\ q \in Nat /\ k <= 255
      /\ p < n /\ p # t /\ p >= 1 /\ n <= t
    BY <1>0, <1>1, <1>2, <1>3
<1>5. DOMAIN S = 1..Len(S)
    OBVIOUS
<1>6. ASSUME NEW r \in Nat, NEW j \in Nat, j <= 255,
             Due(t, c, len, m, r, j), r * 256 + j < n * 256 + k,
             r * 256 + j > p * 256 + q
      PROVE  \E f \in L : f.payload[1] = j
  <2>1. PICK i \in 1..Len(S) : IsPiece(S[i]) /\ Key(S[i]) = r * 256 + j
      BY <1>6 DEF PiecesSent
  <2>2. PICK u \in Nat, v \in Nat :
         /\ u \in 1..t /\ u >= 1 /\ u <= t /\ v <= 255
         /\ Due(t, c, len, m, u, v) /\ PieceOf(S[i], u, v, len[u])
         /\ S[i].payload[1] = v /\ ShowOf(S[i]) = u
         /\ Key(S[i]) = u * 256 + v /\ Key(S[i]) \in Nat
      BY <2>1, PieceKnown
  <2>3. v = j
    <3>1. Digits(Key(S[i]), u, v)
        BY <2>2, Zenon DEF Digits
    <3>2. Digits(Key(S[i]), r, j)
        BY <1>6, <2>1, Zenon DEF Digits
    <3>. QED
        BY <3>1, <3>2, SameDigits, Zenon
  <2>4. S[i] # x
      BY <1>2, <1>4, <1>6, <2>1
  <2>5. S[i] \notin Range(H)
    <3> SUFFICES ASSUME S[i] \in Range(H)
                 PROVE  FALSE
        OBVIOUS
    <3>1. Key(S[i]) <= Key(S[a])
        BY <2>1
    <3>. QED
        BY <1>1, <1>4, <1>6, <2>1, <3>1
  <2>6. S[i] \notin Range(H2) /\ x \in Range(H2)
      BY <2>4, <2>5 DEF x
  <2>7. IsPiece(x) /\ Key(S[i]) < Key(x)
      BY <1>2, <1>6, <2>1 DEF x
  <2>8. S[i] \in Range(S)
      BY <1>5 DEF Range
  <2>9. S[i] \in L
      BY <2>1, <2>6, <2>7, <2>8 DEF Lost
  <2>. QED
      BY <2>2, <2>3, <2>9
<1>7. len[p] \in Nat /\ Chunks(len[p]) \in Nat /\ Chunks(len[p]) <= 256
  <2>1. len[p] \in 1..255
      BY <1>1
  <2>2. len[p] \in Nat /\ len[p] <= 255
      BY <2>1, LengthIsNat
  <2>3. Chunks(len[p]) \in Nat /\ Chunks(len[p]) <= 1 + len[p]
      BY <2>2, ChunkCount
  <2>. QED
      BY <2>2, <2>3
<1>8. Chunks(len[n]) \in Nat
  <2>1. len[n] \in 1..255
      BY <1>2
  <2>2. len[n] \in Nat
      BY <2>1, LengthIsNat
  <2>. QED
      BY <2>2, ChunkCount
<1>9. ASSUME NEW j \in 0..(Chunks(len[p]) - 1)
      PROVE  \E f \in L : f.payload[1] = j
  <2>1. j \in Nat /\ j <= 255 /\ j < Chunks(len[p])
      BY <1>7
  <2>2. CASE j < k
    <3>1. Due(t, c, len, m, n, j)
      <4>1. /\ n \in 1..t /\ k < Chunks(len[n])
            /\ n = t /\ c = "send" => k < m
          BY <1>2 DEF Due
      <4>2. j < Chunks(len[n]) /\ (k < m => j < m)
          BY <1>4, <1>8, <2>1, <2>2, <4>1
      <4>. QED
          BY <2>1, <4>1, <4>2 DEF Due
    <3>2. n * 256 + j < n * 256 + k /\ n * 256 + j > p * 256 + q
        BY <1>3, <1>4, <2>1, <2>2
    <3>. QED
        BY <1>4, <1>6, <2>1, <3>1, <3>2
  <2>3. CASE ~(j < k)
    <3>1. Due(t, c, len, m, p, j)
        BY <1>1, <1>4, <2>1 DEF Due
    <3>2. p * 256 + j < n * 256 + k /\ p * 256 + j > p * 256 + q
        BY <1>3, <1>4, <2>1, <2>3
    <3>. QED
        BY <1>4, <1>6, <2>1, <3>1, <3>2
  <2>. QED
      BY <2>2, <2>3
<1>10. IsFiniteSet(L)
  <2>1. L \in SUBSET Range(S) /\ IsFiniteSet(Range(S))
      BY RangeFinite DEF Lost
  <2>. QED
      BY <2>1, FS_Subset
<1> HIDE DEF L
<1>11. Cardinality(L) >= Chunks(len[p])
    BY <1>7, <1>9, <1>10, ManyPieces
<1>. QED
    BY <1>1, <1>11 DEF L

(* What a chunk of a picture holds.                                        *)
LEMMA ChunkData ==
    ASSUME NEW n, NEW k \in Nat, NEW l, NEW x, PieceOf(x, n, k, l)
    PROVE  LET p == x.payload
               data == SubSeq(p, 3, Len(p))
           IN /\ p[1] = k /\ data \in Seq(Byte) /\ data # <<>>
              /\ k = 0 => /\ p[2] % 2 = 1 /\ data[1] = l
                          /\ Tail(data) \in Seq(Byte) /\ OfOne(Tail(data), n)
              /\ k # 0 => p[2] % 2 = 0 /\ OfOne(data, n)
<1> DEFINE p == x.payload
           data == SubSeq(p, 3, Len(p))
           c == Colour(n)
<1>1. /\ p \in Seq(Byte) /\ Len(p) \in Nat /\ p[1] = k
      /\ p[2] % 2 = (IF k = 0 THEN 1 ELSE 0) /\ (k = 0 => p[3] = l)
      /\ Len(p) >= DataAt(k) /\ DataAt(k) = (IF k = 0 THEN 4 ELSE 3)
      /\ \A i \in DataAt(k)..Len(p) : p[i] = c
    BY ProperAreFrames DEF PieceOf, Frames, DataAt
<1> HIDE DEF p, c
<1>2. /\ Len(p) >= 3
      /\ k = 0 => Len(p) >= 4 /\ \A i \in 4..Len(p) : p[i] = c
      /\ k # 0 => \A i \in 3..Len(p) : p[i] = c
    BY <1>1
<1>3. /\ data \in Seq(Byte) /\ Len(data) = Len(p) - 2
      /\ \A i \in 1..Len(data) : data[i] = p[i + 2]
  <2>1. \A i \in 3..Len(p) : p[i] \in Byte
    <3>1. 3..Len(p) \subseteq 1..Len(p)
        BY <1>1
    <3>. QED
        BY <1>1, <3>1
  <2>2. /\ data \in Seq(Byte)
        /\ Len(data) = IF 3 <= Len(p) THEN Len(p) - 3 + 1 ELSE 0
        /\ \A i \in 1..(Len(p) - 3 + 1) : data[i] = p[3 + i - 1]
      BY <1>1, <2>1, SubSeqProperties
  <2> HIDE DEF data
  <2>. QED
      BY <1>1, <1>2, <2>2
<1> HIDE DEF data
<1>4. data # <<>>
    BY <1>1, <1>2, <1>3
<1>5. k # 0 => OfOne(data, n)
  <2> SUFFICES ASSUME k # 0, NEW i \in 1..Len(data)
               PROVE  data[i] = c
      BY DEF OfOne, c
  <2>1. i + 2 \in 3..Len(p)
      BY <1>1, <1>2, <1>3
  <2>. QED
      BY <1>2, <1>3, <2>1
<1>6. k = 0 => data[1] = l
  <2>1. 1 \in 1..Len(data) /\ 1 + 2 = 3
      BY <1>1, <1>2, <1>3
  <2>2. data[1] = p[1 + 2]
      BY <1>3, <2>1
  <2>. QED
      BY <1>1, <2>1, <2>2
<1>7. /\ Tail(data) \in Seq(Byte) /\ Len(Tail(data)) = Len(data) - 1
      /\ \A i \in 1..Len(Tail(data)) : Tail(data)[i] = data[i + 1]
    BY <1>3, <1>4, HeadTailProperties
<1> DEFINE more == Tail(data)
<1> HIDE DEF more
<1>8. k = 0 => OfOne(more, n)
  <2> SUFFICES ASSUME k = 0, NEW i \in 1..Len(more)
               PROVE  more[i] = c
      BY DEF OfOne, c
  <2>1. /\ Len(more) = Len(data) - 1
        /\ \A j \in 1..Len(more) : more[j] = data[j + 1]
      BY <1>7 DEF more
  <2>2. i + 1 \in 1..Len(data) /\ (i + 1) + 2 = i + 3 /\ i + 3 \in 4..Len(p)
      BY <1>1, <1>2, <1>3, <2>1
  <2>3. data[i + 1] = p[(i + 1) + 2]
      BY <1>3, <2>2
  <2>4. p[i + 3] = c
      BY <1>2, <2>2
  <2>. QED
      BY <2>1, <2>2, <2>3, <2>4
<1>9. Tail(data) \in Seq(Byte) /\ (k = 0 => OfOne(Tail(data), n))
    BY <1>7, <1>8 DEF more
<1>. QED
    BY <1>1, <1>3, <1>4, <1>5, <1>6, <1>9 DEF p, data

(* What assembling a chunk of a picture leaves.                            *)
LEMMA ChunkAssembled ==
    ASSUME img \in Assemblies, NEW n, NEW k \in Nat, NEW l, NEW x,
           PieceOf(x, n, k, l),
           assemble(x.payload[1], x.payload[2],
                    SubSeq(x.payload, 3, Len(x.payload)))
    PROVE  \/ ~img'.live /\ images' = images
           \/ \E b, tot :
                 /\ b \in Seq(Byte)
                 /\ \/ k = 0 /\ tot = l /\ OfOne(b, n)
                    \/ /\ k # 0 /\ img.live /\ img.seq = k /\ tot = img.total
                       /\ OfOne(img.buf, n) => OfOne(b, n)
                 /\ \/ ~img'.live
                    \/ img'.buf = b /\ img'.total = tot /\ img'.seq = k + 1
                 /\ \/ images' = images
                    \/ images' = Append(images, b) /\ Len(b) = tot
<1> DEFINE p    == x.payload
           data == SubSeq(p, 3, Len(p))
           flags == p[2]
           seq   == p[1]
           first == flags % 2 = FLAG_FIRST
           begun == IF ~first THEN img
                    ELSE IF data = <<>> \/ data[1] \notin 1..MaxTotal
                           THEN NoImage
                    ELSE [NoImage EXCEPT !.total = data[1], !.live = TRUE]
           more  == IF first THEN Tail(data) ELSE data
           grown == [begun EXCEPT !.buf = begun.buf \o more,
                                  !.seq = begun.seq + 1]
           done  == flags >= FLAG_LAST
<1>1. \/ ~begun.live /\ img' = begun /\ images' = images
      \/ img' = NoImage /\ images' = images
      \/ /\ begun.live /\ seq = begun.seq
         /\ img' = NoImage \/ img' = grown
         /\ \/ images' = images
            \/ images' = Append(images, grown.buf)
               /\ Len(grown.buf) = grown.total
    BY DEF assemble
<1>2. /\ seq = k /\ data \in Seq(Byte) /\ data # <<>>
      /\ k = 0 => /\ flags % 2 = 1 /\ data[1] = l
                  /\ Tail(data) \in Seq(Byte) /\ OfOne(Tail(data), n)
      /\ k # 0 => flags % 2 = 0 /\ OfOne(data, n)
    BY ChunkData
<1> HIDE DEF data, flags, seq
<1>3. NoImage.live = FALSE /\ FLAG_FIRST = 1
    BY DEF NoImage, FLAG_FIRST
<1>4. /\ first <=> k = 0
      /\ more \in Seq(Byte) /\ OfOne(more, n)
    BY <1>2, <1>3
<1> HIDE DEF more
<1>5. CASE begun.live /\ seq = begun.seq
           /\ (img' = NoImage \/ img' = grown)
           /\ \/ images' = images
              \/ images' = Append(images, grown.buf)
                 /\ Len(grown.buf) = grown.total
  <2> DEFINE b == begun.buf \o more
  <2>1. /\ begun \in [buf : Seq(Byte), total : Nat, seq : Nat, live : BOOLEAN]
        /\ k = 0 => begun.buf = <<>> /\ begun.total = l
        /\ k # 0 => begun = img
    <3>1. CASE k # 0
      <4>1. begun = img
          BY <1>4, <3>1
      <4>2. 0..MaxTotal \subseteq Nat
          BY ByteAssumption
      <4>. QED
          BY <3>1, <4>1, <4>2 DEF Assemblies
    <3>2. CASE k = 0
      <4>1. begun = [buf |-> <<>>, total |-> data[1], seq |-> 0, live |-> TRUE]
               /\ data[1] \in 1..MaxTotal
          BY <1>3, <1>4, <1>5, <3>2 DEF NoImage
      <4>2. data[1] \in Nat
        <5>1. MaxTotal \in Nat
            BY ByteAssumption
        <5>. QED
            BY <4>1, <5>1
      <4>3. <<>> \in Seq(Byte)
          OBVIOUS
      <4> DEFINE r == [buf |-> <<>>, total |-> data[1], seq |-> 0,
                       live |-> TRUE]
      <4>4. /\ r \in [buf : Seq(Byte), total : Nat, seq : Nat, live : BOOLEAN]
            /\ r.buf = <<>> /\ r.total = data[1]
          BY <4>2, <4>3
      <4> HIDE DEF r
      <4>5. begun = r
          BY <4>1 DEF r
      <4> HIDE DEF begun
      <4>. QED
          BY <1>2, <3>2, <4>4, <4>5
    <3>. QED
        BY <3>1, <3>2
  <2> HIDE DEF begun
  <2>2. b \in Seq(Byte) /\ Len(begun.buf) \in Nat /\ Len(more) \in Nat
           /\ Len(b) = Len(begun.buf) + Len(more)
           /\ (\A i \in 1..Len(begun.buf) : b[i] = begun.buf[i])
           /\ (\A i \in 1..Len(b) : i \notin 1..Len(begun.buf)
                  => b[i] = more[i - Len(begun.buf)])
      BY <1>4, <2>1, ConcatProperties
  <2> HIDE DEF b
  <2>3. OfOne(begun.buf, n) => OfOne(b, n)
    <3> SUFFICES ASSUME OfOne(begun.buf, n), NEW i \in 1..Len(b)
                 PROVE  b[i] = Colour(n)
        BY DEF OfOne
    <3>1. CASE i \in 1..Len(begun.buf)
        BY <2>2, <3>1 DEF OfOne
    <3>2. CASE i \notin 1..Len(begun.buf)
      <4>1. i - Len(begun.buf) \in 1..Len(more)
          BY <2>2, <3>2
      <4>. QED
          BY <1>4, <2>2, <3>2, <4>1 DEF OfOne
    <3>. QED
        BY <3>1, <3>2
  <2>4. grown.buf = b /\ grown.total = begun.total /\ grown.seq = k + 1
    <3>1. grown = [begun EXCEPT !.buf = b, !.seq = begun.seq + 1]
        BY DEF b
    <3> HIDE DEF grown
    <3>2. grown = [buf |-> b, total |-> begun.total, seq |-> begun.seq + 1,
                   live |-> begun.live]
        BY <2>1, <3>1
    <3>. QED
        BY <1>2, <1>5, <3>2
  <2>5. k = 0 => OfOne(b, n)
    <3>1. OfOne(<<>>, n)
        BY DEF OfOne
    <3>. QED
        BY <2>1, <2>3, <3>1
  <2> HIDE DEF grown
  <2>6. \/ ~img'.live
        \/ img'.buf = b /\ img'.total = begun.total /\ img'.seq = k + 1
      BY <1>3, <1>5, <2>4
  <2>7. \/ images' = images
        \/ images' = Append(images, b) /\ Len(b) = begun.total
      BY <1>5, <2>4
  <2>8. CASE k = 0
      BY <2>1, <2>2, <2>5, <2>6, <2>7, <2>8
  <2>9. CASE k # 0
    <3>1. img.live /\ img.seq = k /\ begun.total = img.total
             /\ (OfOne(img.buf, n) => OfOne(b, n))
        BY <1>2, <1>5, <2>1, <2>3, <2>9
    <3>. QED
        BY <2>2, <2>6, <2>7, <2>9, <3>1
  <2>. QED
      BY <2>8, <2>9
<1> HIDE DEF begun, grown
<1>. QED
    BY <1>1, <1>3, <1>5

(* What was lost for an image is lost for good.                            *)
LEMMA AssembledGrows ==
    ASSUME NEW ims, NEW S, NEW H, Assembled(ims, S, H), NEW S2, NEW H2,
           Cardinality(Lost(S, H)) \in Nat, Cardinality(Lost(S2, H2)) \in Nat,
           Cardinality(Lost(S, H)) <= Cardinality(Lost(S2, H2))
    PROVE  Assembled(ims, S2, H2)
<1> DEFINE a == Cardinality(Lost(S, H))
           b == Cardinality(Lost(S2, H2))
<1>1. /\ ims \in Seq(Seq(Byte))
      /\ \A j \in 1..Len(ims) : \/ \E n \in 1..MaxRequests : OfOne(ims[j], n)
                                \/ a >= Chunks(Len(ims[j]))
    BY DEF Assembled
<1>2. a \in Nat /\ b \in Nat /\ a <= b
    OBVIOUS
<1> HIDE DEF a, b
<1>3. ASSUME NEW j \in 1..Len(ims), a >= Chunks(Len(ims[j]))
      PROVE  b >= Chunks(Len(ims[j]))
  <2>1. Len(ims[j]) \in Nat
    <3>1. ims[j] \in Seq(Byte)
        BY <1>1
    <3>. QED
        BY <3>1
  <2>2. Chunks(Len(ims[j])) \in Nat
      BY <2>1, ChunkCount
  <2>. QED
      BY <1>2, <1>3, <2>2
<1>4. \A j \in 1..Len(ims) : \/ \E n \in 1..MaxRequests : OfOne(ims[j], n)
                             \/ b >= Chunks(Len(ims[j]))
    BY <1>1, <1>3
<1>. QED
    BY <1>1, <1>4 DEF Assembled, b

LEMMA AssembledAppends ==
    ASSUME NEW ims, NEW S, NEW H, Assembled(ims, S, H), NEW b \in Seq(Byte),
           \/ \E n \in 1..MaxRequests : OfOne(b, n)
           \/ Cardinality(Lost(S, H)) >= Chunks(Len(b))
    PROVE  Assembled(Append(ims, b), S, H)
<1> DEFINE A == Append(ims, b)
<1>1. /\ ims \in Seq(Seq(Byte))
      /\ \A j \in 1..Len(ims) :
            \/ \E n \in 1..MaxRequests : OfOne(ims[j], n)
            \/ Cardinality(Lost(S, H)) >= Chunks(Len(ims[j]))
    BY DEF Assembled
<1>2. /\ A \in Seq(Seq(Byte)) /\ A[Len(A)] = b
      /\ \A i \in 1..Len(ims) : A[i] = ims[i]
      /\ \A i \in 1..Len(A) : i \in 1..Len(ims) \/ i = Len(A)
  <2>1. A \in Seq(Seq(Byte))
      BY <1>1
  <2>. QED
      BY <1>1, <2>1, AppendKeeps
<1> HIDE DEF A
<1>3. ASSUME NEW j \in 1..Len(A)
      PROVE  \/ \E n \in 1..MaxRequests : OfOne(A[j], n)
             \/ Cardinality(Lost(S, H)) >= Chunks(Len(A[j]))
  <2>1. CASE j \in 1..Len(ims)
    <3>1. A[j] = ims[j]
        BY <1>2, <2>1
    <3>. QED
        BY <1>1, <2>1, <3>1
  <2>2. CASE j = Len(A)
      BY <1>2, <2>2
  <2>. QED
      BY <1>2, <2>1, <2>2
<1>4. Assembled(A, S, H)
    BY <1>2, <1>3 DEF Assembled
<1>. QED
    BY <1>4 DEF A

LEMMA HandledWasSent ==
    ASSUME WireTyped, EachOnceInOrder, ~shifted
    PROVE  \A h \in Range(handled) : \E i \in 1..Len(sent) : h = sent[i]
<1>1. PICK pos \in [1..Len(handled) -> 1..Len(sent)] :
         \A j \in 1..Len(handled) : handled[j] = sent[pos[j]]
    BY DEF EachOnceInOrder
<1>2. DOMAIN handled = 1..Len(handled)
    BY DEF WireTyped, ReceiverTyped
<1>3. ASSUME NEW h \in Range(handled)
      PROVE  \E i \in 1..Len(sent) : h = sent[i]
  <2>1. PICK j \in 1..Len(handled) : h = handled[j]
      BY <1>2 DEF Range
  <2>2. pos[j] \in 1..Len(sent) /\ h = sent[pos[j]]
      BY <1>1, <2>1
  <2>. QED
      BY <2>2
<1>. QED
    BY <1>3

LEMMA KeysAreNat ==
    ASSUME NEW S \in Seq(Proper), NEW t \in 0..MaxRequests, NEW c, NEW len,
           NEW m, PiecesSent(S, t, c, len, m), NEW f \in Range(S), IsPiece(f)
    PROVE  Key(f) \in Nat
<1>1. PICK i \in 1..Len(S) : f = S[i]
    BY DEF Range
<1>2. \E n, k \in Nat :
         /\ n \in 1..t /\ n >= 1 /\ n <= t /\ k <= 255
         /\ Due(t, c, len, m, n, k) /\ PieceOf(S[i], n, k, len[n])
         /\ S[i].payload[1] = k /\ ShowOf(S[i]) = n
         /\ Key(S[i]) = n * 256 + k /\ Key(S[i]) \in Nat
    BY <1>1, PieceKnown
<1>. QED
    BY <1>1, <1>2

LEMMA TakenBounded ==
    ASSUME WireTyped
    PROVE  taken \in 0..MaxRequests /\ taken \in Nat /\ MaxRequests \in Nat
    BY ByteAssumption DEF WireTyped, CameraTyped

(* The frame that came up is one that was sent, after those before it.     *)
LEMMA FrameComesUp ==
    ASSUME WireTyped, EachOnceInOrder', ~shifted', sent' = sent,
           NEW x, handled' = Append(handled, x),
           NEW len, NEW m, PiecesSent(sent, taken, camTask, len, m)
    PROVE  /\ \E i \in 1..Len(sent) : x = sent[i]
           /\ \A h \in Range(handled) : \E i \in 1..Len(sent) : h = sent[i]
           /\ Range(handled') = Range(handled) \cup {x}
           /\ \A h \in Range(handled) :
                 IsPiece(h) /\ IsPiece(x) => Key(h) < Key(x)
           /\ Cardinality(Lost(sent, handled)) \in Nat
           /\ Cardinality(Lost(sent, handled')) \in Nat
           /\ Cardinality(Lost(sent, handled))
                 <= Cardinality(Lost(sent, handled'))
<1>1. /\ sent \in Seq(Proper) /\ handled \in Seq(Frames)
      /\ taken \in 0..requests /\ requests \in 0..MaxRequests
    BY DEF WireTyped, LineTyped, ReceiverTyped, CameraTyped
<1>2. taken \in 0..MaxRequests
    BY <1>1, ByteAssumption
<1>3. PICK pos : Picked(handled', sent, pos)
    BY DEF EachOnceInOrder, Picked
<1>4. KeysRise(sent)
    BY DEF PiecesSent, KeysRise
<1>5. /\ \E i \in 1..Len(sent) : x = sent[i]
      /\ \A h \in Range(handled) : \E i \in 1..Len(sent) : h = sent[i]
      /\ Range(handled') = Range(handled) \cup {x}
      /\ \A h \in Range(handled) : IsPiece(h) /\ IsPiece(x) => Key(h) < Key(x)
  <2>1. handled \in Seq(Frames) /\ handled' = Append(handled, x)
      BY <1>1
  <2>. QED
      BY ZenonT(60), <1>3, <1>4, <2>1, NewestKey
<1>6. Range(handled') = Range(handled) \cup {x}
    BY <1>5
<1>7. DOMAIN sent = 1..Len(sent)
    BY <1>1
<1>8. x \in Range(sent) /\ Range(handled) \subseteq Range(sent)
    BY <1>5, <1>7 DEF Range
<1>9. \A f \in Range(sent) \cup Range(handled') : IsPiece(f) => Key(f) \in Nat
    BY <1>1, <1>2, <1>6, <1>8, KeysAreNat
<1>10. \A h \in Range(handled), y \in Range(handled') :
          IsPiece(h) /\ IsPiece(y) /\ y \notin Range(handled)
             => Key(h) < Key(y)
    BY <1>5, <1>6
<1>11. /\ Cardinality(Lost(sent, handled)) \in Nat
       /\ Cardinality(Lost(sent, handled')) \in Nat
       /\ Cardinality(Lost(sent, handled)) <= Cardinality(Lost(sent, handled'))
  <2>1. Range(handled) \subseteq Range(handled')
      BY <1>6
  <2>. QED
      BY <1>1, <1>9, <1>10, <2>1, LostGrows
<1>. QED
    BY <1>5, <1>6, <1>11

(* The assembly goes on while no chunk comes up.                           *)
LEMMA StillAssembling ==
    ASSUME NEW g \in Assemblies, NEW len, NEW S, NEW H,
           Assembling(g, len, S, H), NEW len2, NEW S2, NEW H2,
           Range(H) \subseteq Range(H2),
           g.live => \A y \in Range(H2) : IsPiece(y) => y \in Range(H),
           \A h \in Range(H) : IsPiece(h) => len2[ShowOf(h)] = len[ShowOf(h)],
           Cardinality(Lost(S, H)) \in Nat, Cardinality(Lost(S2, H2)) \in Nat,
           Cardinality(Lost(S, H)) <= Cardinality(Lost(S2, H2))
    PROVE  Assembling(g, len2, S2, H2)
<1> SUFFICES ASSUME g.live
             PROVE  \E h \in Range(H2) :
                       /\ IsPiece(h)
                       /\ \A x \in Range(H2) : IsPiece(x) => Key(x) <= Key(h)
                       /\ g.seq = h.payload[1] + 1
                       /\ \/ /\ g.total = len2[ShowOf(h)]
                             /\ OfOne(g.buf, ShowOf(h))
                          \/ Cardinality(Lost(S2, H2)) >= Chunks(g.total)
    BY DEF Assembling
<1> DEFINE a == Cardinality(Lost(S, H))
           b == Cardinality(Lost(S2, H2))
<1>1. PICK h \in Range(H) :
         /\ IsPiece(h) /\ \A x \in Range(H) : IsPiece(x) => Key(x) <= Key(h)
         /\ g.seq = h.payload[1] + 1
         /\ \/ g.total = len[ShowOf(h)] /\ OfOne(g.buf, ShowOf(h))
            \/ a >= Chunks(g.total)
    BY DEF Assembling
<1>2. a \in Nat /\ b \in Nat /\ a <= b
    OBVIOUS
<1> HIDE DEF a, b
<1>3. Chunks(g.total) \in Nat
  <2>1. g.total \in 0..MaxTotal /\ MaxTotal \in Nat
      BY ByteAssumption DEF Assemblies
  <2>2. g.total \in Nat
      BY <2>1
  <2>. QED
      BY <2>2, ChunkCount
<1>4. a >= Chunks(g.total) => b >= Chunks(g.total)
    BY <1>2, <1>3
<1>5. h \in Range(H2) /\ len2[ShowOf(h)] = len[ShowOf(h)]
    BY <1>1
<1>6. \A x \in Range(H2) : IsPiece(x) => Key(x) <= Key(h)
    BY <1>1
<1>. QED
    BY <1>1, <1>4, <1>5, <1>6, Zenon DEF b

(* The chunk that came up goes into the image in hand, or begins another.  *)
LEMMA ChunkGoesIn ==
    ASSUME WireTyped, WireTyped', EachOnceInOrder', ~shifted', sent' = sent,
           NEW x, handled' = Append(handled, x), IsPiece(x),
           NEW len, NEW m \in Nat,
           PiecesSent(sent, taken, camTask, len, m),
           len \in [1..taken -> 1..255],
           Assembled(images, sent, handled),
           Assembling(img, len, sent, handled),
           \/ assemble(x.payload[1], x.payload[2],
                       SubSeq(x.payload, 3, Len(x.payload)))
           \/ img' = NoImage /\ UNCHANGED images
    PROVE  /\ Assembled(images', sent, handled')
           /\ Assembling(img', len, sent, handled')
<1> DEFINE a == Cardinality(Lost(sent, handled))
           z == Cardinality(Lost(sent, handled'))
<1>1. /\ \E i \in 1..Len(sent) : x = sent[i]
      /\ \A h \in Range(handled) : \E i \in 1..Len(sent) : h = sent[i]
      /\ Range(handled') = Range(handled) \cup {x}
      /\ \A h \in Range(handled) : IsPiece(h) /\ IsPiece(x) => Key(h) < Key(x)
      /\ a \in Nat /\ z \in Nat /\ a <= z
    BY FrameComesUp
<1>2. /\ sent \in Seq(Proper) /\ img \in Assemblies
    BY DEF WireTyped, LineTyped, ReceiverTyped
<1>3. taken \in 0..MaxRequests /\ taken \in Nat /\ MaxRequests \in Nat
    BY TakenBounded
<1>4. Assembled(images, sent, handled')
    BY <1>1, AssembledGrows
<1>5. CASE ~img'.live /\ images' = images
    BY <1>4, <1>5 DEF Assembling
<1>6. PICK v \in 1..Len(sent) : x = sent[v]
    BY <1>1
<1>7. PICK n \in Nat, k \in Nat :
         /\ n \in 1..taken /\ n >= 1 /\ n <= taken /\ k <= 255
         /\ Due(taken, camTask, len, m, n, k) /\ PieceOf(sent[v], n, k, len[n])
         /\ sent[v].payload[1] = k /\ ShowOf(sent[v]) = n
         /\ Key(sent[v]) = n * 256 + k /\ Key(sent[v]) \in Nat
    BY <1>3, <1>6, PieceKnown
<1>8. PieceOf(x, n, k, len[n]) /\ x.payload[1] = k /\ ShowOf(x) = n
         /\ Key(x) \in Nat /\ n \in 1..MaxRequests
    BY <1>3, <1>6, <1>7
<1>9. ASSUME NEW b \in Seq(Byte), NEW tot,
             \/ k = 0 /\ tot = len[n] /\ OfOne(b, n)
             \/ /\ k # 0 /\ img.live /\ img.seq = k /\ tot = img.total
                /\ OfOne(img.buf, n) => OfOne(b, n),
             \/ ~img'.live
             \/ img'.buf = b /\ img'.total = tot /\ img'.seq = k + 1,
             \/ images' = images
             \/ images' = Append(images, b) /\ Len(b) = tot
      PROVE  /\ Assembled(images', sent, handled')
             /\ Assembling(img', len, sent, handled')
  <2>1. (tot = len[n] /\ OfOne(b, n)) \/ z >= Chunks(tot)
    <3>1. CASE k = 0
        BY <1>9, <3>1
    <3>2. CASE k # 0
      <4>1. img.live /\ img.seq = k /\ tot = img.total
               /\ (OfOne(img.buf, n) => OfOne(b, n))
          BY <1>9, <3>2
      <4>2. PICK h \in Range(handled) :
               /\ IsPiece(h)
               /\ \A y \in Range(handled) : IsPiece(y) => Key(y) <= Key(h)
               /\ img.seq = h.payload[1] + 1
               /\ \/ img.total = len[ShowOf(h)] /\ OfOne(img.buf, ShowOf(h))
                  \/ a >= Chunks(img.total)
          BY <4>1 DEF Assembling
      <4>3. CASE a >= Chunks(img.total)
        <5>1. img.total \in 0..MaxTotal /\ MaxTotal \in Nat
            BY <1>2, ByteAssumption DEF Assemblies
        <5>2. img.total \in Nat
            BY <5>1
        <5>3. Chunks(img.total) \in Nat
            BY <5>2, ChunkCount
        <5> HIDE DEF a, z
        <5>4. z >= Chunks(img.total)
            BY <1>1, <4>3, <5>3
        <5>. QED
            BY <4>1, <5>4
      <4>4. CASE img.total = len[ShowOf(h)] /\ OfOne(img.buf, ShowOf(h))
        <5>1. CASE ShowOf(h) = n
            BY <4>1, <4>4, <5>1
        <5>2. CASE ShowOf(h) # n
          <6>1. PICK u \in 1..Len(sent) : h = sent[u]
              BY <1>1
          <6>2. /\ IsPiece(sent[u]) /\ IsPiece(sent[v])
                /\ Range(handled') = Range(handled) \cup {sent[v]}
                /\ \A y \in Range(handled) :
                      /\ \E i \in 1..Len(sent) : y = sent[i]
                      /\ IsPiece(y) => Key(y) <= Key(sent[u])
                /\ Key(sent[u]) < Key(sent[v])
                /\ sent[v].payload[1] = sent[u].payload[1] + 1
                /\ ShowOf(sent[u]) # ShowOf(sent[v])
              BY <1>1, <1>6, <1>7, <4>1, <4>2, <5>2, <6>1
          <6>3. z >= Chunks(len[ShowOf(sent[u])])
              BY <1>2, <1>3, <6>2, Joined
          <6>. QED
              BY <4>1, <4>4, <6>1, <6>3
        <5>. QED
            BY <5>1, <5>2
      <4>. QED
          BY <4>2, <4>3, <4>4
    <3>. QED
        BY <3>1, <3>2
  <2>2. Assembled(images', sent, handled')
    <3>1. CASE images' = images
        BY <1>4, <3>1
    <3>2. CASE images' = Append(images, b) /\ Len(b) = tot
      <4>1. \/ \E i \in 1..MaxRequests : OfOne(b, i)
            \/ z >= Chunks(Len(b))
          BY <1>8, <2>1, <3>2
      <4>. QED
          BY <1>4, <3>2, <4>1, AssembledAppends
    <3>. QED
        BY <1>9, <3>1, <3>2
  <2>3. Assembling(img', len, sent, handled')
    <3> SUFFICES ASSUME img'.live
                 PROVE  \E h \in Range(handled') :
                           /\ IsPiece(h)
                           /\ \A y \in Range(handled') :
                                 IsPiece(y) => Key(y) <= Key(h)
                           /\ img'.seq = h.payload[1] + 1
                           /\ \/ /\ img'.total = len[ShowOf(h)]
                                 /\ OfOne(img'.buf, ShowOf(h))
                              \/ z >= Chunks(img'.total)
        BY DEF Assembling
    <3>1. img'.buf = b /\ img'.total = tot /\ img'.seq = k + 1
        BY <1>9
    <3>2. x \in Range(handled')
        BY <1>1
    <3>3. \A y \in Range(handled') : IsPiece(y) => Key(y) <= Key(x)
      <4> SUFFICES ASSUME NEW y \in Range(handled'), IsPiece(y)
                   PROVE  Key(y) <= Key(x)
          OBVIOUS
      <4>1. CASE y = x
          BY <1>8, <4>1
      <4>2. CASE y # x
        <5>1. y \in Range(handled) /\ Key(y) < Key(x)
            BY <1>1, <4>2
        <5>2. y \in Range(sent)
          <6>1. \E i \in 1..Len(sent) : y = sent[i]
              BY <1>1, <5>1
          <6>2. DOMAIN sent = 1..Len(sent)
              BY <1>2
          <6>. QED
              BY <6>1, <6>2 DEF Range
        <5>3. Key(y) \in Nat
            BY <1>2, <1>3, <5>2, KeysAreNat
        <5>. QED
            BY <1>8, <5>1, <5>3
      <4>. QED
          BY <4>1, <4>2
    <3> HIDE DEF z
    <3>. QED
        BY <1>8, <2>1, <3>1, <3>2, <3>3
  <2>. QED
      BY <2>2, <2>3
<1>10. CASE assemble(x.payload[1], x.payload[2],
                     SubSeq(x.payload, 3, Len(x.payload)))
  <2> DEFINE l == len[n]
  <2>0. img \in Assemblies /\ k \in Nat /\ PieceOf(x, n, k, l)
      BY <1>2, <1>7, <1>8
  <2> HIDE DEF l
  <2>1. \/ ~img'.live /\ images' = images
        \/ \E b, tot :
              /\ b \in Seq(Byte)
              /\ \/ k = 0 /\ tot = l /\ OfOne(b, n)
                 \/ /\ k # 0 /\ img.live /\ img.seq = k /\ tot = img.total
                    /\ OfOne(img.buf, n) => OfOne(b, n)
              /\ \/ ~img'.live
                 \/ img'.buf = b /\ img'.total = tot /\ img'.seq = k + 1
              /\ \/ images' = images
                 \/ images' = Append(images, b) /\ Len(b) = tot
      BY <1>10, <2>0, ChunkAssembled
  <2>. QED
      BY <1>5, <1>9, <2>1 DEF l
<1>11. CASE img' = NoImage /\ UNCHANGED images
    BY <1>5, <1>11 DEF NoImage
<1>. QED
    BY <1>10, <1>11

(* A step of the S3 leaves what came up, and the images made of it, alone. *)
LEMMA PicturesSend ==
    ASSUME WireTyped, WireTyped', EachOnceInOrder, ~shifted, ~shifted',
           PicturesOK,
           \/ sendControlCmd \/ CameraCapture \/ TakeRequest \/ captureJpeg
           \/ sendImage
    PROVE  PicturesOK'
<1>1. UNCHANGED <<streaming, img, handled, images>>
         /\ (sent' = sent \/ \E f : sent' = Append(sent, f))
    BY DEF sendControlCmd, CameraCapture, TakeRequest, captureJpeg, sendImage,
           uart_write_bytes, lineVars, c5Vars, histVars
<1>2. /\ Assembled(images, sent, handled)
      /\ \E len, m : /\ CameraAt(len, m)
                     /\ PiecesSent(sent, taken, camTask, len, m)
                     /\ Assembling(img, len, sent, handled)
    BY DEF PicturesOK
<1>3. PICK len, m : /\ CameraAt(len, m)
                    /\ PiecesSent(sent, taken, camTask, len, m)
                    /\ Assembling(img, len, sent, handled)
    BY <1>2
<1>4. PICK len2, m2 : /\ CameraAt(len2, m2)'
                      /\ PiecesSent(sent', taken', camTask', len2, m2)
                      /\ \A n \in 1..taken : len2[n] = len[n]
    BY <1>3, CameraGoesOn
<1>5. /\ sent \in Seq(Proper) /\ sent' \in Seq(Proper) /\ img \in Assemblies
    BY DEF WireTyped, LineTyped, ReceiverTyped
<1>6. taken \in 0..MaxRequests /\ taken' \in 0..MaxRequests
  <2>1. (WireTyped => taken \in 0..MaxRequests)'
      BY TakenBounded, PTL
  <2>. QED
      BY <2>1, TakenBounded
<1>7. \A h \in Range(handled) : \E i \in 1..Len(sent) : h = sent[i]
    BY HandledWasSent
<1>8. Range(sent) \subseteq Range(sent')
  <2>1. CASE sent' = sent
      BY <2>1
  <2>2. CASE \E f : sent' = Append(sent, f)
    <3>1. PICK f : sent' = Append(sent, f)
        BY <2>2
    <3>2. DOMAIN sent = 1..Len(sent) /\ DOMAIN sent' = 1..Len(sent')
        BY <1>5
    <3>3. \A i \in 1..Len(sent) : i \in 1..Len(sent') /\ sent'[i] = sent[i]
        BY <1>5, <3>1, AppendKeeps
    <3>4. ASSUME NEW y \in Range(sent)
          PROVE  y \in Range(sent')
      <4>1. PICK i \in 1..Len(sent) : y = sent[i]
          BY <3>2 DEF Range
      <4>2. i \in DOMAIN sent' /\ sent'[i] = y
          BY <3>2, <3>3, <4>1
      <4>. QED
          BY <4>2 DEF Range
    <3>. QED
        BY <3>4
  <2>. QED
      BY <1>1, <2>1, <2>2
<1>9. Range(handled) \subseteq Range(sent)
  <2>1. DOMAIN sent = 1..Len(sent)
      BY <1>5
  <2>. QED
      BY <1>7, <2>1 DEF Range
<1>10. /\ Cardinality(Lost(sent, handled)) \in Nat
       /\ Cardinality(Lost(sent', handled)) \in Nat
       /\ Cardinality(Lost(sent, handled)) <= Cardinality(Lost(sent', handled))
  <2>1. \A f \in Range(sent') \cup Range(handled) :
           IsPiece(f) => Key(f) \in Nat
    <3>1. \A f \in Range(sent') : IsPiece(f) => Key(f) \in Nat
        BY <1>4, <1>5, <1>6, KeysAreNat
    <3>. QED
        BY <1>8, <1>9, <3>1
  <2>2. \A h, x \in Range(handled) :
           IsPiece(h) /\ IsPiece(x) /\ x \notin Range(handled)
              => Key(h) < Key(x)
      OBVIOUS
  <2>. QED
      BY <1>5, <1>8, <2>1, <2>2, LostGrows
<1>11. Assembled(images, sent', handled)
    BY <1>2, <1>10, AssembledGrows
<1>12. Assembling(img, len2, sent', handled)
  <2>1. ASSUME NEW h \in Range(handled), IsPiece(h)
        PROVE  len2[ShowOf(h)] = len[ShowOf(h)]
    <3>1. PICK i \in 1..Len(sent) : h = sent[i]
        BY <1>7
    <3>2. PICK n \in Nat, k \in Nat :
             /\ n \in 1..taken /\ n >= 1 /\ n <= taken /\ k <= 255
             /\ Due(taken, camTask, len, m, n, k)
             /\ PieceOf(sent[i], n, k, len[n])
             /\ sent[i].payload[1] = k /\ ShowOf(sent[i]) = n
             /\ Key(sent[i]) = n * 256 + k /\ Key(sent[i]) \in Nat
        BY <1>3, <1>6, <2>1, <3>1, PieceKnown
    <3>. QED
        BY <1>4, <3>1, <3>2
  <2>. QED
      BY <1>3, <1>5, <1>10, <2>1, StillAssembling
<1>13. streaming' => ~img'.live
    BY <1>1 DEF PicturesOK
<1>14. /\ Assembled(images', sent', handled')
       /\ Assembling(img', len2, sent', handled')
    BY <1>1, <1>11, <1>12
<1>. QED
    BY <1>4, <1>13, <1>14 DEF PicturesOK

(* What rxFrame hands up, by its kind.                                     *)
LEMMA FrameKinds ==
    ASSUME NEW kinds, rxFrame(kinds)
    PROVE  /\ UNCHANGED <<notified, camTask, picture, off, faults, shifted,
                          streaming, requests, taken, commands, sent>>
           /\ "chunk" \notin kinds =>
                 \/ handled' = handled
                 \/ \E x : handled' = Append(handled, x) /\ ~IsPiece(x)
           /\ kinds = {"chunk"} =>
                 \E x : handled' = Append(handled, x) /\ IsPiece(x)
<1> DEFINE p == Parse(parser, ring).p
           x == [type |-> p.type_, payload |-> p.payload_]
<1>1. /\ kind(p) \in kinds
      /\ handled' = (IF kind(p) # "ignored" THEN Append(handled, x)
                     ELSE handled)
      /\ UNCHANGED <<notified, camTask, picture, off, faults, shifted,
                     streaming, requests, taken, commands, sent>>
    BY DEF rxFrame, s3Vars
<1>2. /\ kind(p) = "chunk" => IsPiece(x)
      /\ kind(p) = "control" => ~IsPiece(x)
      /\ kind(p) \in {"chunk", "control", "ignored"}
  <2> HIDE DEF p
  <2>. QED
      BY DEF kind, isChunk, isControl, IsPiece, IMAGE_CHUNK, CONTROL_CMD
<1> HIDE DEF p, x
<1>3. CASE kind(p) = "chunk"
    BY <1>1, <1>2, <1>3
<1>4. CASE kind(p) = "control"
    BY <1>1, <1>2, <1>4
<1>5. CASE kind(p) = "ignored"
    BY <1>1, <1>2, <1>5
<1>. QED
    BY <1>2, <1>3, <1>4, <1>5

(* Streaming and assembling exclude each other, and a shift is for good.   *)
LEMMA StreamedStep ==
    ASSUME streaming => ~img.live,
           [Next]_vars
    PROVE  streaming' => ~img'.live
<1>1. CASE assembleChunk
    BY <1>1, FrameKinds DEF assembleChunk
<1>2. CASE ~assembleChunk
  <2>1. UNCHANGED <<streaming, img>>
      BY <1>2 DEF Next, vars, sendControlCmd, CameraCapture, TakeRequest,
                  captureJpeg, sendImage, rxPartial, rxControl, forwardChunk,
                  rxFrame, c5Vars
  <2>. QED
      BY <2>1
<1>. QED
    BY <1>1, <1>2

LEMMA ShiftedStays ==
    ASSUME [Next]_vars
    PROVE  shifted => shifted'
<1>1. CASE sendControlCmd \/ sendImage
    BY <1>1 DEF sendControlCmd, sendImage, uart_write_bytes
<1>2. CASE ~(sendControlCmd \/ sendImage)
    BY <1>2 DEF Next, vars, CameraCapture, TakeRequest, captureJpeg, rxPartial,
                rxControl, forwardChunk, assembleChunk, rxFrame, lineVars
<1>. QED
    BY <1>1, <1>2

LEMMA PicturesReceive ==
    ASSUME WireTyped, WireTyped', EachOnceInOrder', ~shifted, ~shifted',
           PicturesOK,
           rxPartial \/ rxControl \/ forwardChunk \/ assembleChunk
    PROVE  PicturesOK'
<1>1. /\ streaming => ~img.live
      /\ Assembled(images, sent, handled)
      /\ \E len, m : /\ CameraAt(len, m)
                     /\ PiecesSent(sent, taken, camTask, len, m)
                     /\ Assembling(img, len, sent, handled)
    BY DEF PicturesOK
<1>2. PICK len, m : /\ CameraAt(len, m)
                    /\ PiecesSent(sent, taken, camTask, len, m)
                    /\ Assembling(img, len, sent, handled)
    BY <1>1
<1>3. /\ sent \in Seq(Proper) /\ img \in Assemblies /\ m \in Nat
      /\ len \in [1..taken -> 1..255]
    BY <1>2 DEF WireTyped, LineTyped, ReceiverTyped, CameraAt
<1>4. ASSUME UNCHANGED <<camTask, picture, off, taken, sent>>,
             streaming' => ~img'.live,
             Assembled(images', sent, handled'),
             Assembling(img', len, sent, handled')
      PROVE  PicturesOK'
  <2>1. CameraAt(len, m)'
      BY <1>2, <1>4 DEF CameraAt
  <2>2. PiecesSent(sent', taken', camTask', len, m)
      BY <1>2, <1>4
  <2>3. /\ Assembled(images', sent', handled')
        /\ Assembling(img', len, sent', handled')
      BY <1>4
  <2>. QED
      BY <1>4, <2>1, <2>2, <2>3 DEF PicturesOK
<1>5. ASSUME UNCHANGED <<camTask, picture, off, taken, sent, streaming, img,
                         handled, images>>
      PROVE  PicturesOK'
  <2>1. /\ Assembled(images', sent, handled')
        /\ Assembling(img', len, sent, handled')
        /\ streaming' => ~img'.live
      BY <1>1, <1>2, <1>5
  <2>. QED
      BY <1>4, <1>5, <2>1
<1>6. ASSUME UNCHANGED <<camTask, picture, off, taken, sent, streaming, img,
                         images>>,
             NEW x, handled' = Append(handled, x), img.live => ~IsPiece(x)
      PROVE  PicturesOK'
  <2>1. /\ Range(handled') = Range(handled) \cup {x}
        /\ Cardinality(Lost(sent, handled)) \in Nat
        /\ Cardinality(Lost(sent, handled')) \in Nat
        /\ Cardinality(Lost(sent, handled))
              <= Cardinality(Lost(sent, handled'))
      BY <1>2, <1>6, FrameComesUp
  <2>2. Assembled(images, sent, handled')
      BY <1>1, <2>1, AssembledGrows
  <2>3. Assembling(img, len, sent, handled')
    <3>1. /\ Range(handled) \subseteq Range(handled')
          /\ img.live =>
                \A y \in Range(handled') : IsPiece(y) => y \in Range(handled)
        BY <1>6, <2>1
    <3>2. \A h \in Range(handled) : IsPiece(h) =>
             len[ShowOf(h)] = len[ShowOf(h)]
        OBVIOUS
    <3>. QED
        BY <1>2, <1>3, <2>1, <3>1, <3>2, StillAssembling
  <2>4. /\ Assembled(images', sent, handled')
        /\ Assembling(img', len, sent, handled')
        /\ streaming' => ~img'.live
      BY <1>1, <1>6, <2>2, <2>3
  <2>. QED
      BY <1>4, <1>6, <2>4
<1>7. CASE rxPartial
    BY <1>5, <1>7 DEF rxPartial, s3Vars, histVars
<1>8. CASE rxControl
  <2>1. rxFrame({"control", "ignored"}) /\ UNCHANGED <<img, images>>
      BY <1>8 DEF rxControl
  <2>2. /\ UNCHANGED <<camTask, picture, off, taken, sent, streaming>>
        /\ \/ handled' = handled
           \/ \E x : handled' = Append(handled, x) /\ ~IsPiece(x)
      BY <2>1, FrameKinds
  <2>. QED
      BY <1>5, <1>6, <2>1, <2>2
<1>9. CASE forwardChunk
  <2>1. rxFrame({"chunk"}) /\ UNCHANGED <<img, images>> /\ streaming
      BY <1>9 DEF forwardChunk
  <2>2. /\ UNCHANGED <<camTask, picture, off, taken, sent, streaming>>
        /\ \E x : handled' = Append(handled, x) /\ IsPiece(x)
      BY <2>1, FrameKinds
  <2>. QED
      BY <1>1, <1>6, <2>1, <2>2
<1>10. CASE assembleChunk
  <2>1. /\ rxFrame({"chunk"}) /\ ~streaming
        /\ LET p == Last(handled').payload
           IN \/ assemble(p[1], p[2], SubSeq(p, 3, Len(p)))
              \/ img' = NoImage /\ UNCHANGED images
      BY <1>10 DEF assembleChunk
  <2>2. UNCHANGED <<camTask, picture, off, taken, sent, streaming>>
      BY <2>1, FrameKinds
  <2>3. PICK x : handled' = Append(handled, x) /\ IsPiece(x)
      BY <2>1, FrameKinds
  <2>4. Last(handled') = x
      BY <2>1, <2>3, FrameTaken DEF WireTyped
  <2>5. \/ assemble(x.payload[1], x.payload[2],
                    SubSeq(x.payload, 3, Len(x.payload)))
        \/ img' = NoImage /\ UNCHANGED images
      BY <2>1, <2>4
  <2>6. /\ Assembled(images', sent, handled')
        /\ Assembling(img', len, sent, handled')
      BY <1>1, <1>2, <1>3, <2>2, <2>3, <2>5, ChunkGoesIn
  <2>. QED
      BY <1>4, <2>1, <2>2, <2>6
<1>. QED
    BY <1>7, <1>8, <1>9, <1>10

LEMMA PicturesStep ==
    ASSUME WireTyped, WireTyped', EachOnceInOrder, EachOnceInOrder',
           PicturesOK,
           [Next]_vars
    PROVE  PicturesOK'
<1>1. streaming' => ~img'.live
    BY StreamedStep DEF PicturesOK
<1>2. shifted => shifted'
    BY ShiftedStays
<1>3. CASE shifted'
    BY <1>1, <1>3 DEF PicturesOK
<1>4. CASE ~shifted' /\ UNCHANGED vars
  <2>1. UNCHANGED <<camTask, picture, off, taken, shifted, sent, streaming,
                    img, handled, images>>
      BY <1>4 DEF vars, s3Vars, lineVars, c5Vars, histVars
  <2>. QED
      BY <2>1 DEF PicturesOK, CameraAt
<1>5. CASE ~shifted' /\ Next
    BY <1>2, <1>5, PicturesSend, PicturesReceive DEF Next
<1>. QED
    BY <1>3, <1>4, <1>5

LEMMA PicturesInit ==
    ASSUME Init
    PROVE  PicturesOK
<1>1. /\ camTask = "wait" /\ taken = 0 /\ sent = <<>> /\ handled = <<>>
      /\ images = <<>> /\ img = NoImage
    BY DEF Init
<1>2. img.live = FALSE
    BY <1>1 DEF NoImage
<1>3. Assembled(images, sent, handled)
    BY <1>1 DEF Assembled
<1>4. Assembling(img, <<>>, sent, handled)
    BY <1>2 DEF Assembling
<1>5. CameraAt(<<>>, 0)
  <2>1. <<>> \in [1..0 -> 1..255]
      OBVIOUS
  <2>. QED
      BY <1>1, <2>1 DEF CameraAt
<1>6. PiecesSent(sent, taken, camTask, <<>>, 0)
  <2>1. Len(sent) = 0 /\ \A n, k \in Nat : ~Due(0, camTask, <<>>, 0, n, k)
      BY <1>1 DEF Due
  <2>. QED
      BY <1>1, <2>1 DEF PiecesSent
<1>. QED
    BY <1>2, <1>3, <1>4, <1>5, <1>6 DEF PicturesOK

(* What is lost is gone.                                                   *)
LEMMA LostIsGone ==
    ASSUME sent \in Seq(Proper)
    PROVE  /\ Cardinality(Lost(sent, handled)) \in Nat
           /\ Cardinality(Gone) \in Nat
           /\ Cardinality(Lost(sent, handled)) <= Cardinality(Gone)
<1> DEFINE L == Lost(sent, handled)
           F == [f \in L |-> CHOOSE i \in Gone : sent[i] = f]
<1>1. DOMAIN sent = 1..Len(sent) /\ Len(sent) \in Nat
    OBVIOUS
<1>2. IsFiniteSet(Gone)
  <2>1. Gone \in SUBSET (1..Len(sent)) /\ IsFiniteSet(1..Len(sent))
      BY <1>1, FS_Interval DEF Gone
  <2>. QED
      BY <2>1, FS_Subset
<1>3. ASSUME NEW f \in L
      PROVE  \E i \in Gone : sent[i] = f
    BY DEF Lost, Gone, Range
<1>4. F \in [L -> Gone] /\ \A f \in L : sent[F[f]] = f
    BY <1>3
<1> HIDE DEF F, L
<1>5. F \in Injection(L, Gone)
    BY <1>4 DEF Injection, IsInjective
<1>6. IsFiniteSet(L) /\ Cardinality(L) <= Cardinality(Gone)
    BY <1>2, <1>5, FS_Injection
<1>. QED
    BY <1>2, <1>6, FS_CardinalityType DEF L

LEMMA ImagesAreWhole ==
    ASSUME WireTyped, PicturesOK, ~shifted
    PROVE  WholeImage
<1>1. /\ images \in Seq(Seq(Byte))
      /\ \A j \in 1..Len(images) :
            \/ \E n \in 1..MaxRequests : OfOne(images[j], n)
            \/ Cardinality(Lost(sent, handled)) >= Chunks(Len(images[j]))
    BY DEF PicturesOK, Assembled
<1>2. /\ Cardinality(Lost(sent, handled)) \in Nat /\ Cardinality(Gone) \in Nat
      /\ Cardinality(Lost(sent, handled)) <= Cardinality(Gone)
    BY LostIsGone DEF WireTyped, LineTyped
<1>3. ASSUME NEW im \in Range(images)
      PROVE  \/ im \in {Content(n, Len(im)) : n \in 1..MaxRequests}
             \/ Cardinality(Gone) >= Chunks(Len(im))
  <2>1. PICK j \in 1..Len(images) : im = images[j]
      BY <1>1 DEF Range
  <2>2. im \in Seq(Byte) /\ Len(im) \in Nat
      BY <1>1, <2>1
  <2>3. CASE \E n \in 1..MaxRequests : OfOne(im, n)
    <3>1. PICK n \in 1..MaxRequests : OfOne(im, n)
        BY <2>3
    <3>2. im = Content(n, Len(im))
      <4>1. im \in [1..Len(im) -> Byte]
               /\ \A i \in 1..Len(im) : im[i] = Colour(n)
          BY <2>2, <3>1 DEF OfOne
      <4>2. Content(n, Len(im)) = [i \in 1..Len(im) |-> Colour(n)]
          BY DEF Content, Colour
      <4>. QED
          BY <4>1, <4>2
    <3>. QED
        BY <3>2
  <2>4. CASE Cardinality(Lost(sent, handled)) >= Chunks(Len(im))
    <3>1. Chunks(Len(im)) \in Nat
        BY <2>2, ChunkCount
    <3>. QED
        BY <1>2, <2>4, <3>1
  <2>. QED
      BY <1>1, <2>1, <2>3, <2>4
<1>. QED
    BY <1>3 DEF WholeImage

(* Until a frame's start or length is moved, an image the C5 assembled is  *)
(* one whole picture, or as many frames are gone as it has chunks.         *)
THEOREM PicturesAreWhole == Spec => [](~shifted => WholeImage)
<1>1. Init => WireTyped /\ PicturesOK
    BY WireInit, PicturesInit
<1>2. WireTyped /\ [Next]_vars => WireTyped'
    BY WireStep
<1>3. WireTyped /\ WireTyped' /\ EachOnceInOrder /\ EachOnceInOrder'
         /\ PicturesOK /\ [Next]_vars => PicturesOK'
    BY PicturesStep
<1>4. WireTyped /\ PicturesOK => (~shifted => WholeImage)
    BY ImagesAreWhole
<1>. QED
    BY <1>1, <1>2, <1>3, <1>4, FramesInOrder, PTL DEF Spec
=============================================================================
