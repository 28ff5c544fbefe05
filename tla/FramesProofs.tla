---------------------------- MODULE FramesProofs ----------------------------
(***************************************************************************)
(* Theorems about Frames.  The lengths of frames survive their encoding,   *)
(* for every length that fits in 64 bits; and with such lengths, for any   *)
(* number of frames and any capacity of the network, what reaches the      *)
(* client are whole frames, and each pong answers the oldest ping.         *)
(***************************************************************************)
EXTENDS Frames, SequenceTheorems, WellFoundedInduction, TLAPS

(* The numbers a uint16 and a uint64 hold.                                 *)
Fits16(n) == n <= 65535
Fits64(n) == n <= 18446744073709551615

(* A number is taken apart into a quotient and a remainder.                *)
LEMMA Divide ==
  ASSUME NEW n \in Nat
  PROVE  \E q \in Nat, r \in 0 .. 255 :
           q = ShiftByte(n) /\ r = LowByte(n) /\ n = q * 256 + r
<1>1. PICK q : q = n \div 256
  OBVIOUS
<1>2. PICK r : r = n % 256
  OBVIOUS
<1>3. q \in Nat /\ r \in 0 .. 255
  BY <1>1, <1>2
<1>4. n = q * 256 + r
  BY <1>1, <1>2, <1>3
<1>5. QED
  BY <1>1, <1>2, <1>3, <1>4 DEF ShiftByte, LowByte

(* binary.BigEndian writes a 16-bit length and reads it back.              *)
LEMMA RoundTrip16 ==
  ASSUME NEW n \in Nat, Fits16(n)
  PROVE  Uint16(PutUint16(n)) = n
<1>1. PICK q \in Nat, r \in 0 .. 255 :
        q = ShiftByte(n) /\ r = LowByte(n) /\ n = q * 256 + r
  BY Divide
<1>2. q < 256
  BY <1>1 DEF Fits16
<1>3. LowByte(q) = q
  BY <1>2 DEF LowByte
<1>4. PutUint16(n) = <<q, r>>
  BY <1>1, <1>3 DEF PutUint16
<1>5. QED
  BY <1>1, <1>4 DEF Uint16

(* The same for 64 bits.                                                   *)
LEMMA RoundTrip64 ==
  ASSUME NEW n \in Nat, Fits64(n)
  PROVE  Uint64(PutUint64(n)) = n
<1>1. PICK n1 \in Nat, r0 \in 0 .. 255 :
        n1 = ShiftByte(n) /\ r0 = LowByte(n) /\ n = n1 * 256 + r0
  BY Divide
<1>2. PICK n2 \in Nat, r1 \in 0 .. 255 :
        n2 = ShiftByte(n1) /\ r1 = LowByte(n1) /\ n1 = n2 * 256 + r1
  BY Divide
<1>3. PICK n3 \in Nat, r2 \in 0 .. 255 :
        n3 = ShiftByte(n2) /\ r2 = LowByte(n2) /\ n2 = n3 * 256 + r2
  BY Divide
<1>4. PICK n4 \in Nat, r3 \in 0 .. 255 :
        n4 = ShiftByte(n3) /\ r3 = LowByte(n3) /\ n3 = n4 * 256 + r3
  BY Divide
<1>5. PICK n5 \in Nat, r4 \in 0 .. 255 :
        n5 = ShiftByte(n4) /\ r4 = LowByte(n4) /\ n4 = n5 * 256 + r4
  BY Divide
<1>6. PICK n6 \in Nat, r5 \in 0 .. 255 :
        n6 = ShiftByte(n5) /\ r5 = LowByte(n5) /\ n5 = n6 * 256 + r5
  BY Divide
<1>7. PICK n7 \in Nat, r6 \in 0 .. 255 :
        n7 = ShiftByte(n6) /\ r6 = LowByte(n6) /\ n6 = n7 * 256 + r6
  BY Divide
<1>8. n7 < 256
  <2>1. n1 <= 72057594037927935
    BY <1>1 DEF Fits64
  <2>2. n2 <= 281474976710655
    BY <1>2, <2>1
  <2>3. n3 <= 1099511627775
    BY <1>3, <2>2
  <2>4. n4 <= 4294967295
    BY <1>4, <2>3
  <2>5. n5 <= 16777215
    BY <1>5, <2>4
  <2>6. n6 <= 65535
    BY <1>6, <2>5
  <2>7. QED
    BY <1>7, <2>6
<1>9. PutUint64(n) = <<n7, r6, r5, r4, r3, r2, r1, r0>>
  <2>1. LowByte(n7) = n7
    BY <1>8 DEF LowByte
  <2>2. n1 = ShiftByte(n) /\ n2 = ShiftByte(n1) /\ n3 = ShiftByte(n2) /\ n4 = ShiftByte(n3)
    BY <1>1, <1>2, <1>3, <1>4
  <2>3. n5 = ShiftByte(n4) /\ n6 = ShiftByte(n5) /\ n7 = ShiftByte(n6)
    BY <1>5, <1>6, <1>7
  <2>4. /\ LowByte(n) = r0 /\ LowByte(n1) = r1 /\ LowByte(n2) = r2 /\ LowByte(n3) = r3
        /\ LowByte(n4) = r4 /\ LowByte(n5) = r5 /\ LowByte(n6) = r6
    BY <1>1, <1>2, <1>3, <1>4, <1>5, <1>6, <1>7
  <2>5. QED
    BY <2>1, <2>2, <2>3, <2>4 DEF PutUint64
<1>10. Uint64(<<n7, r6, r5, r4, r3, r2, r1, r0>>) =
         ((((((n7 * 256 + r6) * 256 + r5) * 256 + r4) * 256 + r3) * 256 + r2) * 256 + r1)
           * 256 + r0
  BY DEF Uint64
<1>11. @ = n
  <2>1. n6 = n7 * 256 + r6 /\ n5 = n6 * 256 + r5 /\ n4 = n5 * 256 + r4 /\ n3 = n4 * 256 + r3
    BY <1>4, <1>5, <1>6, <1>7
  <2>2. n2 = n3 * 256 + r2 /\ n1 = n2 * 256 + r1 /\ n = n1 * 256 + r0
    BY <1>1, <1>2, <1>3
  <2>3. QED
    BY <2>1, <2>2
<1>12. QED
  BY <1>9, <1>10, <1>11

(* What follows the two first bytes of a header.                           *)
LEMMA Concatenation ==
  ASSUME NEW a \in Nat, NEW b \in Nat, NEW m \in Seq(Nat), NEW h, h = <<a, b>> \o m
  PROVE  h[1] = a /\ h[2] = b /\ SubSeq(h, 3, Len(h)) = m
OBVIOUS

(* The length that is decoded from a frame the server writes is the length *)
(* of its payload: for all three forms of the header and all 64-bit        *)
(* lengths; the opcode and the final bit survive too.                      *)
THEOREM LengthSurvives ==
  ASSUME NEW n \in Nat, Fits64(n), NEW opcode \in 0 .. 15
  PROVE  /\ Length(Header(opcode, n)) = n
         /\ Opcode(Header(opcode, n)) = opcode /\ Final(Header(opcode, n))
<1>1. (128 + opcode) % 16 = opcode
  OBVIOUS
<1>2. CASE n < 126
  <2>1. Header(opcode, n) = <<128 + opcode, n>>
    BY <1>2 DEF Header
  <2>2. n % 128 = n
    BY <1>2
  <2>3. QED
    BY <1>1, <1>2, <2>1, <2>2 DEF Length, Opcode, Final
<1>3. CASE n >= 126 /\ n <= 65535
  <2>1. PICK m : m = PutUint16(n)
    OBVIOUS
  <2>2. PICK h : h = Header(opcode, n)
    OBVIOUS
  <2>3. m \in Seq(Nat) /\ 128 + opcode \in Nat
    BY <2>1 DEF PutUint16, LowByte, ShiftByte
  <2>4. h = <<128 + opcode, 126>> \o m
    BY <1>3, <2>1, <2>2 DEF Header
  <2>5. h[1] = 128 + opcode /\ h[2] = 126 /\ SubSeq(h, 3, Len(h)) = m
    BY <2>3, <2>4, Concatenation
  <2>6. Length(h) = Uint16(m)
    <3>1. h[2] % 128 = 126
      BY <2>5
    <3>2. Length(h) = Uint16(SubSeq(h, 3, Len(h)))
      BY <3>1 DEF Length
    <3>3. SubSeq(h, 3, Len(h)) = m
      BY <2>5
    <3>4. QED
      BY <3>2, <3>3, Zenon
  <2>7. Uint16(m) = n
    BY <1>3, <2>1, RoundTrip16 DEF Fits16
  <2>8. QED
    BY <1>1, <2>2, <2>5, <2>6, <2>7 DEF Opcode, Final
<1>4. CASE n > 65535
  <2>1. PICK m : m = PutUint64(n)
    OBVIOUS
  <2>2. PICK h : h = Header(opcode, n)
    OBVIOUS
  <2>3. m \in Seq(Nat) /\ 128 + opcode \in Nat
    BY <2>1 DEF PutUint64, LowByte, ShiftByte
  <2>4. h = <<128 + opcode, 127>> \o m
    BY <1>4, <2>1, <2>2 DEF Header
  <2>5. h[1] = 128 + opcode /\ h[2] = 127 /\ SubSeq(h, 3, Len(h)) = m
    BY <2>3, <2>4, Concatenation
  <2>6. Length(h) = Uint64(m)
    <3>1. h[2] % 128 = 127
      BY <2>5
    <3>2. Length(h) = Uint64(SubSeq(h, 3, Len(h)))
      BY <3>1 DEF Length
    <3>3. SubSeq(h, 3, Len(h)) = m
      BY <2>5
    <3>4. QED
      BY <3>2, <3>3, Zenon
  <2>7. Uint64(m) = n
    BY <2>1, RoundTrip64
  <2>8. QED
    BY <1>1, <2>2, <2>5, <2>6, <2>7 DEF Opcode, Final
<1>5. QED
  BY <1>2, <1>3, <1>4

(* The same of a frame the client sends and readFrame reads: the mask bit  *)
(* is no part of the length, and a frame in parts is recognised.           *)
THEOREM ClientLengthSurvives ==
  ASSUME NEW n \in Nat, Fits64(n), NEW opcode \in 0 .. 15, NEW final \in BOOLEAN
  PROVE  /\ Length(ClientHeader(final, opcode, n)) = n
         /\ Opcode(ClientHeader(final, opcode, n)) = opcode
         /\ Final(ClientHeader(final, opcode, n)) <=> final
<1>1. PICK first : first = opcode + IF final THEN 128 ELSE 0
  OBVIOUS
<1>2. first \in Nat /\ first % 16 = opcode /\ (first >= 128 <=> final)
  <2>1. CASE final
    <3>1. first = opcode + 128
      BY <1>1, <2>1, Zenon
    <3>2. QED
      BY <2>1, <3>1
  <2>2. CASE ~final
    <3>1. first = opcode + 0
      BY <1>1, <2>2, Zenon
    <3>2. QED
      BY <2>2, <3>1
  <2>3. QED
    BY <2>1, <2>2
<1>3. CASE n < 126
  <2>1. ClientHeader(final, opcode, n) = <<first, 128 + n>>
    BY <1>1, <1>3 DEF ClientHeader
  <2>2. (128 + n) % 128 = n
    BY <1>3
  <2>3. QED
    BY <1>2, <1>3, <2>1, <2>2 DEF Length, Opcode, Final
<1>4. CASE n >= 126
  <2>1. PICK m : m = PutUint64(n)
    OBVIOUS
  <2>2. PICK h : h = ClientHeader(final, opcode, n)
    OBVIOUS
  <2>3. m \in Seq(Nat)
    BY <2>1 DEF PutUint64, LowByte, ShiftByte
  <2>4. h = <<first, 255>> \o m
    BY <1>1, <1>4, <2>1, <2>2 DEF ClientHeader
  <2>5. h[1] = first /\ h[2] = 255 /\ SubSeq(h, 3, Len(h)) = m
    BY <1>2, <2>3, <2>4, Concatenation
  <2>6. Length(h) = Uint64(m)
    <3>1. h[2] % 128 = 127
      BY <2>5
    <3>2. Length(h) = Uint64(SubSeq(h, 3, Len(h)))
      BY <3>1 DEF Length
    <3>3. SubSeq(h, 3, Len(h)) = m
      BY <2>5
    <3>4. QED
      BY <3>2, <3>3, Zenon
  <2>7. Uint64(m) = n
    BY <2>1, RoundTrip64
  <2>8. QED
    BY <1>2, <2>2, <2>5, <2>6, <2>7 DEF Opcode, Final
<1>5. QED
  BY <1>3, <1>4
-----------------------------------------------------------------------------
(* What a recursive function computes, step by step: two functions that    *)
(* obey the same recursion agree, for there is no least place where they   *)
(* would differ.                                                           *)
LEMMA LessWellFounded == IsWellFoundedOn({p \in Nat \X Nat : p[1] < p[2]}, Nat)
BY NatLessThanWellFounded DEF OpToRel

LEMMA LeastElement ==
  ASSUME NEW T, T \subseteq Nat, T # {}
  PROVE  \E x \in T : \A y \in T : x <= y
<1> DEFINE R == {p \in Nat \X Nat : p[1] < p[2]}
<1>1. \A x, y \in T : x < y => <<x, y>> \in R
  OBVIOUS
<1>2. \E x \in T : \A y \in T : ~ (<<y, x>> \in R)
  <2> HIDE DEF R
  <2> QED BY LessWellFounded, WFMin DEF R
<1> HIDE DEF R
<1>3. PICK x \in T : \A y \in T : ~ (<<y, x>> \in R)
  BY <1>2
<1>4. \A y \in T : ~(y < x)
  BY <1>1, <1>3
<1> QED BY <1>4

(* What the client has read after each of the chunks on their way to it.   *)
Views == [sane : BOOLEAN, missing : Int, pings : Seq(Nat)]

Trail(t, v, p) ==
  /\ t \in [0 .. Len(p) -> Views]
  /\ t[0] = v
  /\ \A i \in 1 .. Len(p) : t[i] = Parse(t[i - 1], p[i])
  /\ \A i \in 0 .. Len(p) : t[i].sane

LEMMA TrailUnique ==
  ASSUME NEW p \in Seq(Chunks), NEW v, NEW t, Trail(t, v, p), NEW f,
         f = [i \in 0 .. Len(p) |-> IF i = 0 THEN v ELSE Parse(f[i - 1], p[i])]
  PROVE  f = t
<1> DEFINE T == {i \in 0 .. Len(p) : f[i] # t[i]}
<1>1. Len(p) \in Nat /\ t \in [0 .. Len(p) -> Views] /\ t[0] = v
  BY DEF Trail
<1>2. SUFFICES ASSUME f # t PROVE FALSE
  OBVIOUS
<1>3. T # {}
  BY <1>1, <1>2
<1>4. T \subseteq Nat
  BY <1>1
<1>5. PICK x \in T : \A y \in T : x <= y
  <2> HIDE DEF T
  <2> QED BY <1>3, <1>4, LeastElement
<1>6. x \in 0 .. Len(p) /\ f[x] # t[x]
  OBVIOUS
<1>7. f[0] = v
  BY <1>1
<1>8. x \in 1 .. Len(p) /\ x - 1 \in 0 .. Len(p)
  BY <1>1, <1>6, <1>7
<1>9. f[x - 1] = t[x - 1]
  BY <1>5, <1>8
<1>10. f[x] = Parse(f[x - 1], p[x])
  BY <1>8
<1>11. t[x] = Parse(t[x - 1], p[x])
  BY <1>8 DEF Trail
<1> QED BY <1>6, <1>9, <1>10, <1>11

(* The function in WholeFrames ends where the trail does.                  *)
LEMMA Whole ==
  ASSUME pipe \in Seq(Chunks), NEW t, Trail(t, view, pipe),
         mu = NoOne /\ conn = "up" => t[Len(pipe)].missing = 0
  PROVE  WholeFrames
<1> DEFINE Folds(f) == f = [i \in 0 .. Len(pipe) |-> IF i = 0 THEN view ELSE Parse(f[i - 1], pipe[i])]
           after == CHOOSE f : Folds(f)
<1>1. Folds(t)
  <2>1. t \in [0 .. Len(pipe) -> Views] /\ Len(pipe) \in Nat
    BY DEF Trail
  <2>2. \A i \in 0 .. Len(pipe) : t[i] = IF i = 0 THEN view ELSE Parse(t[i - 1], pipe[i])
    BY <2>1 DEF Trail
  <2> QED BY <2>1, <2>2
<1>2. Folds(after)
  <2> HIDE DEF Folds
  <2> QED BY <1>1
<1>3. after = t
  <2> HIDE DEF after
  <2> QED BY <1>2, TrailUnique
<1>4. t[Len(pipe)].sane
  BY DEF Trail
<1>5. WholeFrames = (after[Len(pipe)].sane /\ (mu = NoOne /\ conn = "up" => after[Len(pipe)].missing = 0))
  BY Zenon DEF WholeFrames
<1> QED BY <1>3, <1>4, <1>5


-----------------------------------------------------------------------------
(* What is left of a frame of which m bytes are missing.                   *)
Rest(s, m) ==
  \/ s = <<>> /\ m = 0
  \/ \E k \in Nat : s = <<Chunk(<<>>, k)>> /\ m = k
  \/ \E k, l \in Nat : s = <<Chunk(<<>>, k), Chunk(<<>>, l)>> /\ m = k + l

LEMMA RestShrinks ==
  ASSUME NEW s, NEW m, Rest(s, m), s # <<>>
  PROVE  /\ Head(s) \in Chunks /\ Head(s).header = <<>> /\ Head(s).bytes <= m
         /\ Rest(Tail(s), m - Head(s).bytes)
<1>1. \A k \in Nat : Chunk(<<>>, k) \in Chunks /\ Chunk(<<>>, k).header = <<>> /\ Chunk(<<>>, k).bytes = k
  BY DEF Chunk, Chunks
<1>2. CASE \E k \in Nat : s = <<Chunk(<<>>, k)>> /\ m = k
  <2>1. PICK k \in Nat : s = <<Chunk(<<>>, k)>> /\ m = k
    BY <1>2
  <2>2. Head(s) = Chunk(<<>>, k) /\ Tail(s) = <<>> /\ m - k = 0
    BY <2>1
  <2> QED BY <1>1, <2>1, <2>2 DEF Rest
<1>3. CASE \E k, l \in Nat : s = <<Chunk(<<>>, k), Chunk(<<>>, l)>> /\ m = k + l
  <2>1. PICK k, l \in Nat : s = <<Chunk(<<>>, k), Chunk(<<>>, l)>> /\ m = k + l
    BY <1>3
  <2>2. Head(s) = Chunk(<<>>, k) /\ Tail(s) = <<Chunk(<<>>, l)>> /\ m - k = l /\ k <= m
    BY <2>1
  <2>3. Rest(Tail(s), m - k)
    BY <2>2 DEF Rest
  <2> QED BY <1>1, <2>2, <2>3
<1> QED BY <1>2, <1>3 DEF Rest

(* The frames of the server and the headers of the client.                 *)
LEMMA HeaderShape ==
  ASSUME NEW n \in Nat, NEW opcode \in 0 .. 15
  PROVE  Header(opcode, n) \in Seq(Nat) /\ Header(opcode, n) # <<>>
<1>1. PutUint16(n) \in Seq(Nat) /\ PutUint64(n) \in Seq(Nat)
  <2>1. \A k \in Nat : ShiftByte(k) \in Nat /\ LowByte(k) \in Nat
    BY DEF ShiftByte, LowByte
  <2> QED BY <2>1 DEF PutUint16, PutUint64
<1>2. ASSUME NEW a \in Nat, NEW b \in Nat, NEW m \in Seq(Nat)
      PROVE  <<a, b>> \o m \in Seq(Nat) /\ <<a, b>> \o m # <<>>
  <2>1. Len(<<a, b>> \o m) = 2 + Len(m) /\ Len(m) \in Nat
    OBVIOUS
  <2> QED BY <2>1
<1>3. 128 + opcode \in Nat
  OBVIOUS
<1>4. CASE n < 126
  BY <1>3, <1>4 DEF Header
<1>5. CASE n >= 126
  <2>1. \/ Header(opcode, n) = <<128 + opcode, 126>> \o PutUint16(n)
        \/ Header(opcode, n) = <<128 + opcode, 127>> \o PutUint64(n)
    BY <1>5 DEF Header
  <2>2. CASE Header(opcode, n) = <<128 + opcode, 126>> \o PutUint16(n)
    BY <1>1, <1>2, <1>3, <2>2
  <2>3. CASE Header(opcode, n) = <<128 + opcode, 127>> \o PutUint64(n)
    BY <1>1, <1>2, <1>3, <2>3
  <2> QED BY <2>1, <2>2, <2>3
<1> QED BY <1>4, <1>5

LEMMA ClientHeaderShape ==
  ASSUME NEW n \in Nat, NEW opcode \in 0 .. 15, NEW final \in BOOLEAN
  PROVE  ClientHeader(final, opcode, n) \in Seq(Nat)
<1>1. PutUint64(n) \in Seq(Nat)
  <2>1. \A k \in Nat : ShiftByte(k) \in Nat /\ LowByte(k) \in Nat
    BY DEF ShiftByte, LowByte
  <2> QED BY <2>1 DEF PutUint64
<1>2. PICK first \in Nat : first = opcode + IF final THEN 128 ELSE 0
  OBVIOUS
<1>3. ClientHeader(final, opcode, n) = IF n < 126 THEN <<first, 128 + n>> ELSE <<first, 255>> \o PutUint64(n)
  BY <1>2, Zenon DEF ClientHeader
<1> QED BY <1>1, <1>3

LEMMA FrameShape ==
  ASSUME NEW n \in Nat, NEW opcode \in 0 .. 15
  PROVE  /\ Frame(opcode, n) \in Seq(Chunks) /\ Frame(opcode, n) # <<>>
         /\ Head(Frame(opcode, n)) = Chunk(Header(opcode, n), 0)
         /\ Rest(Tail(Frame(opcode, n)), n)
<1> DEFINE c == Chunk(Header(opcode, n), 0)
           b == Payload(n)
           g == [i \in 1 .. Len(b) |-> Chunk(<<>>, b[i])]
<1>1. c \in Chunks
  BY HeaderShape DEF Chunk, Chunks
<1>2. Frame(opcode, n) = <<c>> \o g
  BY DEF Frame
<1>3. Rest(g, n) /\ g \in Seq(Chunks)
  <2>1. \A k \in Nat : Chunk(<<>>, k) \in Chunks
    BY DEF Chunk, Chunks
  <2>2. CASE n = 0
    <3>1. b = <<>>
      BY <2>2 DEF Payload
    <3>2. g = <<>>
      BY <3>1
    <3> QED BY <2>2, <3>2 DEF Rest
  <2>3. CASE n = 1
    <3>1. b = <<1>>
      BY <2>3 DEF Payload
    <3>2. g = <<Chunk(<<>>, 1)>>
      BY <3>1
    <3> QED BY <2>1, <2>3, <3>2 DEF Rest
  <2>4. CASE n > 1
    <3>1. PICK k, l \in Nat : k = (n + 1) \div 2 /\ l = n \div 2
      OBVIOUS
    <3>2. b = <<k, l>> /\ n = k + l
      BY <2>4, <3>1 DEF Payload
    <3>3. g = <<Chunk(<<>>, k), Chunk(<<>>, l)>>
      BY <3>2
    <3> QED BY <2>1, <3>2, <3>3 DEF Rest
  <2> QED BY <2>2, <2>3, <2>4
<1> HIDE DEF b, c, g
<1>4. /\ <<c>> \o g \in Seq(Chunks) /\ Len(<<c>> \o g) = Len(g) + 1 /\ (<<c>> \o g)[1] = c
      /\ Len(g) \in Nat
  BY <1>1, <1>3
<1>5. <<c>> \o g # <<>> /\ Head(<<c>> \o g) = c
  BY <1>4
<1>6. Tail(<<c>> \o g) = g
  BY <1>1, <1>3
<1> QED BY <1>2, <1>3, <1>4, <1>5, <1>6 DEF c

-----------------------------------------------------------------------------
(* What the client makes of one chunk.                                     *)
Ask(v, n) == [v EXCEPT !.pings = Append(@, n)]

LEMMA ParseTyped ==
  ASSUME NEW v \in Views, NEW c \in Chunks, c.header # <<>> => Length(c.header) \in Nat
  PROVE  Parse(v, c) \in Views
<1> DEFINE h == c.header
           pong == h # <<>> /\ Opcode(h) = Pong
           q == IF pong /\ v.pings # <<>> THEN Tail(v.pings) ELSE v.pings
           m == IF h # <<>> THEN Length(h) ELSE v.missing - c.bytes
           s == /\ v.sane
                /\ h # <<>> => Final(h) /\ v.missing = 0
                /\ h = <<>> => c.bytes <= v.missing
                /\ pong => v.pings # <<>> /\ Head(v.pings) = Length(h)
<1>1. v.missing \in Int /\ v.pings \in Seq(Nat) /\ c.bytes \in Nat
  BY DEF Views, Chunks
<1>2. q \in Seq(Nat)
  BY <1>1
<1>3. m \in Int
  BY <1>1
<1>4. s \in BOOLEAN
  BY DEF Views
<1>5. Parse(v, c) = [sane |-> s, missing |-> m, pings |-> q]
  BY DEF Parse
<1> HIDE DEF s, m, q
<1> QED BY <1>2, <1>3, <1>4, <1>5 DEF Views

LEMMA ParseBytes ==
  ASSUME NEW v \in Views, v.sane, NEW c \in Chunks, c.header = <<>>, c.bytes <= v.missing
  PROVE  /\ Parse(v, c).sane /\ Parse(v, c).missing = v.missing - c.bytes
         /\ Parse(v, c).pings = v.pings
BY DEF Parse

LEMMA ParseHeader ==
  ASSUME NEW v \in Views, v.sane, v.missing = 0, NEW n \in Nat, Fits64(n), NEW op \in {Text, Pong},
         op = Pong => v.pings # <<>> /\ Head(v.pings) = n
  PROVE  LET w == Parse(v, Chunk(Header(op, n), 0))
         IN  /\ w.sane /\ w.missing = n
             /\ w.pings = IF op = Pong THEN Tail(v.pings) ELSE v.pings
<1> DEFINE h == Header(op, n)
           c == Chunk(h, 0)
<1>1. op \in 0 .. 15
  BY DEF Text, Pong
<1>2. h # <<>> /\ Length(h) = n /\ Opcode(h) = op /\ Final(h)
  BY <1>1, HeaderShape, LengthSurvives
<1>3. c.header = h
  BY DEF Chunk
<1> HIDE DEF h, c
<1>4. /\ Parse(v, c).sane /\ Parse(v, c).missing = n
      /\ Parse(v, c).pings = IF op = Pong THEN Tail(v.pings) ELSE v.pings
  BY <1>2, <1>3 DEF Parse
<1> QED BY <1>4 DEF h, c

LEMMA Asking ==
  ASSUME NEW v \in Views, NEW n \in Nat
  PROVE  /\ Ask(v, n) = [sane |-> v.sane, missing |-> v.missing, pings |-> Append(v.pings, n)]
         /\ Ask(v, n) \in Views
<1>1. PICK s \in BOOLEAN, m \in Int, q \in Seq(Nat) : v = [sane |-> s, missing |-> m, pings |-> q]
  BY DEF Views
<1>2. Ask(v, n) = [sane |-> s, missing |-> m, pings |-> Append(q, n)]
  BY <1>1 DEF Ask
<1>3. v.sane = s /\ v.missing = m /\ v.pings = q
  BY <1>1
<1> QED BY <1>2, <1>3 DEF Views

LEMMA ParseAsked ==
  ASSUME NEW v \in Views, NEW c, Parse(v, c) \in Views, Parse(v, c).sane, NEW n \in Nat
  PROVE  Parse(Ask(v, n), c) = Ask(Parse(v, c), n)
<1> DEFINE h == c.header
           pong == h # <<>> /\ Opcode(h) = Pong
           q == v.pings
<1>1. q \in Seq(Nat) /\ Append(q, n) # <<>>
  <2>1. q \in Seq(Nat)
    BY DEF Views
  <2> HIDE DEF q
  <2> QED BY <2>1, AppendProperties
<1>2. pong => q # <<>>
  BY DEF Parse
<1>3. q # <<>> => Head(Append(q, n)) = Head(q) /\ Tail(Append(q, n)) = Append(Tail(q), n)
  <2> HIDE DEF q
  <2> QED BY <1>1
<1>4. Ask(v, n) = [sane |-> v.sane, missing |-> v.missing, pings |-> Append(q, n)]
  BY Asking
<1> HIDE DEF q, h, pong
<1> DEFINE sane(q0) ==
             /\ v.sane
             /\ h # <<>> => Final(h) /\ v.missing = 0
             /\ h = <<>> => c.bytes <= v.missing
             /\ pong => q0 # <<>> /\ Head(q0) = Length(h)
           missing == IF h # <<>> THEN Length(h) ELSE v.missing - c.bytes
           pings(q0) == IF pong /\ q0 # <<>> THEN Tail(q0) ELSE q0
           r == Append(q, n)
<1>5. Parse(v, c) = [sane |-> sane(q), missing |-> missing, pings |-> pings(q)]
  BY DEF Parse, q, h, pong
<1>6. Parse(Ask(v, n), c) = [sane |-> sane(r), missing |-> missing, pings |-> pings(r)]
  <2> DEFINE a == Ask(v, n)
  <2>1. a.sane = v.sane /\ a.missing = v.missing /\ a.pings = r
    BY <1>4
  <2> HIDE DEF a, r
  <2>2. Parse(a, c) = [sane |-> sane(r), missing |-> missing, pings |-> pings(r)]
    BY <2>1 DEF Parse, h, pong
  <2> QED BY <2>2 DEF a
<1>7. sane(r) = sane(q)
  BY <1>1, <1>2, <1>3
<1>8. pings(r) = Append(pings(q), n)
  BY <1>1, <1>2, <1>3
<1> HIDE DEF sane, missing, pings, r
<1>9. Ask(Parse(v, c), n) =
        [sane |-> Parse(v, c).sane, missing |-> Parse(v, c).missing, pings |-> Append(Parse(v, c).pings, n)]
  BY Asking
<1>10. Ask(Parse(v, c), n) = [sane |-> sane(q), missing |-> missing, pings |-> Append(pings(q), n)]
  BY <1>5, <1>9
<1> QED BY <1>6, <1>7, <1>8, <1>10

-----------------------------------------------------------------------------
(* What the client reads is what it was going to read.                     *)
LEMMA TrailTail ==
  ASSUME NEW p \in Seq(Chunks), p # <<>>, NEW v, NEW t, Trail(t, v, p)
  PROVE  LET u == [i \in 0 .. Len(p) - 1 |-> t[i + 1]]
         IN  Trail(u, Parse(v, Head(p)), Tail(p)) /\ u[Len(Tail(p))] = t[Len(p)]
<1> DEFINE u == [i \in 0 .. Len(p) - 1 |-> t[i + 1]]
<1>1. /\ Len(p) \in Nat \ {0} /\ Len(Tail(p)) = Len(p) - 1 /\ Head(p) = p[1]
      /\ \A i \in 1 .. Len(p) - 1 : Tail(p)[i] = p[i + 1]
  OBVIOUS
<1>2. /\ t \in [0 .. Len(p) -> Views] /\ t[0] = v
      /\ \A i \in 1 .. Len(p) : t[i] = Parse(t[i - 1], p[i])
      /\ \A i \in 0 .. Len(p) : t[i].sane
  BY DEF Trail
<1>3. u \in [0 .. Len(p) - 1 -> Views]
  BY <1>1, <1>2
<1>4. u[0] = Parse(v, Head(p))
  BY <1>1, <1>2
<1>5. \A i \in 1 .. Len(p) - 1 : u[i] = Parse(u[i - 1], Tail(p)[i])
  BY <1>1, <1>2
<1>6. \A i \in 0 .. Len(p) - 1 : u[i].sane
  BY <1>1, <1>2
<1>7. u[Len(p) - 1] = t[Len(p)]
  BY <1>1
<1> HIDE DEF u
<1>8. Trail(u, Parse(v, Head(p)), Tail(p)) /\ u[Len(Tail(p))] = t[Len(p)]
  BY <1>1, <1>3, <1>4, <1>5, <1>6, <1>7 DEF Trail
<1> QED BY <1>8 DEF u

(* A chunk is appended.                                                    *)
LEMMA TrailAppend ==
  ASSUME NEW p \in Seq(Chunks), NEW v, NEW t, Trail(t, v, p), NEW c \in Chunks,
         NEW w \in Views, w = Parse(t[Len(p)], c), w.sane
  PROVE  \E u : Trail(u, v, Append(p, c)) /\ u[Len(Append(p, c))] = w
<1> DEFINE u == [i \in 0 .. Len(p) + 1 |-> IF i = Len(p) + 1 THEN w ELSE t[i]]
<1>1. /\ Len(p) \in Nat /\ Len(Append(p, c)) = Len(p) + 1
      /\ Append(p, c)[Len(p) + 1] = c /\ \A i \in 1 .. Len(p) : Append(p, c)[i] = p[i]
  OBVIOUS
<1>2. /\ t \in [0 .. Len(p) -> Views] /\ t[0] = v
      /\ \A i \in 1 .. Len(p) : t[i] = Parse(t[i - 1], p[i])
      /\ \A i \in 0 .. Len(p) : t[i].sane
  BY DEF Trail
<1>3. u \in [0 .. Len(p) + 1 -> Views] /\ u[0] = v /\ u[Len(p) + 1] = w
  BY <1>1, <1>2
<1>4. \A i \in 0 .. Len(p) : u[i] = t[i]
  BY <1>1
<1> HIDE DEF u
<1>5. \A i \in 1 .. Len(p) + 1 : u[i] = Parse(u[i - 1], Append(p, c)[i])
  BY <1>1, <1>2, <1>3, <1>4
<1>6. \A i \in 0 .. Len(p) + 1 : u[i].sane
  BY <1>1, <1>2, <1>3, <1>4
<1> QED BY <1>1, <1>3, <1>5, <1>6 DEF Trail

(* A ping of the client is one to answer after all that is on its way.     *)
LEMMA TrailAsk ==
  ASSUME NEW p \in Seq(Chunks), NEW v, NEW t, Trail(t, v, p), NEW n \in Nat
  PROVE  LET u == [i \in 0 .. Len(p) |-> Ask(t[i], n)]
         IN  Trail(u, Ask(v, n), p) /\ u[Len(p)] = Ask(t[Len(p)], n)
<1> DEFINE u == [i \in 0 .. Len(p) |-> Ask(t[i], n)]
<1>1. Len(p) \in Nat
  OBVIOUS
<1>2. /\ t \in [0 .. Len(p) -> Views] /\ t[0] = v
      /\ \A i \in 1 .. Len(p) : t[i] = Parse(t[i - 1], p[i])
      /\ \A i \in 0 .. Len(p) : t[i].sane
  BY DEF Trail
<1>3. \A w \in Views : Ask(w, n) \in Views /\ Ask(w, n).sane = w.sane
  BY Asking
<1>4. u \in [0 .. Len(p) -> Views] /\ u[0] = Ask(v, n) /\ u[Len(p)] = Ask(t[Len(p)], n)
  BY <1>1, <1>2, <1>3
<1>5. \A i \in 0 .. Len(p) : u[i].sane
  BY <1>2, <1>3
<1>6. \A i \in 1 .. Len(p) : u[i] = Parse(u[i - 1], p[i])
  <2>1. ASSUME NEW i \in 1 .. Len(p) PROVE u[i] = Parse(u[i - 1], p[i])
    <3>1. i \in 0 .. Len(p) /\ i - 1 \in 0 .. Len(p)
      BY <1>1
    <3>2. t[i - 1] \in Views /\ t[i] \in Views /\ t[i] = Parse(t[i - 1], p[i]) /\ t[i].sane
      BY <1>2, <3>1
    <3>3. Parse(Ask(t[i - 1], n), p[i]) = Ask(t[i], n)
      BY <3>2, ParseAsked
    <3> QED BY <3>1, <3>3
  <2> QED BY <2>1
<1> HIDE DEF u
<1>7. Trail(u, Ask(v, n), p) /\ u[Len(p)] = Ask(t[Len(p)], n)
  BY <1>4, <1>5, <1>6 DEF Trail
<1> QED BY <1>7 DEF u

-----------------------------------------------------------------------------
(* The pings the client waits for are in the headers on their way to the   *)
(* server, in their order, after the pong that the reader has yet to write.*)
IsPing(h) == Final(h) /\ Opcode(h) = Ping

PongWaits(o) == o # <<>> /\ Head(o).header # <<>> /\ Opcode(Head(o).header) = Pong

Matches(pos, q, in, o) ==
  /\ \A j, k \in 1 .. Len(q) : j < k => pos[j] < pos[k]
  /\ PongWaits(o) <=> \E k \in 1 .. Len(q) : pos[k] = 0
  /\ \A i \in 1 .. Len(in) : IsPing(in[i]) <=> \E k \in 1 .. Len(q) : pos[k] = i
  /\ \A k \in 1 .. Len(q) :
       IF pos[k] = 0 THEN q[k] = Length(Head(o).header) ELSE q[k] = Length(in[pos[k]])

Awaited(q, in, o) == \E pos \in [1 .. Len(q) -> 0 .. Len(in)] : Matches(pos, q, in, o)

(* It stays so with another frame to write, and as the client sends.       *)
LEMMA AwaitedSame ==
  ASSUME NEW q, NEW in, NEW o, Awaited(q, in, o), NEW r, PongWaits(o) <=> PongWaits(r),
         PongWaits(o) => Length(Head(o).header) = Length(Head(r).header)
  PROVE  Awaited(q, in, r)
BY DEF Awaited, Matches

LEMMA AwaitedSent ==
  ASSUME NEW q \in Seq(Nat), NEW in \in Seq(Seq(Nat)), NEW o, Awaited(q, in, o), NEW h \in Seq(Nat),
         NEW n \in Nat, IsPing(h), Length(h) = n
  PROVE  Awaited(Append(q, n), Append(in, h), o)
<1>1. PICK pos \in [1 .. Len(q) -> 0 .. Len(in)] : Matches(pos, q, in, o)
  BY DEF Awaited
<1> DEFINE l == Len(q)
           m == Len(in)
           q2 == Append(q, n)
           in2 == Append(in, h)
           new == [k \in 1 .. l + 1 |-> IF k = l + 1 THEN m + 1 ELSE pos[k]]
<1>2. l \in Nat /\ m \in Nat
  OBVIOUS
<1>3. Len(q2) = l + 1 /\ q2[l + 1] = n /\ \A k \in 1 .. l : q2[k] = q[k]
  OBVIOUS
<1>4. Len(in2) = m + 1 /\ in2[m + 1] = h /\ \A i \in 1 .. m : in2[i] = in[i]
  OBVIOUS
<1>5. /\ \A j, k \in 1 .. l : j < k => pos[j] < pos[k]
      /\ PongWaits(o) <=> \E k \in 1 .. l : pos[k] = 0
      /\ \A i \in 1 .. m : IsPing(in[i]) <=> \E k \in 1 .. l : pos[k] = i
      /\ \A k \in 1 .. l : IF pos[k] = 0 THEN q[k] = Length(Head(o).header) ELSE q[k] = Length(in[pos[k]])
  BY <1>1 DEF Matches
<1>6. \A k \in 1 .. l : pos[k] \in 0 .. m
  BY <1>1
<1>7. new[l + 1] = m + 1 /\ (\A k \in 1 .. l : new[k] = pos[k]) /\ new \in [1 .. l + 1 -> 0 .. m + 1]
  BY <1>2, <1>6
<1> HIDE DEF l, m, q2, in2, new
<1>8. \A j, k \in 1 .. l + 1 : j < k => new[j] < new[k]
  <2>1. ASSUME NEW j \in 1 .. l + 1, NEW k \in 1 .. l + 1, j < k
        PROVE  new[j] < new[k]
    <3>1. j \in 1 .. l /\ new[j] = pos[j] /\ pos[j] \in 0 .. m
      BY <1>2, <1>6, <1>7, <2>1
    <3>2. CASE k = l + 1
      BY <1>2, <1>7, <3>1, <3>2
    <3>3. CASE k \in 1 .. l
      BY <1>5, <1>7, <2>1, <3>1, <3>3
    <3> QED BY <1>2, <3>2, <3>3
  <2> QED BY <2>1
<1>9. PongWaits(o) <=> \E k \in 1 .. l + 1 : new[k] = 0
  <2>1. new[l + 1] # 0 /\ \A k \in 1 .. l + 1 : k \in 1 .. l \/ k = l + 1
    BY <1>2, <1>7
  <2>2. \A k \in 1 .. l : k \in 1 .. l + 1 /\ new[k] = pos[k]
    BY <1>2, <1>7
  <2>3. PongWaits(o) <=> \E k \in 1 .. l : pos[k] = 0
    BY <1>5
  <2> QED BY <2>1, <2>2, <2>3
<1>10. \A i \in 1 .. m + 1 : IsPing(in2[i]) <=> \E k \in 1 .. l + 1 : new[k] = i
  <2>1. ASSUME NEW i \in 1 .. m
        PROVE  IsPing(in2[i]) <=> \E k \in 1 .. l + 1 : new[k] = i
    <3>1. new[l + 1] # i /\ \A k \in 1 .. l + 1 : k \in 1 .. l \/ k = l + 1
      BY <1>2, <1>7
    <3>2. \A k \in 1 .. l : k \in 1 .. l + 1 /\ new[k] = pos[k]
      BY <1>2, <1>7
    <3>3. IsPing(in2[i]) <=> \E k \in 1 .. l : pos[k] = i
      BY <1>4, <1>5
    <3> QED BY <3>1, <3>2, <3>3
  <2>2. IsPing(in2[m + 1]) /\ \E k \in 1 .. l + 1 : new[k] = m + 1
    BY <1>2, <1>4, <1>7
  <2>3. \A i \in 1 .. m + 1 : i \in 1 .. m \/ i = m + 1
    BY <1>2
  <2> QED BY <2>1, <2>2, <2>3
<1>11. \A k \in 1 .. l + 1 :
         IF new[k] = 0 THEN q2[k] = Length(Head(o).header) ELSE q2[k] = Length(in2[new[k]])
  <2>1. ASSUME NEW k \in 1 .. l
        PROVE  IF new[k] = 0 THEN q2[k] = Length(Head(o).header) ELSE q2[k] = Length(in2[new[k]])
    <3>1. new[k] = pos[k] /\ q2[k] = q[k] /\ pos[k] \in 0 .. m
      BY <1>3, <1>6, <1>7
    <3>2. pos[k] # 0 => in2[pos[k]] = in[pos[k]]
      BY <1>2, <1>4, <3>1
    <3>3. IF pos[k] = 0 THEN q[k] = Length(Head(o).header) ELSE q[k] = Length(in[pos[k]])
      BY <1>5
    <3> QED BY <3>1, <3>2, <3>3
  <2>2. q2[l + 1] = Length(in2[new[l + 1]]) /\ new[l + 1] # 0
    BY <1>2, <1>3, <1>4, <1>7
  <2> QED BY <1>2, <2>1, <2>2
<1>12. Matches(new, q2, in2, o)
  BY <1>3, <1>4, <1>8, <1>9, <1>10, <1>11 DEF Matches
<1> QED BY <1>3, <1>4, <1>7, <1>12 DEF Awaited, q2, in2

LEMMA AwaitedOther ==
  ASSUME NEW q \in Seq(Nat), NEW in \in Seq(Seq(Nat)), NEW o, Awaited(q, in, o), NEW h \in Seq(Nat),
         ~IsPing(h)
  PROVE  Awaited(q, Append(in, h), o)
<1>1. PICK pos \in [1 .. Len(q) -> 0 .. Len(in)] : Matches(pos, q, in, o)
  BY DEF Awaited
<1> DEFINE l == Len(q)
           m == Len(in)
           in2 == Append(in, h)
<1>2. l \in Nat /\ m \in Nat
  OBVIOUS
<1>3. Len(in2) = m + 1 /\ in2[m + 1] = h /\ \A i \in 1 .. m : in2[i] = in[i]
  OBVIOUS
<1>4. /\ \A j, k \in 1 .. l : j < k => pos[j] < pos[k]
      /\ PongWaits(o) <=> \E k \in 1 .. l : pos[k] = 0
      /\ \A i \in 1 .. m : IsPing(in[i]) <=> \E k \in 1 .. l : pos[k] = i
      /\ \A k \in 1 .. l : IF pos[k] = 0 THEN q[k] = Length(Head(o).header) ELSE q[k] = Length(in[pos[k]])
  BY <1>1 DEF Matches
<1>a. pos \in [1 .. l -> 0 .. m]
  BY <1>1
<1> HIDE DEF l, m, in2
<1>5. pos \in [1 .. l -> 0 .. m + 1] /\ \A k \in 1 .. l : pos[k] \in 0 .. m
  BY <1>2, <1>a
<1>6. \A i \in 1 .. m + 1 : IsPing(in2[i]) <=> \E k \in 1 .. l : pos[k] = i
  <2>1. \A i \in 1 .. m : IsPing(in2[i]) <=> \E k \in 1 .. l : pos[k] = i
    BY <1>3, <1>4
  <2>2. ~IsPing(in2[m + 1]) /\ \A k \in 1 .. l : pos[k] # m + 1
    BY <1>2, <1>3, <1>5
  <2>3. \A i \in 1 .. m + 1 : i \in 1 .. m \/ i = m + 1
    BY <1>2
  <2> QED BY <2>1, <2>2, <2>3
<1>7. \A k \in 1 .. l : pos[k] # 0 => in2[pos[k]] = in[pos[k]]
  BY <1>2, <1>3, <1>5
<1>8. Matches(pos, q, in2, o)
  BY <1>3, <1>4, <1>6, <1>7 DEF Matches, l
<1> QED BY <1>3, <1>5, <1>8 DEF Awaited, l, in2

(* The reader takes a header, with the pong to a ping as its next frame.   *)
LEMMA AwaitedRead ==
  ASSUME NEW q \in Seq(Nat), NEW in \in Seq(Seq(Nat)), in # <<>>, NEW o, Awaited(q, in, o), NEW r,
         ~PongWaits(o), PongWaits(r) <=> IsPing(Head(in)),
         PongWaits(r) => Length(Head(r).header) = Length(Head(in))
  PROVE  Awaited(q, Tail(in), r)
<1>1. PICK pos \in [1 .. Len(q) -> 0 .. Len(in)] : Matches(pos, q, in, o)
  BY DEF Awaited
<1> DEFINE l == Len(q)
           m == Len(in)
           in2 == Tail(in)
           new == [k \in 1 .. l |-> pos[k] - 1]
<1>2. l \in Nat /\ m \in Nat \ {0}
  OBVIOUS
<1>3. Len(in2) = m - 1 /\ Head(in) = in[1] /\ \A i \in 1 .. m - 1 : in2[i] = in[i + 1]
  OBVIOUS
<1>4. /\ \A j, k \in 1 .. l : j < k => pos[j] < pos[k]
      /\ \A k \in 1 .. l : pos[k] # 0
      /\ \A i \in 1 .. m : IsPing(in[i]) <=> \E k \in 1 .. l : pos[k] = i
      /\ \A k \in 1 .. l : IF pos[k] = 0 THEN q[k] = Length(Head(o).header) ELSE q[k] = Length(in[pos[k]])
  BY <1>1 DEF Matches
<1>a. \A k \in 1 .. l : pos[k] \in 0 .. m /\ new[k] = pos[k] - 1
  BY <1>1
<1>b. new = [k \in 1 .. l |-> pos[k] - 1]
  OBVIOUS
<1> HIDE DEF l, m, in2, new
<1>5. \A k \in 1 .. l : pos[k] \in 1 .. m /\ q[k] = Length(in[pos[k]])
  BY <1>2, <1>4, <1>a
<1>c. \A k \in 1 .. l : pos[k] - 1 \in 0 .. m - 1
  BY <1>2, <1>5
<1>6. new \in [1 .. l -> 0 .. m - 1] /\ \A k \in 1 .. l : new[k] = pos[k] - 1
  BY <1>a, <1>b, <1>c
<1>7. \A j, k \in 1 .. l : j < k => new[j] < new[k]
  <2>1. ASSUME NEW j \in 1 .. l, NEW k \in 1 .. l, j < k
        PROVE  new[j] < new[k]
    <3> DEFINE x == pos[j]  y == pos[k]
    <3>1. x < y /\ x \in 1 .. m /\ y \in 1 .. m /\ new[j] = x - 1 /\ new[k] = y - 1
      BY <1>4, <1>5, <1>6, <2>1
    <3> HIDE DEF x, y
    <3> QED BY <1>2, <3>1
  <2> QED BY <2>1
<1>8. PongWaits(r) <=> \E k \in 1 .. l : new[k] = 0
  <2>1. PongWaits(r) <=> \E k \in 1 .. l : pos[k] = 1
    BY <1>2, <1>3, <1>4
  <2>2. \A k \in 1 .. l : pos[k] = 1 <=> new[k] = 0
    BY <1>2, <1>5, <1>6
  <2> QED BY <2>1, <2>2
<1>9. \A i \in 1 .. m - 1 : IsPing(in2[i]) <=> \E k \in 1 .. l : new[k] = i
  <2>1. ASSUME NEW i \in 1 .. m - 1
        PROVE  IsPing(in2[i]) <=> \E k \in 1 .. l : new[k] = i
    <3>1. i + 1 \in 1 .. m /\ in2[i] = in[i + 1]
      BY <1>2, <1>3
    <3>2. IsPing(in[i + 1]) <=> \E k \in 1 .. l : pos[k] = i + 1
      BY <1>4, <3>1
    <3>3. ASSUME NEW k \in 1 .. l PROVE pos[k] = i + 1 <=> new[k] = i
      <4>1. pos[k] \in 1 .. m /\ new[k] = pos[k] - 1
        BY <1>5, <1>6
      <4> DEFINE x == pos[k]  y == new[k]
      <4>2. x \in Int /\ y = x - 1
        BY <1>2, <4>1
      <4> HIDE DEF x, y
      <4>3. x = i + 1 <=> y = i
        BY <4>2
      <4> QED BY <4>3 DEF x, y
    <3> QED BY <3>1, <3>2, <3>3
  <2> QED BY <2>1
<1>10. \A k \in 1 .. l :
         IF new[k] = 0 THEN q[k] = Length(Head(r).header) ELSE q[k] = Length(in2[new[k]])
  <2>1. ASSUME NEW k \in 1 .. l
        PROVE  IF new[k] = 0 THEN q[k] = Length(Head(r).header) ELSE q[k] = Length(in2[new[k]])
    <3>1. pos[k] \in 1 .. m /\ q[k] = Length(in[pos[k]]) /\ new[k] = pos[k] - 1
      BY <1>5, <1>6
    <3>2. CASE pos[k] = 1
      BY <1>3, <1>6, <1>8, <3>1, <3>2
    <3>3. CASE pos[k] # 1
      <4>1. new[k] \in 1 .. m - 1 /\ new[k] + 1 = pos[k]
        <5> DEFINE x == pos[k]  y == new[k]
        <5>1. x \in 1 .. m /\ x # 1 /\ y = x - 1
          BY <3>1, <3>3
        <5> HIDE DEF x, y
        <5>2. y \in 1 .. m - 1 /\ y + 1 = x
          BY <1>2, <5>1
        <5> QED BY <5>2 DEF x, y
      <4>2. in2[new[k]] = in[pos[k]]
        BY <1>3, <4>1
      <4> QED BY <1>2, <3>1, <4>1, <4>2
    <3> QED BY <3>2, <3>3
  <2> QED BY <2>1
<1>11. Matches(new, q, in2, r)
  BY <1>3, <1>7, <1>8, <1>9, <1>10 DEF Matches, l
<1> QED BY <1>3, <1>6, <1>11 DEF Awaited, l, in2

(* The header of a pong is written: it answers the oldest ping.            *)
LEMMA AwaitedWritten ==
  ASSUME NEW q \in Seq(Nat), NEW in \in Seq(Seq(Nat)), NEW o, Awaited(q, in, o), NEW r,
         PongWaits(o), ~PongWaits(r)
  PROVE  q # <<>> /\ Head(q) = Length(Head(o).header) /\ Awaited(Tail(q), in, r)
<1>1. PICK pos \in [1 .. Len(q) -> 0 .. Len(in)] : Matches(pos, q, in, o)
  BY DEF Awaited
<1> DEFINE l == Len(q)
           m == Len(in)
           q2 == Tail(q)
           new == [k \in 1 .. l - 1 |-> pos[k + 1]]
<1>2. l \in Nat /\ m \in Nat
  OBVIOUS
<1>3. /\ \A j, k \in 1 .. l : j < k => pos[j] < pos[k]
      /\ \E k \in 1 .. l : pos[k] = 0
      /\ \A i \in 1 .. m : IsPing(in[i]) <=> \E k \in 1 .. l : pos[k] = i
      /\ \A k \in 1 .. l : IF pos[k] = 0 THEN q[k] = Length(Head(o).header) ELSE q[k] = Length(in[pos[k]])
      /\ \A k \in 1 .. l : pos[k] \in 0 .. m
  BY <1>1 DEF Matches
<1>4. 1 \in 1 .. l /\ pos[1] = 0
  <2>1. PICK k \in 1 .. l : pos[k] = 0
    BY <1>3
  <2>2. 1 \in 1 .. l
    BY <1>2, <2>1
  <2>3. ~(1 < k)
    BY <1>2, <1>3, <2>1, <2>2
  <2> QED BY <1>2, <2>1, <2>2, <2>3
<1>5. \A k \in 2 .. l : pos[k] \in 1 .. m
  BY <1>2, <1>3, <1>4
<1>6. q # <<>> /\ Head(q) = q[1] /\ Len(q2) = l - 1 /\ \A k \in 1 .. l - 1 : q2[k] = q[k + 1]
  BY <1>2, <1>4
<1>a. new = [k \in 1 .. l - 1 |-> pos[k + 1]]
  OBVIOUS
<1> HIDE DEF l, m, q2, new
<1>b. \A k \in 1 .. l - 1 : k + 1 \in 1 .. l /\ k + 1 \in 2 .. l
  BY <1>2
<1>7. new \in [1 .. l - 1 -> 0 .. m] /\ \A k \in 1 .. l - 1 : new[k] = pos[k + 1]
  BY <1>3, <1>a, <1>b
<1>8. \A j, k \in 1 .. l - 1 : j < k => new[j] < new[k]
  <2>1. ASSUME NEW j \in 1 .. l - 1, NEW k \in 1 .. l - 1, j < k
        PROVE  new[j] < new[k]
    <3>1. j + 1 < k + 1
      BY <1>2, <2>1
    <3>2. pos[j + 1] < pos[k + 1]
      BY <1>3, <1>b, <3>1
    <3> QED BY <1>7, <3>2
  <2> QED BY <2>1
<1>9. ~\E k \in 1 .. l - 1 : new[k] = 0
  <2>1. ASSUME NEW k \in 1 .. l - 1 PROVE new[k] # 0
    <3>1. new[k] = pos[k + 1] /\ pos[k + 1] \in 1 .. m
      BY <1>5, <1>7, <1>b
    <3>2. 0 \notin 1 .. m
      BY <1>2
    <3> QED BY <3>1, <3>2
  <2> QED BY <2>1
<1>10. \A i \in 1 .. m : IsPing(in[i]) <=> \E k \in 1 .. l - 1 : new[k] = i
  <2>1. ASSUME NEW i \in 1 .. m
        PROVE  IsPing(in[i]) <=> \E k \in 1 .. l - 1 : new[k] = i
    <3>1. IsPing(in[i]) <=> \E k \in 1 .. l : pos[k] = i
      BY <1>3
    <3>2. \A k \in 1 .. l : pos[k] = i => k - 1 \in 1 .. l - 1 /\ new[k - 1] = i
      BY <1>2, <1>4, <1>7
    <3>3. \A k \in 1 .. l - 1 : new[k] = i => k + 1 \in 1 .. l /\ pos[k + 1] = i
      BY <1>2, <1>7
    <3> QED BY <3>1, <3>2, <3>3
  <2> QED BY <2>1
<1>11. \A k \in 1 .. l - 1 :
         IF new[k] = 0 THEN q2[k] = Length(Head(r).header) ELSE q2[k] = Length(in[new[k]])
  <2>1. ASSUME NEW k \in 1 .. l - 1
        PROVE  new[k] # 0 /\ q2[k] = Length(in[new[k]])
    <3>1. k + 1 \in 1 .. l /\ new[k] = pos[k + 1] /\ q2[k] = q[k + 1]
      BY <1>2, <1>6, <1>7
    <3> QED BY <1>3, <1>9, <3>1
  <2> QED BY <2>1
<1>12. Matches(new, q2, in, r)
  BY <1>6, <1>8, <1>9, <1>10, <1>11 DEF Matches, m
<1>13. Head(q) = Length(Head(o).header)
  BY <1>3, <1>4, <1>6
<1> QED BY <1>6, <1>7, <1>12, <1>13 DEF Awaited, m, q2

-----------------------------------------------------------------------------
(* The inductive invariant.                                                *)
Lengths == Sizes \cup Pings \cup {0}

(* A length in Go is an int.                                               *)
LengthsFit == \A n \in Sizes \cup Pings : Fits64(n)

(* A goroutine has a whole frame to write; only the reader sends pongs.    *)
Fresh(g) ==
  \E opcode \in {Text, Pong}, n \in Lengths :
    (g = "poller" => opcode = Text) /\ out[g] = Frame(opcode, n)

Ordered ==
  /\ \A g \in Goroutines : (mu = g <=> pc[g] = "write") /\ (pc[g] = "lock" => Fresh(g))
  /\ \A i \in 1 .. Len(inbox) : Length(inbox[i]) \in Lengths

(* What the client still misses, when it has read all that is on its way,  *)
(* is what the holder of Conn.mu has yet to write.                         *)
Writing(v) ==
  /\ mu = NoOne => v.missing = 0
  /\ \A g \in Goroutines : mu = g => (Fresh(g) /\ v.missing = 0) \/ Rest(out[g], v.missing)

OnItsWay(t) ==
  LET v == t[Len(pipe)]
  IN  /\ Trail(t, view, pipe)
      /\ conn = "up" => Writing(v) /\ Awaited(v.pings, inbox, out["reader"])

Inv == TypeOK /\ Ordered /\ \E t : OnItsWay(t)

LEMMA LengthsAreNat == Lengths \subseteq Nat
BY FramesAssumption DEF Lengths

LEMMA LengthsFit64 ==
  ASSUME LengthsFit, NEW n \in Lengths
  PROVE  n \in Nat /\ Fits64(n)
BY LengthsAreNat DEF LengthsFit, Lengths, Fits64

LEMMA FreshShape ==
  ASSUME LengthsFit, NEW op \in {Text, Pong}, NEW n \in Lengths, NEW o, o = Frame(op, n)
  PROVE  /\ o \in Seq(Chunks) /\ o # <<>> /\ Head(o) = Chunk(Header(op, n), 0)
         /\ Head(o).header = Header(op, n) /\ Head(o).header # <<>> /\ Length(Head(o).header) = n
         /\ Rest(Tail(o), n) /\ (PongWaits(o) <=> op = Pong)
<1>1. n \in Nat /\ Fits64(n) /\ op \in 0 .. 15
  BY LengthsFit64 DEF Text, Pong
<1>2. o \in Seq(Chunks) /\ o # <<>> /\ Head(o) = Chunk(Header(op, n), 0) /\ Rest(Tail(o), n)
  BY <1>1, FrameShape
<1>3. Head(o).header = Header(op, n)
  BY <1>2 DEF Chunk
<1>4. Header(op, n) # <<>> /\ Length(Header(op, n)) = n /\ Opcode(Header(op, n)) = op
  BY <1>1, HeaderShape, LengthSurvives
<1> QED BY <1>2, <1>3, <1>4 DEF PongWaits

LEMMA RestIsQuiet ==
  ASSUME NEW o, NEW m, Rest(o, m)
  PROVE  ~PongWaits(o)
<1>1. o # <<>> => Head(o).header = <<>>
  BY RestShrinks
<1> QED BY <1>1 DEF PongWaits

LEMMA EmptyIsQuiet == ~PongWaits(<<>>)
BY DEF PongWaits

LEMMA InitOrdered == Init => Inv
<1> SUFFICES ASSUME Init PROVE Inv
  OBVIOUS
<1> DEFINE t == [i \in 0 .. 0 |-> view]
<1>1. /\ pc = [g \in Goroutines |-> "ready"] /\ out = [g \in Goroutines |-> <<>>]
      /\ mu = NoOne /\ conn = "up" /\ pipe = <<>> /\ inbox = <<>> /\ reading = TRUE
      /\ view = [sane |-> TRUE, missing |-> 0, pings |-> <<>>] /\ sent = 0 /\ polls = 0
  BY DEF Init
<1>2. TypeOK
  <2>1. view \in [sane : BOOLEAN, missing : Int, pings : Seq(Nat)] /\ view \in Views
    BY <1>1 DEF Views
  <2>2. 0 <= Window /\ 0 \in 0 .. MaxSent /\ 0 \in 0 .. MaxPolls
    BY FramesAssumption
  <2>3. pc \in [Goroutines -> {"ready", "lock", "write", "over", "command"}] /\ out \in [Goroutines -> Seq(Chunks)]
    BY <1>1
  <2>4. pipe \in Seq(Chunks) /\ Len(pipe) = 0 /\ inbox \in Seq(Seq(Nat)) /\ Len(inbox) = 0
    BY <1>1
  <2>5. pc["poller"] # "command" /\ \A g \in Goroutines : out[g] = <<>>
    BY <1>1 DEF Goroutines
  <2>6. Len(pipe) <= Window /\ Len(inbox) <= sent /\ sent \in 0 .. MaxSent /\ polls \in 0 .. MaxPolls
    BY <1>1, <2>2, <2>4
  <2> QED BY <1>1, <2>1, <2>3, <2>4, <2>5, <2>6 DEF TypeOK
<1>3. Ordered
  <2>1. \A g \in Goroutines : mu # g /\ pc[g] = "ready"
    BY <1>1 DEF Goroutines, NoOne
  <2>2. 1 .. Len(inbox) = {}
    BY <1>1
  <2> QED BY <2>1, <2>2 DEF Ordered
<1>4. OnItsWay(t)
  <2>1. Len(pipe) = 0 /\ 1 .. 0 = {} /\ 0 .. 0 = {0}
    BY <1>1
  <2>2. view \in Views /\ view.sane /\ view.missing = 0 /\ view.pings = <<>>
    BY <1>1 DEF Views
  <2>3. Trail(t, view, pipe) /\ t[Len(pipe)] = view
    BY <2>1, <2>2 DEF Trail
  <2>4. Writing(view)
    BY <1>1, <2>2 DEF Writing, Goroutines, NoOne
  <2>5. Awaited(<<>>, inbox, out["reader"])
    <3>1. out["reader"] = <<>> /\ Len(inbox) = 0 /\ Len(<<>>) = 0
      BY <1>1 DEF Goroutines
    <3>2. Matches([k \in 1 .. 0 |-> 0], <<>>, inbox, out["reader"])
      BY <2>1, <3>1, EmptyIsQuiet DEF Matches
    <3>3. [k \in 1 .. 0 |-> 0] \in [1 .. Len(<<>>) -> 0 .. Len(inbox)]
      BY <3>1
    <3> QED BY <3>2, <3>3 DEF Awaited
  <2> HIDE DEF t
  <2> QED BY <2>2, <2>3, <2>4, <2>5 DEF OnItsWay
<1> HIDE DEF t
<1> QED BY <1>2, <1>3, <1>4 DEF Inv

-----------------------------------------------------------------------------
(* Type correctness and the order of the goroutines.                       *)
LEMMA FrameTyped ==
  ASSUME LengthsFit, NEW op \in {Text, Pong}, NEW n \in Lengths
  PROVE  Frame(op, n) \in Seq(Chunks)
BY FreshShape

LEMMA PingLength ==
  ASSUME TypeOK, Ordered, inbox # <<>>
  PROVE  Length(Head(inbox)) \in Lengths
<1>1. Head(inbox) = inbox[1] /\ 1 \in 1 .. Len(inbox)
  BY DEF TypeOK
<1> QED BY <1>1 DEF Ordered

LEMMA ClientFrame ==
  ASSUME LengthsFit, NEW n \in Lengths, NEW opcode \in {Text, Ping, CloseFrame}, NEW final \in BOOLEAN
  PROVE  LET h == ClientHeader(final, opcode, n)
         IN  h \in Seq(Nat) /\ Length(h) = n /\ (IsPing(h) <=> final /\ opcode = Ping)
<1>1. n \in Nat /\ Fits64(n) /\ opcode \in 0 .. 15
  BY LengthsFit64 DEF Text, Ping, CloseFrame
<1>2. /\ Length(ClientHeader(final, opcode, n)) = n /\ Opcode(ClientHeader(final, opcode, n)) = opcode
      /\ Final(ClientHeader(final, opcode, n)) <=> final
  BY <1>1, ClientLengthSurvives
<1>3. ClientHeader(final, opcode, n) \in Seq(Nat)
  BY <1>1, ClientHeaderShape
<1> QED BY <1>2, <1>3 DEF IsPing

(* The sends of the client.                                                *)
Sends == \E final \in BOOLEAN, opcode \in {Text, Ping, CloseFrame}, n \in Lengths :
           ClientSends(final, opcode, n) /\ (opcode = Ping => final)

LEMMA ClientDoes ==
  ASSUME Client
  PROVE  Sends \/ ClientReads \/ ClientStalls \/ ClientVanishes
<1>1. Sizes \subseteq Lengths /\ Pings \subseteq Lengths /\ 0 \in Lengths
  BY DEF Lengths
<1>2. Text # Ping /\ CloseFrame # Ping
  BY DEF Text, Ping, CloseFrame
<1> QED BY <1>1, <1>2 DEF Client, Sends

LEMMA TypedStep ==
  ASSUME LengthsFit, Inv, [Next]_vars
  PROVE  TypeOK'
<1>0. /\ TypeOK /\ Ordered /\ Goroutines = {"reader", "poller"}
      /\ out \in [Goroutines -> Seq(Chunks)] /\ pc \in [Goroutines -> {"ready", "lock", "write", "over", "command"}]
  BY DEF Inv, TypeOK, Goroutines
<1>a. Window \in Nat /\ MaxPolls \in Nat /\ MaxSent \in Nat /\ Lengths \subseteq Nat /\ Sizes \subseteq Lengths
  BY FramesAssumption, LengthsAreNat DEF Lengths
<1>b. inbox \in Seq(Seq(Nat)) /\ Len(inbox) \in Nat /\ Len(inbox) <= sent /\ sent \in 0 .. MaxSent
  BY <1>0 DEF TypeOK
<1> USE DEF client, Goto
<1>1. CASE UNCHANGED vars
  BY <1>0, <1>1 DEF vars, TypeOK
<1>2. ASSUME NEW g \in Goroutines, Lock(g) \/ Written(g) PROVE TypeOK'
  BY <1>0, <1>2 DEF Lock, Written, TypeOK
<1>3. ASSUME NEW g \in Goroutines, Write(g) PROVE TypeOK'
  <2>1. /\ out[g] \in Seq(Chunks) /\ out[g] # <<>> /\ pc[g] = "write" /\ Len(pipe) < Window
        /\ pipe' = Append(pipe, Head(out[g])) /\ out' = [out EXCEPT ![g] = Tail(out[g])]
    BY <1>0, <1>3 DEF Write
  <2>2. Head(out[g]) \in Chunks /\ Tail(out[g]) \in Seq(Chunks)
    BY <2>1
  <2>3. out' \in [Goroutines -> Seq(Chunks)]
    BY <1>0, <2>1, <2>2
  <2>4. pipe' \in Seq(Chunks) /\ Len(pipe') <= Window
    BY <1>0, <1>a, <2>1, <2>2 DEF TypeOK
  <2>5. \A k \in Goroutines : pc[k] \in {"ready", "over", "command"} => out'[k] = <<>>
    BY <1>0, <2>1 DEF TypeOK
  <2> QED BY <1>0, <1>3, <2>3, <2>4, <2>5 DEF Write, TypeOK
<1>4. ASSUME NEW g \in Goroutines, WriteFails(g) PROVE TypeOK'
  BY <1>0, <1>4 DEF WriteFails, TypeOK
<1>5. CASE ReadText \/ ReadPing
  <2>1. PICK op \in {Text, Pong}, n \in Lengths : Send("reader", op, n)
    BY <1>0, <1>5, <1>a, PingLength DEF ReadText, ReadPing, Incoming
  <2>2. /\ out' \in [Goroutines -> Seq(Chunks)]
        /\ pc' = [pc EXCEPT !["reader"] = "lock"] /\ out'["poller"] = out["poller"]
    BY <1>0, <2>1, FrameTyped DEF Send
  <2>3. inbox # <<>> /\ inbox' = Tail(inbox) /\ sent' = sent /\ inbox \in Seq(Seq(Nat))
    BY <1>0, <1>5 DEF ReadText, ReadPing, Incoming, TypeOK
  <2>4. inbox' \in Seq(Seq(Nat)) /\ Len(inbox') <= Len(inbox) /\ Len(inbox) \in Nat /\ Len(inbox') \in Nat
    BY <2>3
  <2>5. sent' \in 0 .. MaxSent /\ Len(inbox') <= sent'
    BY <1>0, <1>a, <2>3, <2>4 DEF TypeOK
  <2> QED BY <1>0, <1>5, <2>2, <2>4, <2>5 DEF ReadText, ReadPing, Incoming, TypeOK
<1>6. CASE ReadOther \/ ReadCommand
  <2>a. inbox # <<>> /\ inbox' = Tail(inbox) /\ sent' = sent
    BY <1>6 DEF ReadOther, ReadCommand, Incoming
  <2>1. inbox' \in Seq(Seq(Nat)) /\ Len(inbox') <= Len(inbox) /\ Len(inbox') \in Nat
    BY <1>b, <2>a
  <2>2. sent' \in 0 .. MaxSent /\ Len(inbox') <= sent'
    BY <1>b, <1>a, <2>a, <2>1
  <2>3. CASE ReadOther
    BY <1>0, <2>1, <2>2, <2>3 DEF ReadOther, Incoming, Quit, TypeOK
  <2>4. CASE ReadCommand
    BY <1>0, <2>1, <2>2, <2>4 DEF ReadCommand, Incoming, TypeOK
  <2> QED BY <1>6, <2>3, <2>4
<1>7. CASE ReadFails
  BY <1>0, <1>7 DEF ReadFails, Quit, TypeOK
<1>8. CASE Poll
  <2>1. PICK n \in Lengths : Send("poller", Text, n)
    BY <1>8, <1>a DEF Poll
  <2>2. /\ out' \in [Goroutines -> Seq(Chunks)]
        /\ pc' = [pc EXCEPT !["poller"] = "lock"] /\ out'["reader"] = out["reader"]
    BY <1>0, <2>1, FrameTyped DEF Send
  <2>3. polls' \in 0 .. MaxPolls
    BY <1>0, <1>8, <1>a DEF Poll, TypeOK
  <2> QED BY <1>0, <1>8, <2>2, <2>3 DEF Poll, TypeOK
<1>9. CASE PollerStops
  BY <1>0, <1>9 DEF PollerStops, TypeOK
<1>10. CASE Sends
  <2>1. PICK final \in BOOLEAN, opcode \in {Text, Ping, CloseFrame}, n \in Lengths :
          ClientSends(final, opcode, n)
    BY <1>10 DEF Sends
  <2>2. ClientHeader(final, opcode, n) \in Seq(Nat) /\ n \in Nat
    BY <1>a, ClientFrame
  <2>3. inbox' \in Seq(Seq(Nat)) /\ Len(inbox') = Len(inbox) + 1 /\ Len(inbox) \in Nat
    <3>1. inbox' = Append(inbox, ClientHeader(final, opcode, n)) /\ inbox \in Seq(Seq(Nat))
      BY <1>0, <2>1 DEF ClientSends, TypeOK
    <3> QED BY <2>2, <3>1
  <2>a. sent < MaxSent /\ sent' = sent + 1
    BY <2>1 DEF ClientSends
  <2>4. sent' \in 0 .. MaxSent /\ Len(inbox') <= sent'
    BY <1>a, <1>b, <2>a, <2>3
  <2>5. view' \in Views
    <3>1. view \in Views
      BY <1>0 DEF TypeOK, Views
    <3>2. view' = view \/ view' = Ask(view, n)
      BY <2>1 DEF ClientSends, Ask
    <3> QED BY <2>2, <3>1, <3>2, Asking
  <2> QED BY <1>0, <2>1, <2>3, <2>4, <2>5 DEF ClientSends, TypeOK, Views
<1>11. CASE ClientReads
  <2>1. PICK t : Trail(t, view, pipe)
    BY DEF Inv, OnItsWay
  <2>2. pipe \in Seq(Chunks) /\ pipe # <<>> /\ pipe' = Tail(pipe) /\ view' = Parse(view, Head(pipe))
        /\ Len(pipe) <= Window
    BY <1>0, <1>11 DEF ClientReads, TypeOK
  <2>3. pipe' \in Seq(Chunks) /\ Len(pipe') <= Window
    BY <1>a, <2>2
  <2>4. view' \in Views
    <3>1. Head(pipe) = pipe[1] /\ 1 \in 1 .. Len(pipe) /\ 1 \in 0 .. Len(pipe)
      BY <2>2
    <3>2. view' = t[1]
      BY <2>1, <2>2, <3>1 DEF Trail
    <3> QED BY <2>1, <3>1, <3>2 DEF Trail
  <2> QED BY <1>0, <1>11, <2>3, <2>4 DEF ClientReads, TypeOK, Views
<1>12. CASE ClientStalls \/ ClientVanishes
  BY <1>0, <1>12 DEF ClientStalls, ClientVanishes, TypeOK
<1>13. CASE CommandEnds
  <2>1. PICK n \in Lengths : Send("reader", Text, n)
    BY <1>13, <1>a DEF CommandEnds
  <2>2. /\ out' \in [Goroutines -> Seq(Chunks)]
        /\ pc' = [pc EXCEPT !["reader"] = "lock"] /\ out'["poller"] = out["poller"]
    BY <1>0, <2>1, FrameTyped DEF Send
  <2> QED BY <1>0, <1>13, <2>2 DEF CommandEnds, TypeOK
<1> QED BY <1>13, <1>1, <1>2, <1>3, <1>4, <1>5, <1>6, <1>7, <1>8, <1>9, <1>10, <1>11, <1>12, ClientDoes
        DEF Next, Reader, WriteFrame

LEMMA OrderedStep ==
  ASSUME LengthsFit, Inv, [Next]_vars
  PROVE  Ordered'
<1>0. /\ TypeOK /\ Ordered /\ Goroutines = {"reader", "poller"} /\ NoOne \notin Goroutines
      /\ out \in [Goroutines -> Seq(Chunks)] /\ pc \in [Goroutines -> {"ready", "lock", "write", "over", "command"}]
      /\ inbox \in Seq(Seq(Nat))
  BY DEF Inv, TypeOK, Goroutines, NoOne
<1>a. Sizes \subseteq Lengths
  BY DEF Lengths
<1> DEFINE Turn(g) == (mu = g <=> pc[g] = "write") /\ (pc[g] = "lock" => Fresh(g))
           Sound == \A i \in 1 .. Len(inbox) : Length(inbox[i]) \in Lengths
<1>b. Turn("reader") /\ Turn("poller") /\ Sound
  BY <1>0 DEF Ordered
<1>c. SUFFICES Turn("reader")' /\ Turn("poller")' /\ Sound'
  BY <1>0 DEF Ordered
<1>d. inbox # <<>> /\ inbox' = Tail(inbox) => Sound'
  <2> SUFFICES ASSUME inbox # <<>>, inbox' = Tail(inbox) PROVE Sound'
    OBVIOUS
  <2>1. /\ Len(inbox) \in Nat /\ Len(inbox') = Len(inbox) - 1
        /\ \A i \in 1 .. Len(inbox') : i + 1 \in 1 .. Len(inbox) /\ inbox'[i] = inbox[i + 1]
    BY <1>0
  <2> QED BY <1>b, <2>1
<1>e. \A g \in Goroutines : out'[g] = out[g] /\ Fresh(g) => Fresh(g)'
  BY DEF Fresh
<1> USE DEF client, Goto
<1>1. CASE UNCHANGED vars \/ ClientReads \/ ClientStalls \/ ClientVanishes
  BY <1>0, <1>1, <1>b, <1>e DEF vars, ClientReads, ClientStalls, ClientVanishes
<1>2. CASE Sends
  <2>1. PICK final \in BOOLEAN, opcode \in {Text, Ping, CloseFrame}, n \in Lengths :
          ClientSends(final, opcode, n)
    BY <1>2 DEF Sends
  <2>2. ClientHeader(final, opcode, n) \in Seq(Nat) /\ Length(ClientHeader(final, opcode, n)) \in Lengths
    BY ClientFrame
  <2>3. inbox' = Append(inbox, ClientHeader(final, opcode, n)) /\ UNCHANGED <<pc, out, mu>>
    BY <2>1 DEF ClientSends
  <2>4. Sound'
    <3> DEFINE h == ClientHeader(final, opcode, n)
    <3>1. h \in Seq(Nat) /\ Length(h) \in Lengths /\ inbox' = Append(inbox, h)
      BY <2>2, <2>3
    <3> HIDE DEF h
    <3>2. /\ Len(inbox') = Len(inbox) + 1 /\ inbox'[Len(inbox) + 1] = h /\ Len(inbox) \in Nat
          /\ \A i \in 1 .. Len(inbox) : inbox'[i] = inbox[i]
      BY <1>0, <3>1
    <3>3. \A i \in 1 .. Len(inbox) + 1 : i \in 1 .. Len(inbox) \/ i = Len(inbox) + 1
      BY <3>2
    <3> QED BY <1>b, <3>1, <3>2, <3>3
  <2> QED BY <1>0, <1>b, <1>e, <2>3, <2>4
<1>3. ASSUME NEW g \in Goroutines, Lock(g) \/ Written(g) \/ WriteFails(g)
      PROVE  Turn("reader")' /\ Turn("poller")' /\ Sound'
  <2>1. Sound'
    BY <1>3, <1>b DEF Lock, Written, WriteFails
  <2>2. ASSUME NEW k \in Goroutines PROVE Turn(k)'
    BY <1>0, <1>3, <1>b, <1>e, <2>2 DEF Lock, Written, WriteFails
  <2> QED BY <1>0, <2>1, <2>2
<1>4. ASSUME NEW g \in Goroutines, Write(g)
      PROVE  Turn("reader")' /\ Turn("poller")' /\ Sound'
  <2>1. Sound' /\ pc' = pc /\ mu' = mu /\ pc[g] = "write" /\ \A k \in Goroutines : k # g => out'[k] = out[k]
    BY <1>0, <1>4, <1>b DEF Write
  <2> QED BY <1>0, <1>b, <1>e, <2>1
<1>5. CASE ReadText \/ ReadPing
  <2>1. PICK op \in {Text, Pong}, n \in Lengths : Send("reader", op, n)
    BY <1>0, <1>5, <1>a, PingLength DEF ReadText, ReadPing, Incoming
  <2>2. /\ pc["reader"] = "ready" /\ mu' = mu /\ pc'["reader"] = "lock" /\ pc'["poller"] = pc["poller"]
        /\ out'["reader"] = Frame(op, n) /\ out'["poller"] = out["poller"]
        /\ inbox # <<>> /\ inbox' = Tail(inbox)
    BY <1>0, <1>5, <2>1 DEF ReadText, ReadPing, Incoming, Send
  <2>3. Fresh("reader")'
    BY <2>2 DEF Fresh
  <2> QED BY <1>0, <1>b, <1>d, <1>e, <2>2, <2>3
<1>6. CASE ReadOther
  <2>1. /\ pc["reader"] = "ready" /\ mu' = mu /\ pc'["reader"] = "over" /\ pc'["poller"] = pc["poller"]
        /\ out' = out /\ inbox # <<>> /\ inbox' = Tail(inbox)
    BY <1>0, <1>6 DEF ReadOther, Incoming, Quit
  <2> QED BY <1>0, <1>b, <1>d, <1>e, <2>1
<1>9. CASE ReadCommand
  <2>1. /\ pc["reader"] = "ready" /\ mu' = mu /\ pc'["reader"] = "command" /\ pc'["poller"] = pc["poller"]
        /\ out' = out /\ inbox # <<>> /\ inbox' = Tail(inbox)
    BY <1>0, <1>9 DEF ReadCommand, Incoming
  <2> QED BY <1>0, <1>b, <1>d, <1>e, <2>1
<1>10. CASE CommandEnds
  <2>1. PICK n \in Lengths : Send("reader", Text, n)
    BY <1>10, <1>a DEF CommandEnds
  <2>2. /\ pc["reader"] = "command" /\ mu' = mu /\ pc'["reader"] = "lock" /\ pc'["poller"] = pc["poller"]
        /\ out'["reader"] = Frame(Text, n) /\ out'["poller"] = out["poller"] /\ inbox' = inbox
    BY <1>0, <1>10, <2>1 DEF CommandEnds, Send
  <2>3. Fresh("reader")'
    BY <2>2 DEF Fresh
  <2> QED BY <1>0, <1>b, <1>e, <2>2, <2>3
<1>7. CASE ReadFails \/ PollerStops
  BY <1>0, <1>7, <1>b, <1>e DEF ReadFails, Quit, PollerStops
<1>8. CASE Poll
  <2>1. PICK n \in Lengths : Send("poller", Text, n)
    BY <1>8, <1>a DEF Poll
  <2>2. /\ pc["poller"] = "ready" /\ mu' = mu /\ pc'["poller"] = "lock" /\ pc'["reader"] = pc["reader"]
        /\ out'["poller"] = Frame(Text, n) /\ out'["reader"] = out["reader"] /\ inbox' = inbox
    BY <1>0, <1>8, <2>1 DEF Poll, Send
  <2>3. Fresh("poller")'
    BY <2>2 DEF Fresh
  <2> QED BY <1>0, <1>b, <1>e, <2>2, <2>3
<1> QED BY <1>1, <1>2, <1>3, <1>4, <1>5, <1>6, <1>7, <1>8, <1>9, <1>10, ClientDoes DEF Next, Reader, WriteFrame

-----------------------------------------------------------------------------
(* What is on its way to the client, action by action.                     *)

(* Neither the chunks nor what the client has read changes.                *)
LEMMA Still ==
  ASSUME NEW t, OnItsWay(t), UNCHANGED <<pipe, view>>,
         conn' = "up" => /\ conn = "up"
                         /\ Writing(t[Len(pipe)])'
                         /\ Awaited(t[Len(pipe)].pings, inbox', out'["reader"])
  PROVE  OnItsWay(t)'
<1>1. Trail(t, view, pipe)' /\ t[Len(pipe')] = t[Len(pipe)]
  BY DEF OnItsWay
<1> QED BY <1>1 DEF OnItsWay

LEMMA LastView ==
  ASSUME NEW t, Trail(t, view, pipe), pipe \in Seq(Chunks)
  PROVE  t[Len(pipe)] \in Views /\ t[Len(pipe)].sane /\ t[Len(pipe)].pings \in Seq(Nat)
<1>1. Len(pipe) \in 0 .. Len(pipe)
  OBVIOUS
<1> QED BY <1>1 DEF Trail, Views

LEMMA LockOnItsWay ==
  ASSUME Ordered, NEW t, OnItsWay(t), NEW g \in Goroutines, Lock(g)
  PROVE  OnItsWay(t)'
<1>1. /\ mu = NoOne /\ mu' = g /\ Fresh(g) /\ UNCHANGED <<out, conn, pipe, view, inbox>>
  BY DEF Lock, Ordered, client
<1>2. conn = "up" => Writing(t[Len(pipe)])'
  <2>1. conn = "up" => t[Len(pipe)].missing = 0
    BY <1>1 DEF OnItsWay, Writing
  <2>2. mu' # NoOne
    BY <1>1 DEF Goroutines, NoOne
  <2> QED BY <1>1, <2>1, <2>2 DEF Writing, Fresh
<1> QED BY <1>1, <1>2, Still DEF OnItsWay

LEMMA WrittenOnItsWay ==
  ASSUME LengthsFit, Ordered, NEW t, OnItsWay(t), NEW g \in Goroutines, Written(g)
  PROVE  OnItsWay(t)'
<1>1. /\ mu = g /\ mu' = NoOne /\ out[g] = <<>> /\ UNCHANGED <<out, conn, pipe, view, inbox>>
  BY DEF Written, Ordered, client
<1>2. ~Fresh(g)
  BY <1>1, FreshShape DEF Fresh
<1>3. \A m : Rest(<<>>, m) => m = 0
  BY DEF Rest
<1>4. conn = "up" => t[Len(pipe)].missing = 0
  BY <1>1, <1>2, <1>3 DEF OnItsWay, Writing
<1>5. conn = "up" => Writing(t[Len(pipe)])'
  BY <1>1, <1>4 DEF Writing, Goroutines, NoOne
<1> QED BY <1>1, <1>5, Still DEF OnItsWay

(* One chunk of a frame.                                                   *)
LEMMA WriteOnItsWay ==
  ASSUME LengthsFit, TypeOK, Ordered, NEW t, OnItsWay(t), NEW g \in Goroutines, Write(g)
  PROVE  \E u : OnItsWay(u)'
<1> DEFINE v == t[Len(pipe)]
           o == out[g]
           c == Head(out[g])
           q == v.pings
           r == out["reader"]
<1>w. PICK w : w = Parse(v, c)
  OBVIOUS
<1>1. /\ mu = g /\ conn = "up" /\ o # <<>> /\ out' = [out EXCEPT ![g] = Tail(o)]
      /\ pipe' = Append(pipe, c) /\ UNCHANGED <<mu, conn, view, inbox>> /\ o \in Seq(Chunks)
      /\ out \in [Goroutines -> Seq(Chunks)] /\ pipe \in Seq(Chunks) /\ inbox \in Seq(Seq(Nat))
      /\ out'[g] = Tail(o) /\ "reader" \in Goroutines /\ "poller" \in Goroutines
      /\ g # "reader" => out'["reader"] = r
      /\ c \in Chunks /\ Tail(o) \in Seq(Chunks)
  BY DEF Write, Ordered, client, TypeOK, Goroutines
<1>2. /\ Trail(t, view, pipe) /\ v \in Views /\ v.sane /\ q \in Seq(Nat)
      /\ Writing(v) /\ Awaited(q, inbox, r)
  BY <1>1, LastView DEF OnItsWay
<1>3. (Fresh(g) /\ v.missing = 0) \/ Rest(o, v.missing)
  BY <1>1, <1>2 DEF Writing
<1> SUFFICES w \in Views /\ w.sane /\ Rest(Tail(o), w.missing) /\ Awaited(w.pings, inbox, out'["reader"])
  <2>1. PICK u : Trail(u, view, Append(pipe, c)) /\ u[Len(Append(pipe, c))] = w
    <3>1. w \in Views /\ w = Parse(t[Len(pipe)], c) /\ w.sane
      BY <1>w
    <3>2. pipe \in Seq(Chunks) /\ c \in Chunks /\ Trail(t, view, pipe)
      BY <1>1, <1>2
    <3> HIDE DEF c
    <3> QED BY <3>1, <3>2, TrailAppend
  <2>2. Trail(u, view, pipe)' /\ u[Len(pipe')] = w
    BY <1>1, <2>1
  <2>3. Writing(w)'
    <3>1. mu' = g /\ mu' # NoOne /\ Rest(out'[g], w.missing)
      BY <1>1 DEF Goroutines, NoOne
    <3> QED BY <3>1 DEF Writing
  <2>4. Awaited(w.pings, inbox', out'["reader"])
    BY <1>1
  <2> QED BY <2>2, <2>3, <2>4 DEF OnItsWay
<1>4. CASE Fresh(g) /\ v.missing = 0
  <2>1. PICK op \in {Text, Pong}, n \in Lengths : (g = "poller" => op = Text) /\ o = Frame(op, n)
    BY <1>4 DEF Fresh
  <2>2. /\ c = Chunk(Header(op, n), 0) /\ c.header = Header(op, n) /\ c.header # <<>>
        /\ Length(c.header) = n /\ Rest(Tail(o), n) /\ (PongWaits(o) <=> op = Pong)
        /\ n \in Nat /\ Fits64(n)
    BY <2>1, FreshShape, LengthsFit64
  <2>3. ~PongWaits(Tail(o))
    BY <2>2, RestIsQuiet
  <2>4. w \in Views
    BY <1>w, <1>1, <1>2, <2>2, ParseTyped
  <2>5. CASE op = Pong
    <3>1. g = "reader" /\ r = o
      BY <1>1, <2>1, <2>5 DEF Text, Pong, Goroutines
    <3>2. q # <<>> /\ Head(q) = n /\ Awaited(Tail(q), inbox, Tail(o))
      <4> HIDE DEF q, o
      <4> QED BY <1>1, <1>2, <2>2, <2>3, <2>5, <3>1, AwaitedWritten DEF o
    <3>3. w.sane /\ w.missing = n /\ w.pings = Tail(q)
      BY <1>w, <1>2, <1>4, <2>2, <2>5, <3>2, ParseHeader
    <3> QED BY <1>1, <2>2, <2>4, <3>1, <3>2, <3>3
  <2>6. CASE op = Text
    <3>1. w.sane /\ w.missing = n /\ w.pings = q
      BY <1>w, <1>2, <1>4, <2>2, <2>6, ParseHeader DEF Text, Pong
    <3>2. ~PongWaits(o)
      BY <2>2, <2>6 DEF Text, Pong
    <3>3. Awaited(q, inbox, out'["reader"])
      <4>1. CASE g = "reader"
        BY <1>1, <1>2, <2>3, <3>2, <4>1, AwaitedSame
      <4>2. CASE g # "reader"
        BY <1>1, <1>2, <4>2
      <4> QED BY <4>1, <4>2
    <3> QED BY <2>2, <2>4, <3>1, <3>3
  <2> QED BY <2>5, <2>6
<1>5. CASE Rest(o, v.missing)
  <2>1. c.header = <<>> /\ c.bytes <= v.missing /\ Rest(Tail(o), v.missing - c.bytes)
    BY <1>1, <1>5, RestShrinks
  <2>2. ~PongWaits(o) /\ ~PongWaits(Tail(o))
    BY <1>5, <2>1, RestIsQuiet
  <2>3. w \in Views
    BY <1>w, <1>1, <1>2, <2>1, ParseTyped
  <2>4. w.sane /\ w.missing = v.missing - c.bytes /\ w.pings = q
    BY <1>w, <1>1, <1>2, <2>1, ParseBytes
  <2>5. Awaited(q, inbox, out'["reader"])
    <3>1. CASE g = "reader"
      BY <1>1, <1>2, <2>2, <3>1, AwaitedSame
    <3>2. CASE g # "reader"
      BY <1>1, <1>2, <3>2
    <3> QED BY <3>1, <3>2
  <2> QED BY <2>1, <2>3, <2>4, <2>5
<1> QED BY <1>3, <1>4, <1>5

(* The reader takes a header and has a frame for it.                       *)
LEMMA ReadOnItsWay ==
  ASSUME LengthsFit, TypeOK, Ordered, NEW t, OnItsWay(t), ReadText \/ ReadPing
  PROVE  OnItsWay(t)'
<1> DEFINE h == Head(inbox)
           v == t[Len(pipe)]
<1>1. /\ pc["reader"] = "ready" /\ out["reader"] = <<>> /\ mu # "reader" /\ inbox # <<>>
      /\ inbox' = Tail(inbox) /\ UNCHANGED <<mu, conn, pipe, view>> /\ Final(h)
      /\ inbox \in Seq(Seq(Nat)) /\ out \in [Goroutines -> Seq(Chunks)] /\ pipe \in Seq(Chunks)
      /\ "reader" \in Goroutines /\ "poller" \in Goroutines
  BY DEF ReadText, ReadPing, Incoming, Ordered, TypeOK, Goroutines
<1>2. Length(h) \in Lengths
  BY <1>1, PingLength
<1>3. PICK op \in {Text, Pong}, n \in Lengths :
        Send("reader", op, n) /\ (op = Pong <=> IsPing(h)) /\ (op = Pong => n = Length(h))
  <2>1. Sizes \subseteq Lengths /\ Text # Pong /\ Text # Ping
    BY DEF Lengths, Text, Pong, Ping
  <2> QED BY <1>1, <1>2, <2>1 DEF ReadText, ReadPing, IsPing
<1>4. out'["reader"] = Frame(op, n) /\ out'["poller"] = out["poller"]
  BY <1>1, <1>3 DEF Send
<1>5. /\ PongWaits(out'["reader"]) <=> IsPing(h)
      /\ PongWaits(out'["reader"]) => Length(Head(out'["reader"]).header) = Length(h)
  BY <1>3, <1>4, FreshShape
<1>6. conn = "up" => Awaited(v.pings, inbox', out'["reader"])
  <2> SUFFICES ASSUME conn = "up" PROVE Awaited(v.pings, inbox', out'["reader"])
    OBVIOUS
  <2> DEFINE q == v.pings
  <2>1. Awaited(q, inbox, out["reader"]) /\ q \in Seq(Nat)
    BY <1>1, LastView DEF OnItsWay
  <2>2. ~PongWaits(out["reader"])
    BY <1>1, EmptyIsQuiet
  <2> HIDE DEF q
  <2>3. Awaited(q, inbox', out'["reader"])
    BY <1>1, <1>5, <2>1, <2>2, AwaitedRead
  <2> QED BY <2>3 DEF q
<1>7. conn = "up" => Writing(v)'
  <2> SUFFICES ASSUME conn = "up" PROVE Writing(v)'
    OBVIOUS
  <2>1. Writing(v)
    BY DEF OnItsWay
  <2> QED BY <1>1, <1>4, <2>1 DEF Writing, Fresh, Goroutines
<1> QED BY <1>1, <1>6, <1>7, Still DEF OnItsWay

(* The reader takes the header of a command.                               *)
LEMMA CommandOnItsWay ==
  ASSUME TypeOK, NEW t, OnItsWay(t), ReadCommand
  PROVE  OnItsWay(t)'
<1> DEFINE h == Head(inbox)
           v == t[Len(pipe)]
<1>1. /\ out["reader"] = <<>> /\ inbox # <<>> /\ inbox' = Tail(inbox)
      /\ UNCHANGED <<out, mu, conn, pipe, view>> /\ ~IsPing(h)
      /\ inbox \in Seq(Seq(Nat)) /\ pipe \in Seq(Chunks)
  BY DEF ReadCommand, Incoming, TypeOK, Goroutines, IsPing, Text, Ping
<1>2. ~PongWaits(out["reader"])
  BY <1>1, EmptyIsQuiet
<1>3. conn = "up" => Awaited(v.pings, inbox', out'["reader"])
  <2> SUFFICES ASSUME conn = "up" PROVE Awaited(v.pings, inbox', out'["reader"])
    OBVIOUS
  <2> DEFINE q == v.pings
  <2>1. Awaited(q, inbox, out["reader"]) /\ q \in Seq(Nat)
    BY <1>1, LastView DEF OnItsWay
  <2> HIDE DEF q
  <2>2. Awaited(q, inbox', out["reader"])
    BY <1>1, <1>2, <2>1, AwaitedRead
  <2> QED BY <1>1, <2>2 DEF q
<1>4. conn = "up" => Writing(v)'
  BY <1>1 DEF OnItsWay, Writing, Fresh
<1> QED BY <1>1, <1>3, <1>4, Still DEF OnItsWay

(* The command of the reader ends: its answer is no pong.                  *)
LEMMA AnswerOnItsWay ==
  ASSUME LengthsFit, Ordered, TypeOK, NEW t, OnItsWay(t), CommandEnds
  PROVE  OnItsWay(t)'
<1>1. PICK n \in Lengths : Send("reader", Text, n)
  BY DEF CommandEnds, Lengths
<1>2. /\ mu # "reader" /\ out["reader"] = <<>> /\ out'["reader"] = Frame(Text, n)
      /\ out'["poller"] = out["poller"] /\ UNCHANGED <<mu, conn, pipe, view, inbox>>
  BY <1>1 DEF CommandEnds, Send, Ordered, client, TypeOK, Goroutines
<1>3. ~PongWaits(out["reader"]) /\ ~PongWaits(out'["reader"])
  BY <1>2, EmptyIsQuiet, FreshShape DEF Text, Pong
<1>4. conn = "up" => Awaited(t[Len(pipe)].pings, inbox', out'["reader"])
  BY <1>2, <1>3, AwaitedSame DEF OnItsWay
<1>5. conn = "up" => Writing(t[Len(pipe)])'
  BY <1>2 DEF OnItsWay, Writing, Fresh, Goroutines
<1> QED BY <1>2, <1>4, <1>5, Still DEF OnItsWay

LEMMA PollOnItsWay ==
  ASSUME Ordered, TypeOK, NEW t, OnItsWay(t), Poll
  PROVE  OnItsWay(t)'
<1>1. PICK n \in Sizes : Send("poller", Text, n)
  BY DEF Poll
<1>2. /\ mu # "poller" /\ out'["reader"] = out["reader"] /\ UNCHANGED <<mu, conn, pipe, view, inbox>>
  BY <1>1 DEF Poll, Send, Ordered, client, TypeOK, Goroutines
<1>3. conn = "up" => Writing(t[Len(pipe)])'
  BY <1>2 DEF OnItsWay, Writing, Fresh, Goroutines
<1> QED BY <1>2, <1>3, Still DEF OnItsWay

(* The client sends: a ping is one more to answer.                         *)
LEMMA SendsOnItsWay ==
  ASSUME LengthsFit, TypeOK, NEW t, OnItsWay(t), Sends
  PROVE  \E u : OnItsWay(u)'
<1>1. PICK final \in BOOLEAN, opcode \in {Text, Ping, CloseFrame}, n \in Lengths :
        ClientSends(final, opcode, n) /\ (opcode = Ping => final)
  BY DEF Sends
<1>v. PICK v, h : v = t[Len(pipe)] /\ h = ClientHeader(final, opcode, n)
  OBVIOUS
<1> DEFINE q == v.pings
           r == out["reader"]
<1>2. /\ conn = "up" /\ inbox' = Append(inbox, h) /\ UNCHANGED <<pc, out, mu, conn, pipe>>
      /\ view' = IF opcode = Ping THEN Ask(view, n) ELSE view
      /\ inbox \in Seq(Seq(Nat)) /\ pipe \in Seq(Chunks)
  BY <1>v, <1>1 DEF ClientSends, TypeOK, Ask
<1>3. h \in Seq(Nat) /\ Length(h) = n /\ (IsPing(h) <=> opcode = Ping) /\ n \in Nat
  BY <1>v, <1>1, ClientFrame, LengthsAreNat
<1>4. /\ Trail(t, view, pipe) /\ v \in Views /\ v.sane /\ q \in Seq(Nat)
      /\ Writing(v) /\ Awaited(q, inbox, r)
  BY <1>v, <1>2, LastView DEF OnItsWay
<1>5. CASE opcode = Ping
  <2>1. PICK u : Trail(u, Ask(view, n), pipe) /\ u[Len(pipe)] = Ask(v, n)
    <3> DEFINE asked == [i \in 0 .. Len(pipe) |-> Ask(t[i], n)]
    <3>1. Trail(asked, Ask(view, n), pipe) /\ asked[Len(pipe)] = Ask(t[Len(pipe)], n)
      BY <1>2, <1>3, <1>4, TrailAsk
    <3> HIDE DEF asked
    <3> QED BY <1>v, <3>1
  <2>2. Ask(v, n).missing = v.missing /\ Ask(v, n).pings = Append(q, n)
    BY <1>3, <1>4, Asking
  <2> HIDE DEF q
  <2>3. Awaited(Append(q, n), Append(inbox, h), r)
    BY <1>2, <1>3, <1>4, <1>5, AwaitedSent
  <2>4. Writing(Ask(v, n))'
    BY <1>2, <1>4, <2>2 DEF Writing, Fresh
  <2>5. OnItsWay(u)'
    BY <1>2, <1>5, <2>1, <2>2, <2>3, <2>4 DEF OnItsWay, q
  <2> QED BY <2>5
<1>6. CASE opcode # Ping
  <2>1. Writing(v)'
    BY <1>2, <1>4 DEF Writing, Fresh
  <2> HIDE DEF q
  <2>2. Awaited(q, inbox', r)
    BY <1>2, <1>3, <1>4, <1>6, AwaitedOther
  <2>3. OnItsWay(t)'
    BY <1>v, <1>2, <1>6, <2>1, <2>2, Still DEF q
  <2> QED BY <2>3
<1> QED BY <1>5, <1>6

LEMMA ReadsOnItsWay ==
  ASSUME TypeOK, NEW t, OnItsWay(t), ClientReads
  PROVE  \E u : OnItsWay(u)'
<1>v. PICK v, u : v = t[Len(pipe)] /\ u = [i \in 0 .. Len(pipe) - 1 |-> t[i + 1]]
  OBVIOUS
<1>1. /\ pipe # <<>> /\ pipe' = Tail(pipe) /\ view' = Parse(view, Head(pipe)) /\ pipe \in Seq(Chunks)
      /\ UNCHANGED <<pc, out, mu, conn, inbox>>
  BY DEF ClientReads, TypeOK
<1>2. Trail(u, view', pipe') /\ u[Len(pipe')] = v
  BY <1>v, <1>1, TrailTail DEF OnItsWay
<1>3. conn = "up" => Writing(v) /\ Awaited(v.pings, inbox, out["reader"])
  BY <1>v DEF OnItsWay
<1>4. conn = "up" => Writing(v)'
  BY <1>1, <1>3 DEF Writing, Fresh
<1>5. OnItsWay(u)'
  BY <1>1, <1>2, <1>3, <1>4 DEF OnItsWay
<1> QED BY <1>5

LEMMA OnItsWayStep ==
  ASSUME LengthsFit, Inv, [Next]_vars
  PROVE  \E u : OnItsWay(u)'
<1>0. TypeOK /\ Ordered
  BY DEF Inv
<1>1. PICK t : OnItsWay(t)
  BY DEF Inv
<1>2. CASE \E g \in Goroutines : Lock(g)
  BY <1>0, <1>1, <1>2, LockOnItsWay
<1>3. CASE \E g \in Goroutines : Write(g)
  BY <1>0, <1>1, <1>3, WriteOnItsWay
<1>4. CASE \E g \in Goroutines : Written(g)
  BY <1>0, <1>1, <1>4, WrittenOnItsWay
<1>5. CASE ReadText \/ ReadPing
  BY <1>0, <1>1, <1>5, ReadOnItsWay
<1>11. CASE ReadCommand
  BY <1>0, <1>1, <1>11, CommandOnItsWay
<1>12. CASE CommandEnds
  BY <1>0, <1>1, <1>12, AnswerOnItsWay
<1>6. CASE Poll
  BY <1>0, <1>1, <1>6, PollOnItsWay
<1>7. CASE Sends
  BY <1>0, <1>1, <1>7, SendsOnItsWay
<1>8. CASE ClientReads
  BY <1>0, <1>1, <1>8, ReadsOnItsWay
<1>9. CASE \/ \E g \in Goroutines : WriteFails(g)
           \/ ReadOther \/ ReadFails \/ ClientVanishes
  <2>1. UNCHANGED <<pipe, view>> /\ conn' # "up"
    BY <1>9 DEF WriteFails, ReadOther, ReadFails, Incoming, Quit, ClientVanishes, client
  <2>2. OnItsWay(t)'
    BY <1>1, <2>1, Still
  <2> QED BY <2>2
<1>10. CASE UNCHANGED vars \/ PollerStops \/ ClientStalls
  <2>1. UNCHANGED <<out, mu, conn, pipe, view, inbox>>
    BY <1>10 DEF vars, PollerStops, ClientStalls, client
  <2>2. conn = "up" => Writing(t[Len(pipe)])' /\ Awaited(t[Len(pipe)].pings, inbox', out'["reader"])
    BY <1>1, <2>1 DEF OnItsWay, Writing, Fresh
  <2>3. OnItsWay(t)'
    BY <1>1, <2>1, <2>2, Still
  <2> QED BY <2>3
<1> QED BY <1>2, <1>3, <1>4, <1>5, <1>6, <1>7, <1>8, <1>9, <1>10, <1>11, <1>12, ClientDoes DEF Next, Reader, WriteFrame

-----------------------------------------------------------------------------
LEMMA Invariance ==
  ASSUME LengthsFit
  PROVE  SafetySpec => []Inv
<1>1. Init => Inv
  BY InitOrdered
<1>2. Inv /\ [Next]_vars => Inv'
  BY TypedStep, OrderedStep, OnItsWayStep DEF Inv
<1> QED BY <1>1, <1>2, PTL DEF SafetySpec

(* The type invariant of the frames of a connection.                       *)
THEOREM TypeCorrect ==
  ASSUME LengthsFit
  PROVE  SafetySpec => []TypeOK
<1>1. Inv => TypeOK
  BY DEF Inv
<1> QED BY Invariance, <1>1, PTL

(* WholeFrames, for any lengths that fit in 64 bits, any number of frames  *)
(* and any capacity of the network: as the two goroutines write under      *)
(* Conn.mu, chunk by chunk and blocked for as long as the client likes,    *)
(* what reaches the client are whole frames of the length announced, and   *)
(* each pong has the length of the oldest ping without one.                *)
THEOREM FramesAreWhole ==
  ASSUME LengthsFit
  PROVE  SafetySpec => []WholeFrames
<1>1. Inv => WholeFrames
  <2> SUFFICES ASSUME Inv PROVE WholeFrames
    OBVIOUS
  <2>1. PICK t : OnItsWay(t)
    BY DEF Inv
  <2>2. pipe \in Seq(Chunks) /\ Trail(t, view, pipe)
    BY <2>1 DEF Inv, TypeOK, OnItsWay
  <2>3. mu = NoOne /\ conn = "up" => t[Len(pipe)].missing = 0
    BY <2>1 DEF OnItsWay, Writing
  <2> QED BY <2>2, <2>3, Whole
<1> QED BY Invariance, <1>1, PTL
=============================================================================
