--------------------------- MODULE DisplayProofs ---------------------------
(***************************************************************************)
(* Proofs about the displays.  For any sensor and any faults of its train, *)
(* read_dht_data stays within its bits, reads a train that nothing has     *)
(* disturbed, and refuses one with a bit misread or lost.  Where one       *)
(* thread writes to the LCD, lcd_init finds the beginning of a byte        *)
(* whatever the LCD was left in, and both lines then show what is printed. *)
(***************************************************************************)
EXTENDS ClockDisplay, SequenceTheorems, TLAPS

-----------------------------------------------------------------------------
(* The decoder                                                             *)

\* How many of n bits belong to byte k, and the byte that b is so far when
\* its first m bits have come.
Bits(k, n) == IF n <= 8 * k THEN 0 ELSE IF n >= 8 * k + 8 THEN 8 ELSE n - 8 * k
Top(b, m)  == IF m = 0 THEN 0 ELSE b \div Worth[m]

\* What m bits can hold, and how far off one wrong bit among them can be.
Full == <<1, 2, 4, 8, 16, 32, 64, 128, 256>>
Most == <<1, 2, 4, 8, 16, 32, 64, 128>>

\* One more bit.
LEMMA TopStep ==
  ASSUME NEW b \in 0 .. 255, NEW m \in 0 .. 7
  PROVE  Top(b, m + 1) = 2 * Top(b, m) + ((b \div Worth[m + 1]) % 2)
<1>1. /\ Worth[1] = 128 /\ Worth[2] = 64 /\ Worth[3] = 32 /\ Worth[4] = 16
      /\ Worth[5] = 8 /\ Worth[6] = 4 /\ Worth[7] = 2 /\ Worth[8] = 1
  BY DEF Worth
<1>2. /\ b \div 128 = (b \div 128) % 2
      /\ b \div 64 = 2 * (b \div 128) + ((b \div 64) % 2)
      /\ b \div 32 = 2 * (b \div 64) + ((b \div 32) % 2)
      /\ b \div 16 = 2 * (b \div 32) + ((b \div 16) % 2)
      /\ b \div 8 = 2 * (b \div 16) + ((b \div 8) % 2)
      /\ b \div 4 = 2 * (b \div 8) + ((b \div 4) % 2)
      /\ b \div 2 = 2 * (b \div 4) + ((b \div 2) % 2)
      /\ b \div 1 = 2 * (b \div 2) + ((b \div 1) % 2)
  OBVIOUS
<1>3. m = 0 \/ m = 1 \/ m = 2 \/ m = 3 \/ m = 4 \/ m = 5 \/ m = 6 \/ m = 7
  OBVIOUS
<1> QED
  BY <1>1, <1>2, <1>3, SMTT(30) DEF Top

\* What has come of a byte is a number.
LEMMA TopInt == ASSUME NEW b \in 0 .. 255, NEW m \in 0 .. 8 PROVE Top(b, m) \in Int
<1>1. m = 0 \/ m = 1 \/ m = 2 \/ m = 3 \/ m = 4 \/ m = 5 \/ m = 6 \/ m = 7 \/ m = 8
  OBVIOUS
<1> QED
  BY <1>1 DEF Top, Worth

\* A bit is 0 or 1.
LEMMA BitRange ==
  ASSUME NEW b \in 0 .. 255, NEW m \in 0 .. 7
  PROVE  (b \div Worth[m + 1]) % 2 \in 0 .. 1
<1>1. /\ Worth[1] = 128 /\ Worth[2] = 64 /\ Worth[3] = 32 /\ Worth[4] = 16
      /\ Worth[5] = 8 /\ Worth[6] = 4 /\ Worth[7] = 2 /\ Worth[8] = 1
  BY DEF Worth
<1>2. m = 0 \/ m = 1 \/ m = 2 \/ m = 3 \/ m = 4 \/ m = 5 \/ m = 6 \/ m = 7
  OBVIOUS
<1> QED
  BY <1>1, <1>2

\* The bounds double with every bit.
LEMMA Doubling ==
  /\ \A m \in 0 .. 8 : Full[m + 1] \in 1 .. 256
  /\ \A m \in 0 .. 7 : Full[m + 2] = 2 * Full[m + 1]
  /\ \A m \in 1 .. 8 : Most[m] \in 1 .. 128
  /\ \A m \in 1 .. 7 : Most[m + 1] = 2 * Most[m]
  /\ Most[1] = 1 /\ Full[1] = 1
<1>1. \A m \in 0 .. 8 : m = 0 \/ m = 1 \/ m = 2 \/ m = 3 \/ m = 4 \/ m = 5 \/ m = 6
                        \/ m = 7 \/ m = 8
  OBVIOUS
<1> QED
  BY <1>1 DEF Full, Most

\* A bit goes to one byte and to no other.
LEMMA BitsStep ==
  ASSUME NEW n \in 0 .. 40
  PROVE  /\ n \div 8 \in 0 .. 5 /\ n % 8 \in 0 .. 7
         /\ Bits(n \div 8, n) = n % 8 /\ Bits(n \div 8, n + 1) = (n % 8) + 1
         /\ \A k \in 0 .. 5 : /\ Bits(k, n) \in 0 .. 8
                              /\ k # n \div 8 => Bits(k, n + 1) = Bits(k, n)
<1>1. /\ n \div 8 \in 0 .. 5 /\ n % 8 \in 0 .. 7 /\ n = 8 * (n \div 8) + (n % 8)
  <2>1. n = 8 * (n \div 8) + (n % 8)
    OBVIOUS
  <2>2. n % 8 \in 0 .. 7
    OBVIOUS
  <2>3. n \div 8 \in 0 .. 5
    OBVIOUS
  <2> QED
    BY <2>1, <2>2, <2>3
<1> DEFINE q == n \div 8
           r == n % 8
<1>2. q \in 0 .. 5 /\ r \in 0 .. 7 /\ n = 8 * q + r
  BY <1>1
<1> HIDE DEF q, r
<1>3. Bits(q, n) = r /\ Bits(q, n + 1) = r + 1
  BY <1>2 DEF Bits
<1>4. \A k \in 0 .. 5 : /\ Bits(k, n) \in 0 .. 8
                        /\ k # q => Bits(k, n + 1) = Bits(k, n)
  BY <1>2 DEF Bits
<1> QED
  BY <1>2, <1>3, <1>4 DEF q, r

-----------------------------------------------------------------------------
\* Bits are counted and shifted in as pulses come, and the loop ends in time.
Shifted ==
  /\ data \in [0 .. 5 -> Nat] /\ i \in 0 .. MAX_TIMINGS
  /\ j = IF i <= 4 THEN 0 ELSE (i - 3) \div 2
  /\ \A k \in 0 .. 5 : data[k] < Full[Bits(k, j) + 1]
  /\ dht = "reading" => i < MAX_TIMINGS

\* What may come between.
Kinds == {"misread", "lost", "slip", "glitch", "dead"}

\* Every pulse is one round of the loop, until something comes between.
Counted ==
  /\ faults \in Seq(Kinds) /\ spike \in 0 .. 2
  /\ spike > 0 => pulse < LastPulse
  /\ faults \in {<<>>, <<"misread">>, <<"dead">>} => spike = 0 /\ i = pulse
  /\ faults = <<"lost">> => spike = 0 /\ i + 2 = pulse
  /\ faults = <<>> /\ dht = "done" => pulse = LastPulse

\* The bytes read are those sent as far as they have come, but for byte q,
\* which is off by d.
OffBy(q, d) ==
  \A k \in 0 .. 4 :
    data[k] = Top(Bytes(sensor)[k + 1], Bits(k, j)) + IF k = q THEN d ELSE 0

\* A difference that the bits of byte q have room for.
Near(q, d) == Bits(q, j) > 0 /\ -Most[Bits(q, j)] <= d /\ d <= Most[Bits(q, j)]

\* A bit misread makes a difference of at most what its byte has bits for.
Wrong ==
  faults \in {<<>>, <<"misread">>, <<"dead">>} =>
    \E q \in 0 .. 4, d \in -128 .. 128 :
      /\ OffBy(q, d)
      /\ d # 0 => faults = <<"misread">> /\ Near(q, d)

DhtInv == DhtTypeOK /\ Shifted /\ Counted /\ Wrong

\* Both halves of a word, and a whole number of tenths.
LEMMA InBytes ==
  ASSUME NEW n \in 0 .. 1000
  PROVE  n \div 256 \in 0 .. 255 /\ n % 256 \in 0 .. 255 /\ n \div 10 \in 0 .. 255
OBVIOUS

\* What the sensors send: bytes, the last of them the sum.
LEMMA SentBy ==
  ASSUME sensor \in Measured
  PROVE  LET B == Bytes(sensor)
         IN /\ \A k \in 1 .. 5 : B[k] \in 0 .. 255
            /\ B[5] = (B[1] + B[2] + B[3] + B[4]) % 256
            /\ sensor.type = "DHT22" =>
                 /\ B[1] = sensor.h \div 256 /\ B[2] = sensor.h % 256
                 /\ B[3] = sensor.c \div 256 /\ B[4] = sensor.c % 256
            /\ sensor.type # "DHT22" =>
                 /\ B[1] = sensor.h \div 10 /\ B[2] = 0
                 /\ B[3] = sensor.c \div 10 /\ B[4] = 0
<1>1. sensor.h \in 0 .. 1000 /\ sensor.c \in 0 .. 800
  BY DhtAssumption DEF DhtAssumption
<1>2. PICK h \in 0 .. 1000 : h = sensor.h
  BY <1>1, ZenonT(30)
<1>9. PICK c \in 0 .. 800 : c = sensor.c
  BY <1>1, ZenonT(30)
<1>3. /\ h \div 256 \in 0 .. 255 /\ h % 256 \in 0 .. 255 /\ h \div 10 \in 0 .. 255
      /\ c \div 256 \in 0 .. 255 /\ c % 256 \in 0 .. 255 /\ c \div 10 \in 0 .. 255
  <2>1. c \in 0 .. 1000
    OBVIOUS
  <2> QED
    BY <2>1, InBytes, SMTT(30)
<1> DEFINE wide == sensor.type = "DHT22"
           p == IF wide THEN h \div 256 ELSE h \div 10
           q == IF wide THEN h % 256 ELSE 0
           r == IF wide THEN c \div 256 ELSE c \div 10
           s == IF wide THEN c % 256 ELSE 0
<1>4. /\ p \in 0 .. 255 /\ q \in 0 .. 255 /\ r \in 0 .. 255 /\ s \in 0 .. 255
      /\ wide => p = h \div 256 /\ q = h % 256 /\ r = c \div 256 /\ s = c % 256
      /\ ~wide => p = h \div 10 /\ q = 0 /\ r = c \div 10 /\ s = 0
  BY <1>3
<1> HIDE DEF p, q, r, s
<1>5. PICK x \in 0 .. 255 : x = (p + q + r + s) % 256
  BY <1>4
<1>6. Bytes(sensor) = Append(<<p, q, r, s>>, x)
  <2> DEFINE b == IF sensor.type = "DHT22"
                  THEN <<sensor.h \div 256, sensor.h % 256, sensor.c \div 256, sensor.c % 256>>
                  ELSE <<sensor.h \div 10, 0, sensor.c \div 10, 0>>
  <2>1. Bytes(sensor) = Append(b, (b[1] + b[2] + b[3] + b[4]) % 256)
    BY DEF Bytes
  <2>2. b = <<p, q, r, s>>
    BY <1>2, <1>9, <1>4
  <2> HIDE DEF b
  <2>3. b[1] = p /\ b[2] = q /\ b[3] = r /\ b[4] = s
    BY <2>2
  <2>4. (b[1] + b[2] + b[3] + b[4]) % 256 = x
    BY <1>5, <2>3
  <2> QED
    BY <2>1, <2>2, <2>4
<1> DEFINE B == Bytes(sensor)
<1>7. B[1] = p /\ B[2] = q /\ B[3] = r /\ B[4] = s /\ B[5] = x
  BY <1>6
<1> HIDE DEF B
<1>8. \A k \in 1 .. 5 : B[k] \in 0 .. 255
  <2> SUFFICES ASSUME NEW k \in 1 .. 5 PROVE B[k] \in 0 .. 255
    OBVIOUS
  <2>1. k = 1 \/ k = 2 \/ k = 3 \/ k = 4 \/ k = 5
    OBVIOUS
  <2>2. /\ B[1] \in 0 .. 255 /\ B[2] \in 0 .. 255 /\ B[3] \in 0 .. 255
        /\ B[4] \in 0 .. 255 /\ B[5] \in 0 .. 255
    <3>1. /\ p \in 0 .. 255 /\ q \in 0 .. 255 /\ r \in 0 .. 255 /\ s \in 0 .. 255
          /\ x \in 0 .. 255
      BY <1>4, <1>5
    <3> QED
      BY <3>1, <1>7, ZenonT(30)
  <2> QED
    BY <2>1, <2>2, ZenonT(30)
<1> QED
  BY <1>2, <1>9, <1>4, <1>5, <1>7, <1>8 DEF B

\* A reading that begins, and one that is over.
LEMMA FreshReading ==
  ASSUME sensor' \in Measured, pulse' = 0, spike' = 0, faults' = <<>>,
         i' = 0, j' = 0, data' = Zero, dht' \in {"idle", "reading"}
  PROVE  DhtInv'
<1>1. \A k \in 0 .. 5 : data'[k] = 0
  BY DEF Zero
<1>2. \A k \in 0 .. 5 : Bits(k, 0) = 0
  BY DEF Bits
<1>3. DhtTypeOK'
  BY <1>1 DEF DhtTypeOK, LastPulse, Preamble, MAX_TIMINGS
<1>4. Shifted'
  BY <1>1, <1>2, Doubling DEF Shifted, Zero, MAX_TIMINGS
<1>5. Counted'
  BY DEF Counted
<1>6. Wrong'
  <2>1. 0 \in 0 .. 4 /\ 0 \in -128 .. 128
    OBVIOUS
  <2>2. OffBy(0, 0)'
    BY <1>1, <1>2 DEF OffBy, Top
  <2> QED
    BY <2>1, <2>2 DEF Wrong
<1> QED
  BY <1>3, <1>4, <1>5, <1>6 DEF DhtInv

\* A round of the loop shifts at most one bit in.
LEMMA SampleShifts ==
  ASSUME DhtTypeOK, Shifted, dht = "reading", NEW long \in BOOLEAN, Sample(long)
  PROVE  /\ Shifted' /\ i' = i + 1 /\ dht' \in {"reading", "done"}
         /\ j' \in 0 .. 41 /\ \A k \in 0 .. 5 : data'[k] \in 0 .. 255
<1> DEFINE b == IF long THEN 1 ELSE 0
           q == j \div 8
<1>1. /\ i \in 0 .. 84 /\ i' = i + 1 /\ dht' \in {"reading", "done"}
      /\ dht' = "reading" => i' < MAX_TIMINGS
  BY DEF Shifted, Sample, MAX_TIMINGS
<1>2. b \in 0 .. 1
  OBVIOUS
<1>3. CASE i >= 4 /\ i % 2 = 0
  <2>1. /\ j' = j + 1 /\ j \in 0 .. 40
        /\ j' = IF i' <= 4 THEN 0 ELSE (i' - 3) \div 2
    BY <1>1, <1>3 DEF Sample, Shifted
  <2>2. data' = [data EXCEPT ![q] = 2 * data[q] + b]
    BY <1>3 DEF Sample
  <2> HIDE DEF b, q
  <2>3. /\ q \in 0 .. 5 /\ Bits(q, j) \in 0 .. 7 /\ Bits(q, j + 1) = Bits(q, j) + 1
        /\ \A k \in 0 .. 5 : /\ Bits(k, j) \in 0 .. 8
                             /\ k # q => Bits(k, j + 1) = Bits(k, j)
    BY <2>1, BitsStep DEF q
  <2>4. /\ data' \in [0 .. 5 -> Nat]
        /\ data'[q] = 2 * data[q] + b
        /\ \A k \in 0 .. 5 : k # q => data'[k] = data[k]
    BY <1>2, <2>2, <2>3 DEF Shifted
  <2>5. data'[q] < Full[Bits(q, j') + 1]
    <3>1. data[q] < Full[Bits(q, j) + 1] /\ data[q] \in Nat
      BY <2>3 DEF Shifted
    <3>2. /\ Full[Bits(q, j) + 2] = 2 * Full[Bits(q, j) + 1]
          /\ Full[Bits(q, j) + 1] \in 1 .. 256
          /\ Full[Bits(q, j') + 1] = Full[Bits(q, j) + 2]
      BY <2>1, <2>3, Doubling
    <3> QED
      BY <1>2, <2>4, <3>1, <3>2, SMTT(30)
  <2>6. \A k \in 0 .. 5 : data'[k] < Full[Bits(k, j') + 1]
    BY <2>1, <2>3, <2>4, <2>5 DEF Shifted
  <2>7. \A k \in 0 .. 5 : data'[k] \in 0 .. 255
    <3> SUFFICES ASSUME NEW k \in 0 .. 5 PROVE data'[k] \in 0 .. 255
      OBVIOUS
    <3>1. Bits(k, j') \in 0 .. 8 /\ Full[Bits(k, j') + 1] \in 1 .. 256
      BY <2>1, <2>3, Doubling
    <3> QED
      BY <2>4, <2>6, <3>1, SMTT(30)
  <2> QED
    BY <1>1, <2>1, <2>4, <2>6, <2>7 DEF Shifted, MAX_TIMINGS
<1>4. CASE ~(i >= 4 /\ i % 2 = 0)
  <2>1. UNCHANGED <<j, data>>
    BY <1>4 DEF Sample
  <2>2. j' = IF i' <= 4 THEN 0 ELSE (i' - 3) \div 2
    BY <1>1, <1>4, <2>1 DEF Shifted
  <2> QED
    BY <1>1, <2>1, <2>2 DEF Shifted, DhtTypeOK, MAX_TIMINGS
<1> QED
  BY <1>3, <1>4

\* The bit a long pulse stands for is the one that is shifted in next.
LEMMA NextBit ==
  ASSUME DhtTypeOK, Shifted, i = pulse, pulse < LastPulse, i >= 4, i % 2 = 0
  PROVE  /\ j \in 0 .. 39 /\ j \div 8 \in 0 .. 4 /\ j % 8 \in 0 .. 7
         /\ Long(pulse) <=>
              (Bytes(sensor)[(j \div 8) + 1] \div Worth[(j % 8) + 1]) % 2 = 1
<1>1. i \in 4 .. 83
  BY DEF Shifted, MAX_TIMINGS, LastPulse, Preamble
<1>2. j = (i - 4) \div 2 /\ j \in 0 .. 39
  BY <1>1 DEF Shifted
<1>3. j \div 8 \in 0 .. 4 /\ j % 8 \in 0 .. 7
  BY <1>2
<1>4. (pulse - Preamble) \div 2 = j
  BY <1>2 DEF Preamble
<1>5. pulse \notin {1, 2} /\ ~(pulse % 2 = 1) /\ pulse >= Preamble /\ pulse % 2 = 0
  BY <1>1 DEF Preamble
<1>6. Long(pulse) <=> (Bytes(sensor)[(j \div 8) + 1] \div Worth[(j % 8) + 1]) % 2 = 1
  BY <1>4, <1>5, Zenon DEF Long
<1> QED
  BY <1>2, <1>3, <1>6

\* A round of the loop takes the bytes further, and what byte q is off by
\* doubles if the bit goes to it; a bit misread puts its byte off by one.
LEMMA SampleOff ==
  ASSUME DhtTypeOK, Shifted, dht = "reading", i = pulse, pulse < LastPulse,
         NEW q \in 0 .. 4, NEW d \in -128 .. 128, OffBy(q, d),
         d # 0 => Near(q, d),
         NEW long \in BOOLEAN, Sample(long), UNCHANGED sensor, (long <=> Long(pulse)) \/ d = 0
  PROVE  \E r \in 0 .. 4, e \in -128 .. 128 :
           /\ OffBy(r, e)'
           /\ e # 0 => (d # 0 \/ ~(long <=> Long(pulse)))
                       /\ Near(r, e)'
<1> DEFINE Off(r, e) == /\ d # 0 \/ ~(long <=> Long(pulse))
                        /\ Near(r, e)'
<1>1. CASE ~(i >= 4 /\ i % 2 = 0)
  <2>1. UNCHANGED <<j, data, sensor>>
    BY <1>1 DEF Sample
  <2>2. OffBy(q, d)' /\ (d # 0 => Off(q, d))
    BY <2>1 DEF OffBy, Bytes, Near
  <2> QED
    BY <2>2
<1>2. CASE i >= 4 /\ i % 2 = 0
  <2> DEFINE b == IF long THEN 1 ELSE 0
             t == j \div 8
             B == Bytes(sensor)
             right == (B[t + 1] \div Worth[(j % 8) + 1]) % 2
             off == IF t = q /\ d # 0 THEN 2 * d ELSE IF d # 0 THEN d ELSE b - right
             at == IF d # 0 THEN q ELSE t
  <2>1. /\ j \in 0 .. 39 /\ t \in 0 .. 4 /\ j % 8 \in 0 .. 7
        /\ Long(pulse) <=> right = 1
    BY <1>2, NextBit
  <2>2. /\ Bits(t, j) = j % 8 /\ Bits(t, j + 1) = (j % 8) + 1
        /\ \A k \in 0 .. 5 : /\ Bits(k, j) \in 0 .. 8
                             /\ k # t => Bits(k, j + 1) = Bits(k, j)
    BY <2>1, BitsStep
  <2>3. \A k \in 0 .. 4 : B[k + 1] \in 0 .. 255
    BY SentBy DEF DhtTypeOK
  <2>4. right \in 0 .. 1
    BY <2>1, <2>3, BitRange
  <2>5. /\ data' = [data EXCEPT ![t] = 2 * data[t] + b] /\ j' = j + 1
    BY <1>2 DEF Sample
  <2>6. /\ data'[t] = 2 * data[t] + b /\ data[t] \in Nat
        /\ \A k \in 0 .. 4 : k # t => data'[k] = data[k]
    BY <2>1, <2>5 DEF Shifted
  <2>7. Top(B[t + 1], (j % 8) + 1) = 2 * Top(B[t + 1], j % 8) + right
    BY <2>1, <2>3, TopStep
  <2>8. B' = B
    BY DEF Bytes
  <2>9. b \in 0 .. 1 /\ (d # 0 => b = right)
    BY <2>1, <2>4
  <2> HIDE DEF b, t, B, right
  <2>10. PICK e \in -256 .. 256, r \in 0 .. 4 : e = off /\ r = at
    <3>1. off \in -256 .. 256 /\ at \in 0 .. 4
      BY <2>1, <2>4, <2>9
    <3> HIDE DEF off, at
    <3> QED
      BY <3>1, Zenon
  <2>11. OffBy(r, e)'
    <3> SUFFICES ASSUME NEW k \in 0 .. 4
                 PROVE  data'[k] = Top(B[k + 1], Bits(k, j')) + IF k = r THEN e ELSE 0
      BY <2>8 DEF OffBy, B
    <3>1. data[k] = Top(B[k + 1], Bits(k, j)) + IF k = q THEN d ELSE 0
      BY DEF OffBy, B
    <3>2. Top(B[k + 1], Bits(k, j)) \in Int
      <4>1. Bits(k, j) \in 0 .. 8 /\ B[k + 1] \in 0 .. 255
        BY <2>2, <2>3
      <4> QED
        BY <4>1, TopInt
    <3>3. CASE k # t
      <4>1. Bits(k, j') = Bits(k, j) /\ data'[k] = data[k]
        BY <2>2, <2>5, <2>6, <3>3
      <4>2. (IF k = r THEN e ELSE 0) = (IF k = q THEN d ELSE 0)
        BY <3>3, <2>1, <2>9, <2>10 DEF b
      <4> QED
        BY <3>1, <4>1, <4>2
    <3>4. CASE k = t
      <4>1. data'[k] = 2 * data[k] + b
        BY <2>6, <3>4
      <4>2. Top(B[k + 1], Bits(k, j')) = 2 * Top(B[k + 1], Bits(k, j)) + right
        BY <2>2, <2>5, <2>7, <3>4
      <4>3. (IF k = r THEN e ELSE 0) = 2 * (IF k = q THEN d ELSE 0) + b - right
        BY <2>4, <2>9, <2>10, <3>4
      <4> QED
        BY <2>4, <2>9, <3>1, <3>2, <4>1, <4>2, <4>3
    <3> QED
      BY <3>3, <3>4
  <2>12. e # 0 => Off(r, e) /\ e \in -128 .. 128
    <3> SUFFICES ASSUME e # 0 PROVE Off(r, e) /\ e \in -128 .. 128
      OBVIOUS
    <3>1. CASE d = 0
      <4>1. e = b - right /\ r = t /\ ~(long <=> Long(pulse))
        BY <2>1, <2>4, <2>10, <3>1 DEF b
      <4>2. Bits(t, j') = (j % 8) + 1 /\ Most[(j % 8) + 1] \in 1 .. 128
        BY <2>1, <2>2, <2>5, Doubling
      <4>3. e \in -1 .. 1
        BY <2>4, <2>9, <4>1
      <4> QED
        BY <2>1, <4>1, <4>2, <4>3 DEF Near
    <3>2. CASE d # 0 /\ t # q
      <4>1. e = d /\ r = q /\ Bits(q, j') = Bits(q, j)
        BY <2>2, <2>5, <2>10, <3>2
      <4> QED
        BY <3>2, <4>1 DEF Near
    <3>3. CASE d # 0 /\ t = q
      <4>1. e = 2 * d /\ r = q /\ Bits(q, j) = j % 8 /\ Bits(q, j') = (j % 8) + 1
        BY <2>2, <2>5, <2>10, <3>3
      <4>2. j % 8 \in 1 .. 7
        BY <2>1, <3>3, <4>1 DEF Near
      <4>3. Most[(j % 8) + 1] = 2 * Most[j % 8] /\ Most[j % 8] \in 1 .. 128
            /\ Most[(j % 8) + 1] \in 1 .. 128
        BY <4>2, Doubling
      <4> QED
        BY <3>3, <4>1, <4>2, <4>3 DEF Near
    <3> QED
      BY <3>1, <3>2, <3>3
  <2>13. e \in -128 .. 128
    BY <2>10, <2>12
  <2> QED
    BY <2>10, <2>11, <2>12, <2>13, SMTT(30)
<1> QED
  BY <1>1, <1>2

\* A fault that is added to others, or to none.
LEMMA FaultAdded ==
  ASSUME faults \in Seq(Kinds), NEW kind \in Kinds, faults' = Append(faults, kind)
  PROVE  /\ faults' \in Seq(Kinds) /\ faults' # <<>>
         /\ \A k \in Kinds : faults' = <<k>> => faults = <<>> /\ kind = k
<1>1. /\ Append(faults, kind) \in Seq(Kinds) /\ Append(faults, kind) # <<>>
      /\ Len(Append(faults, kind)) = Len(faults) + 1
      /\ Append(faults, kind)[Len(faults) + 1] = kind
  BY AppendProperties, ZenonT(30)
<1>2. ASSUME NEW k \in Kinds, faults' = <<k>> PROVE faults = <<>> /\ kind = k
  <2>1. Len(<<k>>) = 1 /\ <<k>>[1] = k
    OBVIOUS
  <2>2. Len(faults) + 1 = 1 /\ <<k>>[Len(faults) + 1] = kind
    BY <1>1, <1>2, <2>1, Zenon
  <2>3. Len(faults) \in Nat /\ (faults # <<>> => Len(faults) # 0)
    OBVIOUS
  <2>4. Len(faults) = 0
    BY <2>2, <2>3
  <2> QED
    BY <2>1, <2>2, <2>3, <2>4
<1> QED
  BY <1>1, <1>2

\* A pulse that is counted as it is, or the end of the train.
LEMMA PulseKeeps ==
  ASSUME DhtInv, dht = "reading", pulse < LastPulse, spike = 0, Sample(Long(pulse)),
         pulse' = pulse + 1, UNCHANGED <<sensor, spike, faults>>
  PROVE  DhtInv'
<1> USE DEF DhtInv
<1>1. Long(pulse) \in BOOLEAN
  BY DEF Long
<1>2. /\ Shifted' /\ i' = i + 1 /\ dht' \in {"reading", "done"}
      /\ j' \in 0 .. 41 /\ \A k \in 0 .. 5 : data'[k] \in 0 .. 255
  BY <1>1, SampleShifts
<1>3. DhtTypeOK'
  BY <1>2 DEF DhtTypeOK, Shifted, LastPulse, Preamble
<1>4. Counted'
  <2>1. faults \in {<<>>, <<"misread">>, <<"dead">>} => (i = pulse)'
    BY <1>2 DEF Counted
  <2>2. faults = <<"lost">> => (i + 2 = pulse)'
    BY <1>2 DEF Counted, DhtTypeOK
  <2>3. faults = <<>> /\ dht' = "done" => pulse' = LastPulse
    <3>1. faults = <<>> => i = pulse
      BY DEF Counted
    <3>2. dht' = "done" => i + 1 = 85
      BY DEF Sample, MAX_TIMINGS
    <3> QED
      BY <3>1, <3>2 DEF DhtTypeOK, LastPulse, Preamble
  <2> QED
    BY <2>1, <2>2, <2>3 DEF Counted
<1>5. Wrong'
  <2> SUFFICES ASSUME faults \in {<<>>, <<"misread">>, <<"dead">>}
               PROVE  \E r \in 0 .. 4, e \in -128 .. 128 :
                        /\ OffBy(r, e)'
                        /\ e # 0 => faults = <<"misread">> /\ Near(r, e)'
    BY DEF Wrong
  <2>1. i = pulse
    BY DEF Counted
  <2>2. PICK q \in 0 .. 4, d \in -128 .. 128 :
          /\ OffBy(q, d)
          /\ d # 0 => faults = <<"misread">> /\ Near(q, d)
    BY DEF Wrong
  <2>3. \E r \in 0 .. 4, e \in -128 .. 128 :
           /\ OffBy(r, e)'
           /\ e # 0 => (d # 0 \/ ~(Long(pulse) <=> Long(pulse)))
                       /\ Near(r, e)'
    <3>1. /\ UNCHANGED sensor /\ DhtTypeOK /\ Shifted
          /\ d # 0 => Near(q, d)
      BY <2>2
    <3> DEFINE long == Long(pulse)
    <3>2. long \in BOOLEAN /\ Sample(long) /\ (long <=> Long(pulse))
      BY <1>1
    <3> HIDE DEF long
    <3>3. \E r \in 0 .. 4, e \in -128 .. 128 :
           /\ OffBy(r, e)'
           /\ e # 0 => (d # 0 \/ ~(long <=> Long(pulse)))
                       /\ Near(r, e)'
      BY <2>1, <2>2, <3>1, <3>2, SampleOff, ZenonT(30)
    <3> QED
      BY <3>2, <3>3
  <2> QED
    BY <2>2, <2>3
<1> QED
  BY <1>2, <1>3, <1>4, <1>5

\* A pulse taken for the other bit.
LEMMA MisreadKeeps == ASSUME DhtInv, Misread PROVE DhtInv'
<1> USE DEF DhtInv
<1>1. /\ dht = "reading" /\ pulse < LastPulse /\ spike = 0 /\ Sample(~Long(pulse))
      /\ pulse' = pulse + 1 /\ UNCHANGED <<sensor, spike>>
  BY DEF Misread, Fault
<1>9. faults' = Append(faults, "misread")
  BY DEF Misread, Fault
<1>2. (~Long(pulse)) \in BOOLEAN
  BY DEF Long
<1>3. /\ Shifted' /\ i' = i + 1 /\ dht' \in {"reading", "done"}
      /\ j' \in 0 .. 41 /\ \A k \in 0 .. 5 : data'[k] \in 0 .. 255
  BY <1>1, <1>2, SampleShifts
<1>4. /\ faults' \in Seq(Kinds) /\ faults' # <<>>
      /\ \A k \in Kinds : faults' = <<k>> => faults = <<>> /\ "misread" = k
  BY <1>9, FaultAdded DEF Counted, Kinds
<1>5. DhtTypeOK'
  BY <1>1, <1>3 DEF DhtTypeOK, Shifted, LastPulse, Preamble
<1>6. faults' \in {<<>>, <<"misread">>, <<"dead">>, <<"lost">>} =>
        faults = <<>> /\ faults' = <<"misread">> /\ i = pulse
  BY <1>4 DEF Counted
<1>7. Counted'
  BY <1>1, <1>3, <1>4, <1>6 DEF Counted
<1>8. Wrong'
  <2> SUFFICES ASSUME faults' \in {<<>>, <<"misread">>, <<"dead">>}
               PROVE  \E r \in 0 .. 4, e \in -128 .. 128 :
                        /\ OffBy(r, e)'
                        /\ e # 0 => faults' = <<"misread">> /\ Near(r, e)'
    BY DEF Wrong
  <2>1. faults = <<>> /\ faults' = <<"misread">> /\ i = pulse
    BY <1>6
  <2>2. PICK q \in 0 .. 4, d \in -128 .. 128 : OffBy(q, d) /\ d = 0
    BY <2>1 DEF Wrong
  <2>3. \E r \in 0 .. 4, e \in -128 .. 128 :
           /\ OffBy(r, e)'
           /\ e # 0 => (d # 0 \/ ~(~Long(pulse) <=> Long(pulse)))
                       /\ Near(r, e)'
    BY <1>1, <1>2, <2>1, <2>2, SampleOff, ZenonT(30)
  <2> QED
    BY <2>1, <2>3
<1> QED
  BY <1>3, <1>5, <1>7, <1>8

\* Pulses missed or skipped, cut in three, or of a disturbance.
LEMMA DisturbedKeeps ==
  ASSUME DhtInv, Lost \/ Slip \/ Glitch \/ (Edge /\ spike > 0) PROVE DhtInv'
<1> USE DEF DhtInv
<1>1. PICK long \in BOOLEAN :
        /\ dht = "reading" /\ Sample(long) /\ UNCHANGED sensor
        /\ pulse' \in 0 .. LastPulse /\ spike' \in 0 .. 2
        /\ spike' > 0 => pulse' < LastPulse
        /\ \/ /\ faults' = Append(faults, "lost") /\ spike = 0 /\ spike' = 0
              /\ pulse' = pulse + 3
           \/ \E kind \in {"slip", "glitch"} : faults' = Append(faults, kind)
           \/ UNCHANGED faults /\ spike > 0
  <2>1. /\ pulse \in 0 .. 84 /\ spike \in 0 .. 2 /\ LastPulse = 84
        /\ spike > 0 => pulse < LastPulse
    BY DEF DhtTypeOK, Counted, LastPulse, Preamble
  <2>2. CASE Lost
    BY <2>1, <2>2 DEF Lost, Fault
  <2>3. CASE Glitch
    BY <2>1, <2>3 DEF Glitch, Fault
  <2>4. CASE Edge /\ spike > 0
    <3>1. spike = 1 \/ spike = 2
      BY <2>1, <2>4
    <3>2. CASE spike = 1
      BY <2>1, <2>4, <3>2 DEF Edge
    <3>3. CASE spike = 2
      BY <2>1, <2>4, <3>3 DEF Edge
    <3> QED
      BY <3>1, <3>2, <3>3
  <2>5. CASE Slip
    <3>1. Long(pulse) \in BOOLEAN
      BY DEF Long
    <3> QED
      BY <2>1, <2>5, <3>1 DEF Slip, Fault
  <2> QED
    BY <2>2, <2>3, <2>4, <2>5
<1>2. /\ Shifted' /\ i' = i + 1 /\ dht' \in {"reading", "done"}
      /\ j' \in 0 .. 41 /\ \A k \in 0 .. 5 : data'[k] \in 0 .. 255
  BY <1>1, SampleShifts
<1>3. DhtTypeOK'
  <2>1. pulse' \in 0 .. LastPulse /\ spike' \in 0 .. 2 /\ UNCHANGED sensor
    BY <1>1
  <2> QED
    BY <1>2, <2>1 DEF DhtTypeOK, Shifted
<1>4. /\ faults' \in Seq(Kinds) /\ faults' \notin {<<>>, <<"misread">>, <<"dead">>}
      /\ faults' = <<"lost">> => /\ faults = <<>> /\ spike = 0 /\ spike' = 0
                                 /\ pulse' = pulse + 3
  <2>1. CASE /\ faults' = Append(faults, "lost") /\ spike = 0 /\ spike' = 0
             /\ pulse' = pulse + 3
    BY <2>1, FaultAdded DEF Counted, Kinds
  <2>2. CASE \E kind \in {"slip", "glitch"} : faults' = Append(faults, kind)
    BY <2>2, FaultAdded DEF Counted, Kinds
  <2>3. CASE UNCHANGED faults /\ spike > 0
    BY <2>3 DEF Counted
  <2> QED
    BY <1>1, <2>1, <2>2, <2>3
<1>5. Counted'
  <2>1. faults' = <<"lost">> => (spike = 0)' /\ (i + 2 = pulse)'
    BY <1>2, <1>4 DEF Counted, DhtTypeOK
  <2> QED
    BY <1>1, <1>4, <2>1 DEF Counted
<1>6. Wrong'
  BY <1>4 DEF Wrong
<1> QED
  BY <1>2, <1>3, <1>5, <1>6

\* The train is over, or the sensor stops.
LEMMA BreakKeeps ==
  ASSUME DhtInv, dht = "reading", Break, UNCHANGED <<sensor, pulse, spike>>,
         \/ pulse = LastPulse /\ UNCHANGED faults
         \/ faults' = Append(faults, "dead")
  PROVE  DhtInv'
<1> USE DEF DhtInv
<1>1. dht' = "done" /\ UNCHANGED <<i, j, data>>
  BY DEF Break
<1>2. DhtTypeOK' /\ Shifted'
  BY <1>1 DEF DhtTypeOK, Shifted
<1>3. /\ faults' \in Seq(Kinds)
      /\ faults' = <<>> => faults = <<>> /\ pulse = LastPulse
      /\ faults' = <<"misread">> => faults = <<"misread">>
      /\ faults' = <<"dead">> => faults \in {<<>>, <<"dead">>}
      /\ faults' = <<"lost">> => faults = <<"lost">>
  BY FaultAdded DEF Counted, Kinds
<1>4. Counted'
  BY <1>1, <1>3 DEF Counted
<1>5. Wrong'
  <2> SUFFICES ASSUME faults' \in {<<>>, <<"misread">>, <<"dead">>} PROVE Wrong'
    BY DEF Wrong
  <2>1. PICK q \in 0 .. 4, d \in -128 .. 128 :
          /\ OffBy(q, d)
          /\ d # 0 => faults = <<"misread">> /\ Near(q, d)
    BY <1>3 DEF Wrong
  <2>2. OffBy(q, d)'
    BY <1>1, <2>1 DEF OffBy, Bytes
  <2>3. d # 0 => faults' = <<"misread">>
    BY <1>3, <2>1
  <2> QED
    BY <1>1, <2>1, <2>2, <2>3 DEF Wrong, Near
<1> QED
  BY <1>2, <1>4, <1>5

\* No round of the loop breaks it.
LEMMA TrainKeeps == ASSUME DhtInv, DhtNext PROVE DhtInv'
<1>1. CASE Edge
  <2>1. spike \in 0 .. 2
    BY DEF DhtInv, DhtTypeOK
  <2>2. CASE spike > 0
    BY <1>1, <2>2, DisturbedKeeps
  <2>3. CASE spike = 0 /\ pulse < LastPulse
    BY <1>1, <2>3, PulseKeeps DEF Edge, LastPulse, Preamble
  <2>4. CASE spike = 0 /\ pulse = LastPulse
    BY <1>1, <2>4, BreakKeeps DEF Edge, wire, LastPulse, Preamble
  <2> QED
    BY <1>1, <2>1, <2>2, <2>3, <2>4 DEF Edge
<1>2. CASE Dead
  <2>1. pulse' = pulse
    BY <1>2 DEF Dead, Fault, DhtInv, DhtTypeOK
  <2> QED
    BY <1>2, <2>1, BreakKeeps DEF Dead, Fault
<1> QED
  BY <1>1, <1>2, MisreadKeeps, DisturbedKeeps DEF DhtNext

-----------------------------------------------------------------------------
(* What is read                                                            *)

\* A sum off by a bit, or of bytes one of which is, is seen to be.
LEMMA SumTells ==
  ASSUME NEW n \in 0 .. 1020, NEW d \in -128 .. 128,
         \/ (n % 256) + d = n % 256
         \/ (n + d) % 256 = n % 256
  PROVE  d = 0
<1>1. n = 256 * (n \div 256) + (n % 256) /\ n + d = 256 * ((n + d) \div 256) + ((n + d) % 256)
  OBVIOUS
<1>2. CASE (n + d) % 256 = n % 256
  <2>1. d = 256 * (((n + d) \div 256) - (n \div 256))
    BY <1>1, <1>2
  <2> QED
    BY <2>1
<1>3. CASE (n % 256) + d = n % 256
  BY <1>3
<1> QED
  BY <1>2, <1>3

\* A train that came whole: the five bytes, one of them perhaps off.
LEMMA WholeTrain ==
  ASSUME DhtInv, faults \in {<<>>, <<"misread">>, <<"dead">>}, j >= 40
  PROVE  \E q \in 0 .. 4, d \in -128 .. 128 :
           /\ \A k \in 0 .. 4 :
                data[k] = IF k = q THEN Bytes(sensor)[k + 1] + d ELSE Bytes(sensor)[k + 1]
           /\ d # 0 => faults = <<"misread">>
<1> USE DEF DhtInv
<1>1. i = pulse /\ i \in 0 .. 84
  BY DEF Counted, DhtTypeOK, LastPulse, Preamble
<1>2. j = 40
  BY <1>1 DEF Shifted
<1>3. PICK q \in 0 .. 4, d \in -128 .. 128 :
        OffBy(q, d) /\ (d # 0 => faults = <<"misread">>)
  BY DEF Wrong
<1>4. ASSUME NEW k \in 0 .. 4
      PROVE  data[k] = IF k = q THEN Bytes(sensor)[k + 1] + d ELSE Bytes(sensor)[k + 1]
  <2>1. Bits(k, j) = 8
    BY <1>2 DEF Bits
  <2>2. PICK b \in 0 .. 255 : b = Bytes(sensor)[k + 1]
    <3>1. \A m \in 1 .. 5 : Bytes(sensor)[m] \in 0 .. 255
      BY SentBy DEF DhtTypeOK
    <3>2. k + 1 \in 1 .. 5
      OBVIOUS
    <3> QED
      BY <3>1, <3>2, Zenon
  <2>3. Top(b, 8) = b
    BY DEF Top, Worth
  <2>4. data[k] = b + IF k = q THEN d ELSE 0
    BY <1>3, <2>1, <2>2, <2>3 DEF OffBy
  <2> QED
    BY <2>2, <2>4
<1> QED
  BY <1>3, <1>4

\* If it is accepted, none is.
LEMMA AcceptedWhole ==
  ASSUME DhtInv, faults \in {<<>>, <<"misread">>, <<"dead">>}, Accepted
  PROVE  \A k \in 0 .. 4 : data[k] = Bytes(sensor)[k + 1]
<1>1. PICK t \in 0 .. 4, d \in -128 .. 128 :
        \A k \in 0 .. 4 :
          data[k] = IF k = t THEN Bytes(sensor)[k + 1] + d ELSE Bytes(sensor)[k + 1]
  BY WholeTrain, ZenonT(30) DEF Accepted
<1> DEFINE B == Bytes(sensor)
<1>2. /\ B[1] \in 0 .. 255 /\ B[2] \in 0 .. 255 /\ B[3] \in 0 .. 255
      /\ B[4] \in 0 .. 255 /\ B[5] = (B[1] + B[2] + B[3] + B[4]) % 256
  BY SentBy DEF DhtInv, DhtTypeOK
<1>3. /\ data[0] = IF t = 0 THEN B[1] + d ELSE B[1]
      /\ data[1] = IF t = 1 THEN B[2] + d ELSE B[2]
      /\ data[2] = IF t = 2 THEN B[3] + d ELSE B[3]
      /\ data[3] = IF t = 3 THEN B[4] + d ELSE B[4]
      /\ data[4] = IF t = 4 THEN B[5] + d ELSE B[5]
  BY <1>1
<1> HIDE DEF B
<1>4. PICK p \in 0 .. 255 : p = B[1]
  BY <1>2, Zenon
<1>5. PICK q \in 0 .. 255 : q = B[2]
  BY <1>2, Zenon
<1>6. PICK r \in 0 .. 255 : r = B[3]
  BY <1>2, Zenon
<1>7. PICK s \in 0 .. 255 : s = B[4]
  BY <1>2, Zenon
<1>8. PICK n \in 0 .. 1020 : n = p + q + r + s
  OBVIOUS
<1>9. B[5] = n % 256
  BY <1>2, <1>4, <1>5, <1>6, <1>7, <1>8
<1>10. data[4] = (data[0] + data[1] + data[2] + data[3]) % 256
  BY DEF Accepted
<1>11. d = 0
  <2>1. CASE t = 4
    <3>1. data[0] = p /\ data[1] = q /\ data[2] = r /\ data[3] = s
      BY <1>3, <1>4, <1>5, <1>6, <1>7, <2>1
    <3>2. data[4] = n % 256
      BY <1>8, <1>10, <3>1
    <3>3. data[4] = (n % 256) + d
      BY <1>3, <1>9, <2>1
    <3> QED
      BY <1>8, <3>2, <3>3, SumTells
  <2>2. CASE t = 0
    <3>1. data[0] = p + d /\ data[1] = q /\ data[2] = r /\ data[3] = s
      BY <1>3, <1>4, <1>5, <1>6, <1>7, <2>2
    <3>2. data[4] = (n + d) % 256
      BY <1>8, <1>10, <3>1
    <3>3. (n + d) % 256 = n % 256
      BY <1>3, <1>9, <2>2, <3>2
    <3> QED
      BY <3>3, SumTells
  <2>3. CASE t = 1
    <3>1. data[0] = p /\ data[1] = q + d /\ data[2] = r /\ data[3] = s
      BY <1>3, <1>4, <1>5, <1>6, <1>7, <2>3
    <3>2. data[4] = (n + d) % 256
      BY <1>8, <1>10, <3>1
    <3>3. (n + d) % 256 = n % 256
      BY <1>3, <1>9, <2>3, <3>2
    <3> QED
      BY <3>3, SumTells
  <2>4. CASE t = 2
    <3>1. data[0] = p /\ data[1] = q /\ data[2] = r + d /\ data[3] = s
      BY <1>3, <1>4, <1>5, <1>6, <1>7, <2>4
    <3>2. data[4] = (n + d) % 256
      BY <1>8, <1>10, <3>1
    <3>3. (n + d) % 256 = n % 256
      BY <1>3, <1>9, <2>4, <3>2
    <3> QED
      BY <3>3, SumTells
  <2>5. CASE t = 3
    <3>1. data[0] = p /\ data[1] = q /\ data[2] = r /\ data[3] = s + d
      BY <1>3, <1>4, <1>5, <1>6, <1>7, <2>5
    <3>2. data[4] = (n + d) % 256
      BY <1>8, <1>10, <3>1
    <3>3. (n + d) % 256 = n % 256
      BY <1>3, <1>9, <2>5, <3>2
    <3> QED
      BY <3>3, SumTells
  <2> QED
    BY <2>1, <2>2, <2>3, <2>4, <2>5
<1>12. ASSUME NEW k \in 0 .. 4 PROVE data[k] = B[k + 1]
  <2>1. k = 0 \/ k = 1 \/ k = 2 \/ k = 3 \/ k = 4
    OBVIOUS
  <2>2. data[0] = B[1] /\ data[1] = B[2] /\ data[2] = B[3] /\ data[3] = B[4]
    BY <1>3, <1>4, <1>5, <1>6, <1>7, <1>11
  <2>3. data[4] = B[5]
    BY <1>3, <1>9, <1>11
  <2> QED
    BY <2>1, <2>2, <2>3
<1> QED
  BY <1>12 DEF B

\* A DHT11 sends whole numbers; small ones but zero pass for tenths.
Plain ==
  \A m \in Measured :
    m.type = "DHT11" => /\ m.h % 10 = 0 /\ m.h \div 10 \notin 1 .. 3
                        /\ m.c % 10 = 0 /\ m.c \div 10 \notin 1 .. 4

\* The bytes sent give what was measured.
LEMMA BytesRead ==
  ASSUME Plain, sensor \in Measured, \A k \in 0 .. 4 : data[k] = Bytes(sensor)[k + 1]
  PROVE  Reading = [h |-> sensor.h, c |-> sensor.c]
<1>1. sensor.type \in {"DHT11", "DHT22"} /\ sensor.h \in 0 .. 1000 /\ sensor.c \in 0 .. 800
  BY DhtAssumption DEF DhtAssumption
<1> DEFINE B == Bytes(sensor)
<1>2. /\ sensor.type = "DHT22" => /\ B[1] = sensor.h \div 256 /\ B[2] = sensor.h % 256
                                  /\ B[3] = sensor.c \div 256 /\ B[4] = sensor.c % 256
      /\ sensor.type # "DHT22" => /\ B[1] = sensor.h \div 10 /\ B[2] = 0
                                  /\ B[3] = sensor.c \div 10 /\ B[4] = 0
  BY SentBy
<1>3. data[0] = B[1] /\ data[1] = B[2] /\ data[2] = B[3] /\ data[3] = B[4]
  OBVIOUS
<1> HIDE DEF B
<1>4. PICK h \in 0 .. 1000 : h = sensor.h
  BY <1>1, ZenonT(30)
<1>9. PICK c \in 0 .. 800 : c = sensor.c
  BY <1>1, ZenonT(30)
<1>5. CASE sensor.type = "DHT22"
  <2>1. /\ data[0] = h \div 256 /\ data[1] = h % 256
        /\ data[2] = c \div 256 /\ data[3] = c % 256
    BY <1>2, <1>3, <1>4, <1>9, <1>5
  <2>2. 256 * data[0] + data[1] = h /\ 256 * data[2] + data[3] = c
    BY <2>1
  <2>3. ~(h > 1000) /\ ~(c > 1250)
    BY SMTT(30)
  <2> QED
    BY <1>4, <1>9, <2>2, <2>3 DEF Reading
<1>6. CASE sensor.type = "DHT11"
  <2>1. /\ data[0] = h \div 10 /\ data[1] = 0
        /\ data[2] = c \div 10 /\ data[3] = 0
    BY <1>2, <1>3, <1>4, <1>9, <1>6
  <2>2. /\ h % 10 = 0 /\ h \div 10 \notin 1 .. 3
        /\ c % 10 = 0 /\ c \div 10 \notin 1 .. 4
    BY <1>4, <1>9, <1>6 DEF Plain
  <2>3. PICK x \in 0 .. 100, y \in 0 .. 80 : x = h \div 10 /\ y = c \div 10
    <3>1. h \div 10 \in 0 .. 100 /\ c \div 10 \in 0 .. 80
      BY SMTT(30)
    <3> QED
      BY <3>1, ZenonT(30)
  <2>4. h = 10 * x /\ c = 10 * y /\ x \notin 1 .. 3 /\ y \notin 1 .. 4
    BY <2>2, <2>3
  <2>5. /\ 256 * data[0] + data[1] = 256 * x /\ 10 * data[0] = h
        /\ 256 * data[2] + data[3] = 256 * y /\ 10 * data[2] = c
    BY <2>1, <2>3, <2>4
  <2>6. /\ 256 * x > 1000 \/ 256 * x = h
        /\ 256 * y > 1250 \/ 256 * y = c
    BY <2>4
  <2> QED
    BY <1>4, <1>9, <2>5, <2>6 DEF Reading
<1> QED
  BY <1>1, <1>5, <1>6

\* The property from the invariant.
LEMMA InvReadsTrain == ASSUME Plain, DhtInv PROVE ReadsTrain
<1> SUFFICES ASSUME dht = "done"
             PROVE  /\ faults = <<>> => Accepted
                    /\ faults \in {<<>>, <<"misread">>, <<"lost">>, <<"dead">>} /\ Accepted =>
                         Reading = [h |-> sensor.h, c |-> sensor.c]
  BY DEF ReadsTrain
<1>1. ASSUME faults = <<>> PROVE Accepted
  <2>1. i = 84
    BY <1>1 DEF DhtInv, Counted, LastPulse, Preamble
  <2>2. j = 40
    BY <2>1 DEF DhtInv, Shifted
  <2>3. PICK q \in 0 .. 4, d \in -128 .. 128 :
          /\ \A k \in 0 .. 4 :
               data[k] = IF k = q THEN Bytes(sensor)[k + 1] + d ELSE Bytes(sensor)[k + 1]
          /\ d # 0 => faults = <<"misread">>
    <3>1. faults \in {<<>>, <<"misread">>, <<"dead">>} /\ j >= 40
      BY <1>1, <2>2
    <3> QED
      BY <3>1, WholeTrain, Zenon
  <2>4. d = 0
    BY <1>1, <2>3
  <2> DEFINE B == Bytes(sensor)
  <2>5. /\ B[1] \in 0 .. 255 /\ B[2] \in 0 .. 255 /\ B[3] \in 0 .. 255
        /\ B[4] \in 0 .. 255 /\ B[5] \in 0 .. 255 /\ B[5] = (B[1] + B[2] + B[3] + B[4]) % 256
    BY SentBy DEF DhtInv, DhtTypeOK
  <2>6. \A k \in 0 .. 4 : data[k] = IF k = q THEN B[k + 1] + 0 ELSE B[k + 1]
    BY <2>3, <2>4
  <2> HIDE DEF B
  <2>7. /\ data[0] = B[1] /\ data[1] = B[2] /\ data[2] = B[3] /\ data[3] = B[4]
        /\ data[4] = B[5]
    BY <2>5, <2>6, SMTT(30)
  <2> QED
    BY <2>2, <2>5, <2>7 DEF Accepted
<1>2. ASSUME faults = <<"lost">> PROVE ~Accepted
  <2>1. i \in 0 .. 82
    BY <1>2 DEF DhtInv, Counted, DhtTypeOK, LastPulse, Preamble
  <2>2. j <= 39
    BY <2>1 DEF DhtInv, Shifted
  <2>3. j \in Int
    BY DEF DhtInv, DhtTypeOK
  <2> QED
    BY <2>2, <2>3 DEF Accepted
<1>3. ASSUME faults \in {<<>>, <<"misread">>, <<"dead">>}, Accepted
      PROVE  Reading = [h |-> sensor.h, c |-> sensor.c]
  BY <1>3, AcceptedWhole, BytesRead DEF DhtInv, DhtTypeOK
<1> QED
  BY <1>1, <1>2, <1>3

-----------------------------------------------------------------------------
(* Types                                                                   *)

Calls == (0 .. 255) \X {LCD_CMD, LCD_CHR, EarlyCommand}

\* The read_dht_data of all programs, and the types with the calls queued.
TypeInv ==
  /\ DisplayTypeOK /\ DhtInv
  /\ queue \in [Writers -> Seq(Calls)] /\ Len(shown) = 2

\* Three writes and three.
LEMMA SixWrites ==
  ASSUME NEW a, NEW b, NEW c, NEW d, NEW e, NEW f
  PROVE  <<a, b, c>> \o <<d, e, f>> = <<a, b, c, d, e, f>>
<1> DEFINE S == {a, b, c, d, e, f}
           s == <<a, b, c>>
           t == <<d, e, f>>
           u == <<a, b, c, d, e, f>>
<1>1. /\ s \in Seq(S) /\ t \in Seq(S) /\ Len(s) = 3 /\ Len(t) = 3
      /\ u \in Seq(S) /\ Len(u) = 6
  OBVIOUS
<1>2. /\ s[1] = a /\ s[2] = b /\ s[3] = c /\ t[1] = d /\ t[2] = e /\ t[3] = f
      /\ u[1] = a /\ u[2] = b /\ u[3] = c /\ u[4] = d /\ u[5] = e /\ u[6] = f
  OBVIOUS
<1> HIDE DEF S, s, t, u
<1>3. /\ s \o t \in Seq(S) /\ Len(s \o t) = Len(s) + Len(t)
      /\ \A k \in 1 .. Len(s) + Len(t) :
           (s \o t)[k] = IF k <= Len(s) THEN s[k] ELSE t[k - Len(s)]
  BY <1>1, ConcatProperties
<1>4. ASSUME NEW k \in 1 .. 6 PROVE (s \o t)[k] = u[k]
  <2>1. k = 1 \/ k = 2 \/ k = 3 \/ k = 4 \/ k = 5 \/ k = 6
    OBVIOUS
  <2> QED
    BY <1>1, <1>2, <1>3, <2>1
<1>5. s \o t = u
  BY <1>1, <1>3, <1>4, SeqEqual
<1> QED
  BY <1>5 DEF s, t, u

\* The six writes of a byte.
HalfOf(x, k) == IF k < 3 THEN x \div 16 ELSE x % 16
EnableOf(m, k) == IF k \in {0, 3} THEN m \div 4 ELSE IF k \in {1, 4} THEN 1 ELSE 0

\* Each write by its number.
LEMMA PinsOf ==
  ASSUME NEW x, NEW m, NEW k \in 0 .. 5
  PROVE  lcd_byte(x, m)[k + 1] = Pins(HalfOf(x, k), m, EnableOf(m, k))
<1>1. k = 0 \/ k = 1 \/ k = 2 \/ k = 3 \/ k = 4 \/ k = 5
  OBVIOUS
<1>2. lcd_byte(x, m) = << Pins(x \div 16, m, m \div 4), Pins(x \div 16, m, 1),
                          Pins(x \div 16, m, 0), Pins(x % 16, m, m \div 4),
                          Pins(x % 16, m, 1), Pins(x % 16, m, 0) >>
  <2>1. lcd_byte(x, m) =
          <<Pins(x \div 16, m, m \div 4), Pins(x \div 16, m, 1), Pins(x \div 16, m, 0)>> \o
          <<Pins(x % 16, m, m \div 4), Pins(x % 16, m, 1), Pins(x % 16, m, 0)>>
    BY DEF lcd_byte, Toggled
  <2> QED
    BY <2>1, SixWrites
<1> QED
  BY <1>1, <1>2 DEF HalfOf, EnableOf

\* A write is one of half a byte.
LEMMA PinsType ==
  ASSUME NEW b \in Calls, NEW k \in 0 .. 5
  PROVE  lcd_byte(b[1], b[2])[k + 1] \in [data : Nibbles, rs : {0, 1}, e : {0, 1}]
<1>1. PICK x \in 0 .. 255, m \in {0, 1, 4} : x = b[1] /\ m = b[2]
  BY DEF Calls, LCD_CMD, LCD_CHR, EarlyCommand
<1>2. x \div 16 \in 0 .. 15 /\ x % 16 \in 0 .. 15 /\ m % 2 \in {0, 1} /\ m \div 4 \in {0, 1}
  OBVIOUS
<1>3. HalfOf(x, k) \in Nibbles /\ EnableOf(m, k) \in {0, 1}
  BY <1>2 DEF Nibbles, HalfOf, EnableOf
<1>4. lcd_byte(x, m)[k + 1] = Pins(HalfOf(x, k), m, EnableOf(m, k))
  BY PinsOf, Zenon
<1> QED
  BY <1>1, <1>2, <1>3, <1>4 DEF Pins

\* A write leaves the controller in one of its states, in 8-bit mode between
\* two bytes.
LEMMA BusType ==
  ASSUME LcdTypeOK, NEW v \in [data : Nibbles, rs : {0, 1}, e : {0, 1}], BusWrite(v)
  PROVE  LcdTypeOK' /\ ((width = 8 => half = NoHalf) => (width' = 8 => half' = NoHalf))
<1>1. /\ 0 \in Cells
      /\ \A a : At(a) \in Cells \cup {Elsewhere}
  BY LcdAssumption DEF LcdAssumption, Cells, LineStart, At
<1>2. pins' = v
  BY DEF BusWrite
<1>3. CASE UNCHANGED controller
  BY <1>2, <1>3 DEF LcdTypeOK, controller
<1>4. ASSUME NEW p \in {pins, v}, Latch(p)
      PROVE  LcdTypeOK' /\ ((width = 8 => half = NoHalf) => (width' = 8 => half' = NoHalf))
  <2>1. p.data \in Nibbles
    BY DEF LcdTypeOK
  <2>2. ASSUME NEW rs, NEW b, Take(rs, b)
        PROVE  LcdTypeOK' /\ half' = NoHalf
    <3>1. CASE Command(b)
      <4>1. addr' \in Cells \cup {Elsewhere}
        BY <1>1, <3>1 DEF Command, LcdTypeOK
      <4>2. DOMAIN ram' = Cells /\ width' \in {4, 8}
        BY <3>1 DEF Command, LcdTypeOK
      <4> QED
        BY <1>2, <2>2, <4>1, <4>2 DEF LcdTypeOK, Take
    <3>2. CASE Character(b)
      <4>1. addr' \in Cells \cup {Elsewhere}
        BY <1>1, <3>2 DEF Character, LcdTypeOK
      <4>2. DOMAIN ram' = Cells /\ width' \in {4, 8}
        BY <3>2 DEF Character, LcdTypeOK
      <4> QED
        BY <1>2, <2>2, <4>1, <4>2 DEF LcdTypeOK, Take
    <3> QED
      BY <2>2, <3>1, <3>2 DEF Take
  <2>3. CASE width = 4 /\ half = NoHalf /\ half' = p.data /\ UNCHANGED <<width, addr, ram>>
    BY <1>2, <2>1, <2>3 DEF LcdTypeOK
  <2> QED
    BY <1>4, <2>2, <2>3 DEF Latch
<1> QED
  BY <1>3, <1>4 DEF BusWrite

\* A text that is printed fits into a row.
LEMMA OverType ==
  ASSUME NEW row \in Seq(0 .. 255), Len(row) = Columns, NEW c \in Nat, NEW s \in Seq(0 .. 255)
  PROVE  Over(row, c, s) \in Seq(0 .. 255) /\ Len(Over(row, c, s)) = Columns
<1>1. Columns \in Nat
  BY LcdAssumption DEF LcdAssumption
<1>2. \A n \in 1 .. Columns :
        (IF n - c \in DOMAIN s THEN s[n - c] ELSE row[n]) \in 0 .. 255
  <2> SUFFICES ASSUME NEW n \in 1 .. Columns
               PROVE  (IF n - c \in DOMAIN s THEN s[n - c] ELSE row[n]) \in 0 .. 255
    OBVIOUS
  <2>1. row[n] \in 0 .. 255
    BY ElementOfSeq, Zenon
  <2>2. n - c \in DOMAIN s => s[n - c] \in 0 .. 255
    BY ElementOfSeq, LenProperties, ZenonT(30)
  <2> QED
    BY <2>1, <2>2
<1> QED
  BY <1>1, <1>2 DEF Over

\* What is printed is queued as calls, and shown on its line only.
LEMMA PrintType ==
  ASSUME TypeInv, NEW w \in Writers, NEW l \in 1 .. 2, NEW c \in 0 .. Columns - 1,
         NEW m \in {LCD_CMD, LCD_CHR, EarlyCommand},
         NEW s \in Seq(0 .. 255), PrintLine(w, m, l, c, s)
  PROVE  /\ queue' \in [Writers -> Seq(Calls)] /\ Len(shown') = 2
         /\ shown' \in Seq(Seq(0 .. 255)) /\ \A k \in 1 .. 2 : Len(shown'[k]) = Columns
         /\ \A k \in 1 .. 2 : shown'[k] = IF k = l THEN Over(shown[l], c, s) ELSE shown[k]
<1>1. Columns \in 1 .. 20 /\ c \in 0 .. 19
  BY LcdAssumption DEF LcdAssumption
<1>2. << <<128 + LineStart[l] + c, m>> >> \in Seq(Calls)
  <2>1. PICK a \in {0, 64} : a = LineStart[l]
    BY DEF LineStart
  <2>2. 128 + a + c \in 0 .. 255
    BY <1>1
  <2>3. <<128 + LineStart[l] + c, m>> \in Calls
    BY <2>1, <2>2 DEF Calls
  <2> QED
    BY <2>3
<1>3. [n \in DOMAIN s |-> <<s[n], LCD_CHR>>] \in Seq(Calls)
  BY SMTT(30) DEF Calls
<1>4. queue' \in [Writers -> Seq(Calls)]
  <2>1. << <<128 + LineStart[l] + c, m>> >> \o [n \in DOMAIN s |-> <<s[n], LCD_CHR>>]
          \in Seq(Calls)
    BY <1>2, <1>3, ConcatProperties, Zenon
  <2> QED
    BY <2>1 DEF PrintLine, TypeInv
<1>5. shown[l] \in Seq(0 .. 255) /\ Len(shown[l]) = Columns
  BY ElementOfSeq, Zenon DEF TypeInv, DisplayTypeOK
<1>6. Over(shown[l], c, s) \in Seq(0 .. 255) /\ Len(Over(shown[l], c, s)) = Columns
  BY <1>1, <1>5, OverType
<1>7. shown' = [shown EXCEPT ![l] = Over(shown[l], c, s)]
  BY DEF PrintLine
<1>8. /\ Len(shown') = 2 /\ shown' \in Seq(Seq(0 .. 255))
      /\ \A k \in 1 .. 2 : shown'[k] = IF k = l THEN Over(shown[l], c, s) ELSE shown[k]
  <2>1. shown \in Seq(Seq(0 .. 255)) /\ Len(shown) = 2
    BY DEF TypeInv, DisplayTypeOK
  <2>2. l \in 1 .. Len(shown)
    BY <2>1
  <2> DEFINE S == Seq(0 .. 255)
             over == Over(shown[l], c, s)
  <2>3. shown \in Seq(S) /\ over \in S /\ shown' = [shown EXCEPT ![l] = over]
    BY <1>6, <1>7, <2>1
  <2> HIDE DEF S, over
  <2>4. /\ shown' \in Seq(S) /\ Len(shown') = Len(shown)
        /\ \A k \in 1 .. Len(shown) : shown'[k] = IF k = l THEN over ELSE shown[k]
    BY <2>2, <2>3, ExceptSeq
  <2> QED
    BY <2>1, <2>4 DEF S, over
<1> QED
  BY <1>4, <1>6, <1>8 DEF TypeInv, DisplayTypeOK

\* What is shown of a reading.
LEMMA TextType == ASSUME DhtTypeOK PROVE Text(Reading) \in Seq(0 .. 255)
<1>1. data[2] \in 0 .. 255 /\ data[3] \in 0 .. 255
  BY DEF DhtTypeOK
<1>2. PICK p \in 0 .. 255, q \in 0 .. 255 : p = data[2] /\ q = data[3]
  BY <1>1, Zenon
<1>3. PICK t \in 0 .. 2550 : t = IF 256 * p + q > 1250 THEN 10 * p ELSE 256 * p + q
  <2> DEFINE v == IF 256 * p + q > 1250 THEN 10 * p ELSE 256 * p + q
  <2>1. v \in 0 .. 2550
    BY SMTT(30)
  <2> HIDE DEF v
  <2>2. \E t \in 0 .. 2550 : t = v
    BY <2>1
  <2> QED
    BY <2>2 DEF v
<1>4. Reading.c = t
  <2> DEFINE Of(x, y) == IF 256 * x + y > 1250 THEN 10 * x ELSE 256 * x + y
  <2>1. Reading.c = Of(data[2], data[3])
    BY DEF Reading
  <2>2. t = Of(p, q)
    BY <1>3
  <2> HIDE DEF Of
  <2> QED
    BY <1>2, <2>1, <2>2
<1> DEFINE a == t \div 100
           b == (t % 100) \div 10
<1>5. a \in 0 .. 25
  OBVIOUS
<1>8. b \in 0 .. 9
  <2>1. t % 100 \in 0 .. 99
    OBVIOUS
  <2> QED
    BY <2>1
<1>6. Text(Reading) = (IF t < 100 THEN <<>> ELSE <<48 + a>>) \o <<48 + b>>
  BY <1>4 DEF Text
<1> HIDE DEF a, b
<1>7. /\ <<>> \in Seq(0 .. 255) /\ <<48 + a>> \in Seq(0 .. 255)
      /\ <<48 + b>> \in Seq(0 .. 255)
  <2>1. 48 + a \in 0 .. 255 /\ 48 + b \in 0 .. 255
    BY <1>5, <1>8
  <2> QED
    BY <2>1
<1>9. CASE t < 100
  <2>1. Text(Reading) = <<>> \o <<48 + b>>
    BY <1>6, <1>9
  <2>2. <<>> \o <<48 + b>> \in Seq(0 .. 255)
    BY <1>7, ConcatProperties
  <2> QED
    BY <2>1, <2>2
<1>10. CASE ~(t < 100)
  <2>1. Text(Reading) = <<48 + a>> \o <<48 + b>>
    BY <1>6, <1>10
  <2>2. <<48 + a>> \o <<48 + b>> \in Seq(0 .. 255)
    BY <1>7, ConcatProperties
  <2> QED
    BY <2>1, <2>2
<1> QED
  BY <1>9, <1>10

\* Nothing happens to the sensor.
LEMMA DhtSame == ASSUME DhtInv, UNCHANGED dhtVars PROVE DhtInv'
<1>1. UNCHANGED <<sensor, pulse, spike, faults, dht, i, j, data>>
  BY DEF dhtVars, wire
<1>2. DhtTypeOK' /\ Shifted' /\ Counted'
  BY <1>1 DEF DhtInv, DhtTypeOK, Shifted, Counted
<1>3. Wrong'
  <2> SUFFICES ASSUME faults \in {<<>>, <<"misread">>, <<"dead">>} PROVE Wrong'
    BY <1>1 DEF Wrong
  <2>1. PICK q \in 0 .. 4, d \in -128 .. 128 :
          /\ OffBy(q, d)
          /\ d # 0 => faults = <<"misread">> /\ Near(q, d)
    BY DEF DhtInv, Wrong
  <2>2. OffBy(q, d)' /\ (Near(q, d) => Near(q, d)')
    BY <1>1, <2>1 DEF OffBy, Near, Bytes
  <2> QED
    BY <1>1, <2>1, <2>2 DEF Wrong
<1> QED
  BY <1>2, <1>3 DEF DhtInv

\* Nothing happens to the LCD.
LEMMA LcdSame == ASSUME LcdTypeOK, UNCHANGED lcdVars PROVE LcdTypeOK'
BY DEF LcdTypeOK, lcdVars, controller

\* Two empty lines.
LEMMA BlankType ==
  LET two == <<NoText, NoText>>
  IN /\ two \in Seq(Seq(0 .. 255)) /\ Len(two) = 2
     /\ \A l \in 1 .. 2 : two[l] = NoText /\ Len(two[l]) = Columns
<1>1. NoText \in Seq(0 .. 255) /\ Len(NoText) = Columns
  BY LcdAssumption DEF LcdAssumption, NoText
<1> DEFINE S == Seq(0 .. 255)
<1>2. NoText \in S
  BY <1>1
<1>3. \A l \in 1 .. 2 : l = 1 \/ l = 2
  OBVIOUS
<1> HIDE DEF S
<1>4. <<NoText, NoText>> \in Seq(S) /\ Len(<<NoText, NoText>>) = 2
  BY <1>2
<1> QED
  BY <1>1, <1>3, <1>4 DEF S

\* What lcd_init sends.
LEMMA InitBytes ==
  /\ lcd_init \in Seq(Calls) /\ Len(lcd_init) = 6
  /\ lcd_init[1] = <<51, LCD_CMD>> /\ lcd_init[2] = <<50, LCD_CMD>>
  /\ lcd_init[3] = <<6, LCD_CMD>> /\ lcd_init[4] = <<12, LCD_CMD>>
  /\ lcd_init[5] = <<40, LCD_CMD>> /\ lcd_init[6] = <<1, LCD_CMD>>
<1> DEFINE T == <<51, 50, 6, 12, 40, 1>>
<1>1. T[1] = 51 /\ T[2] = 50 /\ T[3] = 6 /\ T[4] = 12 /\ T[5] = 40 /\ T[6] = 1
  OBVIOUS
<1>2. lcd_init = [n \in 1 .. 6 |-> <<T[n], LCD_CMD>>]
  BY DEF lcd_init
<1> HIDE DEF T
<1>3. ASSUME NEW n \in 1 .. 6 PROVE T[n] \in 0 .. 255
  <2>1. n = 1 \/ n = 2 \/ n = 3 \/ n = 4 \/ n = 5 \/ n = 6
    OBVIOUS
  <2> QED
    BY <1>1, <2>1
<1>4. ASSUME NEW n \in 1 .. 6 PROVE <<T[n], LCD_CMD>> \in Calls
  BY <1>3 DEF Calls
<1> QED
  BY <1>1, <1>2, <1>4

\* The invariant holds at the start of main.
LEMMA InitTypeInv == Init => TypeInv
<1> SUFFICES ASSUME Init PROVE TypeInv
  OBVIOUS
<1> USE DEF Init
<1>1. LcdTypeOK
  <2>1. OldHalves \subseteq Nibbles
    BY DisplayAssumption DEF DisplayAssumption
  <2> QED
    BY <2>1 DEF LcdTypeOK
<1>2. DhtInv
  <2>1. \A k \in 0 .. 5 : data[k] = 0 /\ Bits(k, 0) = 0
    BY DEF DhtInit, Zero, Bits
  <2>2. DhtTypeOK
    BY <2>1 DEF DhtInit, DhtTypeOK, LastPulse, Preamble, MAX_TIMINGS
  <2>3. Shifted
    BY <2>1, Doubling DEF DhtInit, Shifted, Zero, MAX_TIMINGS
  <2>4. Counted
    BY DEF DhtInit, Counted
  <2>5. OffBy(0, 0)
    BY <2>1 DEF DhtInit, OffBy, Top
  <2>6. Wrong
    <3>1. 0 \in 0 .. 4 /\ 0 \in -128 .. 128
      OBVIOUS
    <3> QED
      BY <2>5, <3>1 DEF Wrong
  <2> QED
    BY <2>2, <2>3, <2>4, <2>6 DEF DhtInv
<1>3. program \in Programs /\ ready \in BOOLEAN /\ step \in [Writers -> 0 .. 5]
      /\ line \in [Writers -> 1 .. 2]
  <2>1. \A w \in Writers : (IF w = "dht" THEN 2 ELSE 1) \in 1 .. 2
    OBVIOUS
  <2>2. line \in [Writers -> 1 .. 2]
    BY <2>1
  <2>3. step \in [Writers -> 0 .. 5]
    OBVIOUS
  <2>4. program \in Programs /\ ready \in BOOLEAN
    OBVIOUS
  <2> QED
    BY <2>2, <2>3, <2>4
<1>5. /\ shown \in Seq(Seq(0 .. 255)) /\ Len(shown) = 2
      /\ \A l \in 1 .. 2 : Len(shown[l]) = Columns
  BY BlankType
<1>6. queue \in [Writers -> Seq(Calls)]
  <2>1. lcd_init \in Seq(Calls)
    BY InitBytes
  <2>2. <<>> \in Seq(Calls)
    OBVIOUS
  <2> QED
    BY <2>1, <2>2
<1> QED
  BY <1>1, <1>2, <1>3, <1>5, <1>6 DEF TypeInv, DisplayTypeOK, DhtInv

\* A write to the bus.
LEMMA SendType == ASSUME TypeInv, NEW w \in Writers, Send(w) PROVE TypeInv'
<1>1. /\ queue[w] \in Seq(Calls) /\ queue[w] # <<>> /\ step[w] \in 0 .. 5
      /\ LcdTypeOK /\ queue \in [Writers -> Seq(Calls)] /\ step \in [Writers -> 0 .. 5]
  BY DEF TypeInv, DisplayTypeOK, Send
<1>2. Head(queue[w]) \in Calls /\ Tail(queue[w]) \in Seq(Calls)
  BY <1>1, HeadTailProperties
<1> DEFINE b == Head(queue[w])
<1>3. /\ BusWrite(lcd_byte(b[1], b[2])[step[w] + 1])
      /\ lcd_byte(b[1], b[2])[step[w] + 1] \in [data : Nibbles, rs : {0, 1}, e : {0, 1}]
  BY <1>1, <1>2, PinsType DEF Send
<1>4. LcdTypeOK'
  BY <1>1, <1>3, BusType
<1>5. step' \in [Writers -> 0 .. 5] /\ queue' \in [Writers -> Seq(Calls)]
  <2>1. CASE step[w] < 5 /\ step' = [step EXCEPT ![w] = step[w] + 1] /\ UNCHANGED queue
    BY <1>1, <2>1
  <2>2. CASE SendLast(w)
    BY <1>1, <1>2, <2>2 DEF SendLast
  <2> QED
    BY <2>1, <2>2 DEF Send
<1>6. UNCHANGED <<program, ready, line, shown>> /\ DhtInv'
  BY DhtSame DEF Send, TypeInv
<1> QED
  BY <1>4, <1>5, <1>6 DEF TypeInv, DisplayTypeOK, DhtInv

\* A text is printed.
LEMMA PrintKeepsType ==
  ASSUME TypeInv, NEW w \in Writers, NEW l \in 1 .. 2, NEW c \in 0 .. Columns - 1,
         NEW m \in {LCD_CMD, LCD_CHR, EarlyCommand},
         NEW s \in Seq(0 .. 255), PrintLine(w, m, l, c, s),
         UNCHANGED <<lcdVars, program, ready, step>>, line' \in [Writers -> 1 .. 2], DhtInv'
  PROVE  TypeInv'
<1>1. /\ queue' \in [Writers -> Seq(Calls)] /\ Len(shown') = 2
      /\ shown' \in Seq(Seq(0 .. 255)) /\ \A k \in 1 .. 2 : Len(shown'[k]) = Columns
  BY PrintType
<1>2. LcdTypeOK'
  BY LcdSame DEF TypeInv, DisplayTypeOK
<1> QED
  BY <1>1, <1>2 DEF TypeInv, DisplayTypeOK, DhtInv

\* The operations of the programs.
LEMMA OperationType ==
  ASSUME TypeInv,
         \/ Initialised \/ lcd_clear \/ lcd_print_at
         \/ \E w \in Writers : DisplayTime(w) \/ ReadSensor(w) \/ DisplayReading(w)
  PROVE  TypeInv'
<1>1. /\ LcdTypeOK /\ DhtInv /\ line \in [Writers -> 1 .. 2]
      /\ queue \in [Writers -> Seq(Calls)] /\ Columns \in 1 .. 20
      /\ Offsets \subseteq 0 .. Columns - 1 /\ \A s \in Times : s \in Seq(0 .. 255)
      /\ 0 \in 0 .. Columns - 1
  BY LcdAssumption, DisplayAssumption
     DEF TypeInv, DisplayTypeOK, LcdAssumption, DisplayAssumption
<1>2. CASE Initialised
  <2>1. DhtInv' /\ LcdTypeOK'
    BY <1>1, <1>2, DhtSame, LcdSame DEF Initialised
  <2> QED
    BY <1>2, <2>1 DEF Initialised, TypeInv, DisplayTypeOK, DhtInv
<1>3. CASE lcd_clear
  <2>1. DhtInv' /\ LcdTypeOK'
    BY <1>1, <1>3, DhtSame, LcdSame DEF lcd_clear, Driver
  <2>2. << <<1, LCD_CMD>>, <<2, LCD_CMD>> >> \in Seq(Calls)
    <3>1. <<1, LCD_CMD>> \in Calls /\ <<2, LCD_CMD>> \in Calls
      BY DEF Calls
    <3> QED
      BY <3>1
  <2>3. queue' \in [Writers -> Seq(Calls)]
    BY <1>1, <1>3, <2>2 DEF lcd_clear
  <2>4. /\ shown' \in Seq(Seq(0 .. 255)) /\ Len(shown') = 2
        /\ \A l \in 1 .. 2 : Len(shown'[l]) = Columns
    BY <1>3, BlankType DEF lcd_clear
  <2> QED
    BY <1>3, <2>1, <2>3, <2>4 DEF lcd_clear, Driver, TypeInv, DisplayTypeOK, DhtInv
<1>4. CASE lcd_print_at
  <2>1. PICK l \in 1 .. 2, c \in Offsets, s \in Times : PrintLine("main", LCD_CMD, l, c, s)
    BY <1>4 DEF lcd_print_at
  <2>2. DhtInv' /\ UNCHANGED <<lcdVars, program, ready, step, line>>
    BY <1>1, <1>4, DhtSame DEF lcd_print_at, Driver
  <2> QED
    BY <1>1, <2>1, <2>2, PrintKeepsType DEF Writers
<1>5. ASSUME NEW w \in Writers, Advance(w)
      PROVE  line' \in [Writers -> 1 .. 2] /\ UNCHANGED <<lcdVars, program, ready, step>>
  <2>1. line[w] \in 1 .. 2 /\ Next_line(w) \in 1 .. 2
    BY <1>1 DEF Next_line
  <2> QED
    BY <1>1, <1>5, <2>1 DEF Advance
<1>6. ASSUME NEW w \in Writers, DisplayTime(w) PROVE TypeInv'
  <2>1. PICK s \in Times, m \in {LCD_CMD, LCD_CHR, EarlyCommand} : PrintLine(w, m, 1, 0, s)
    BY <1>6 DEF DisplayTime
  <2>2. DhtInv' /\ Advance(w)
    BY <1>1, <1>6, DhtSame DEF DisplayTime
  <2>3. line' \in [Writers -> 1 .. 2] /\ UNCHANGED <<lcdVars, program, ready, step>>
    BY <1>5, <2>2
  <2>4. s \in Seq(0 .. 255) /\ 1 \in 1 .. 2
    BY <1>1
  <2> QED
    BY <1>1, <2>1, <2>2, <2>3, <2>4, PrintKeepsType
<1>7. ASSUME NEW w \in Writers, ReadSensor(w) PROVE TypeInv'
  <2>1. UNCHANGED <<lcdVars, display>> /\ LcdTypeOK'
    BY <1>1, <1>7, LcdSame DEF ReadSensor
  <2>2. DhtInv'
    <3>1. CASE StartRead
      BY <3>1, FreshReading DEF StartRead
    <3>2. CASE DhtNext
      BY <1>1, <3>2, TrainKeeps
    <3> QED
      BY <1>7, <3>1, <3>2 DEF ReadSensor
  <2> QED
    BY <2>1, <2>2 DEF display, TypeInv, DisplayTypeOK, DhtInv
<1>8. ASSUME NEW w \in Writers, DisplayReading(w) PROVE TypeInv'
  <2>1. DhtInv'
    BY <1>1, <1>8, FreshReading DEF DisplayReading, Return, DhtInv, DhtTypeOK
  <2>2. line' \in [Writers -> 1 .. 2] /\ UNCHANGED <<lcdVars, program, ready, step>>
    BY <1>5, <1>8 DEF DisplayReading
  <2>3. CASE PrintLine(w, LCD_CMD, 2, 0, Text(Reading))
    <3>1. Text(Reading) \in Seq(0 .. 255) /\ 2 \in 1 .. 2
      BY <1>1, TextType DEF DhtInv
    <3> QED
      BY <1>1, <2>1, <2>2, <2>3, <3>1, PrintKeepsType
  <2>4. CASE UNCHANGED <<queue, shown>>
    <3>1. LcdTypeOK'
      BY <1>1, <2>2, LcdSame
    <3> QED
      BY <2>1, <2>2, <2>4, <3>1 DEF TypeInv, DisplayTypeOK, DhtInv
  <2> QED
    BY <1>8, <2>3, <2>4 DEF DisplayReading
<1> QED
  BY <1>2, <1>3, <1>4, <1>6, <1>7, <1>8

\* No step breaks it.
LEMMA NextKeepsTypeInv == TypeInv /\ [Next]_vars => TypeInv'
<1>1. ASSUME TypeInv, UNCHANGED vars PROVE TypeInv'
  <2>1. UNCHANGED <<lcdVars, display, dhtVars>>
    BY <1>1 DEF vars
  <2>2. LcdTypeOK' /\ DhtInv'
    BY <1>1, <2>1, LcdSame, DhtSame DEF TypeInv, DisplayTypeOK
  <2> QED
    BY <1>1, <2>1, <2>2 DEF display, TypeInv, DisplayTypeOK, DhtInv
<1> QED
  BY <1>1, SendType, OperationType DEF Next

\* It holds in every reachable state.
LEMMA TypeInvAlways == Spec => []TypeInv
BY InitTypeInv, NextKeepsTypeInv, PTL DEF Spec

-----------------------------------------------------------------------------
\* The LCD, the bus, the sensor and what the programs keep of them have their
\* types, with one writer or two: in particular no word of the train gets more
\* bits than it has, and data[5], past the array, at most one.
THEOREM DisplayTypeCorrect == Spec => []DisplayTypeOK
<1>1. TypeInv => DisplayTypeOK
  BY DEF TypeInv
<1> QED
  BY <1>1, TypeInvAlways, PTL

\* A train that nothing has disturbed is read, and gives what was measured; one
\* that stops, or of which the loop that waits takes a pulse for the other bit
\* or misses one, is refused or gives what was measured.
THEOREM SensorRead == ASSUME Plain PROVE Spec => []ReadsTrain
<1>1. TypeInv => ReadsTrain
  BY InvReadsTrain DEF TypeInv
<1> QED
  BY <1>1, TypeInvAlways, PTL

-----------------------------------------------------------------------------
(* Halves and bytes                                                        *)

\* With one writer there is one queue, and the writes of the call at its head.
calls == queue["main"]
done  == step["main"]

Alone ==
  /\ program # "threads"
  /\ queue["time"] = <<>> /\ queue["dht"] = <<>> /\ step["time"] = 0 /\ step["dht"] = 0

\* No command changes the mode once the LCD has been found.
Mild(b) == b[2] = LCD_CHR \/ b[1] \notin 48 .. 63

\* lcd_init is sent from its first byte to its last.
InOrder ==
  /\ calls = <<>> => done = 0
  /\ ~ready => /\ Len(calls) <= 6
               /\ \A n \in 1 .. 6 :
                    Len(calls) = n => \A k \in 1 .. n : calls[k] = lcd_init[6 - n + k]
  /\ ready => \A k \in 1 .. Len(calls) : Mild(calls[k])

\* The bus holds what was written last; enable is off between two calls.
OnBus ==
  /\ done > 0 => pins = lcd_byte(Head(calls)[1], Head(calls)[2])[done]
  /\ done = 0 /\ (ready \/ Len(calls) < 6) => pins.e = 0

\* Nothing is known of the LCD before the first half byte of lcd_init.  After
\* it, the LCD waits for a first half or has got a 3 for one; after the second
\* it is in 8-bit mode or has got a 3, after the third it is in 8-bit mode, and
\* the fourth takes it back to 4-bit mode.
Synced == ready \/ Len(calls) <= 4
Halves ==
  /\ width = 8 => half = NoHalf
  /\ ~ready /\ Len(calls) = 6 /\ done >= 3 => half \in {3, NoHalf}
  /\ ~ready /\ Len(calls) = 5 => width = 8 \/ (done < 3 /\ half = 3)
  /\ Synced => /\ width = 4
               /\ half = IF done < 3 THEN NoHalf ELSE Head(calls)[1] \div 16

SyncInv == Alone /\ InOrder /\ OnBus /\ Halves

\* A write of lcd_byte to an LCD that is in step with it.
LEMMA SyncedWrite ==
  ASSUME NEW x \in 0 .. 255, NEW m \in {LCD_CMD, LCD_CHR, EarlyCommand}, NEW k \in 0 .. 5,
         width = 4, half = IF k < 3 THEN NoHalf ELSE x \div 16,
         k > 0 => pins = lcd_byte(x, m)[k], k = 0 => pins.e = 0,
         BusWrite(lcd_byte(x, m)[k + 1])
  PROVE  /\ pins' = lcd_byte(x, m)[k + 1]
         /\ k < 5 => /\ UNCHANGED <<width, addr, ram>>
                     /\ half' = IF k + 1 < 3 THEN NoHalf ELSE x \div 16
         /\ k = 5 => /\ half' = NoHalf /\ pins'.e = 0
                     /\ IF m = LCD_CHR THEN Character(x) ELSE Command(x)
<1> DEFINE v == lcd_byte(x, m)[k + 1]
<1>1. /\ m \in {0, 1, 4} /\ (m = LCD_CHR <=> m = 1) /\ pins' = v
      /\ x \div 16 \in 0 .. 15 /\ 16 * (x \div 16) + (x % 16) = x
      /\ m % 2 = IF m = 1 THEN 1 ELSE 0
  BY DEF LCD_CMD, LCD_CHR, EarlyCommand, BusWrite
<1>2. v.data = HalfOf(x, k) /\ v.rs = m % 2 /\ v.e = EnableOf(m, k)
  <2>1. v = Pins(HalfOf(x, k), m, EnableOf(m, k))
    BY PinsOf
  <2> QED
    BY <2>1 DEF Pins
<1>3. k > 0 => /\ pins.data = HalfOf(x, k - 1) /\ pins.rs = m % 2
               /\ pins.e = EnableOf(m, k - 1)
  <2> SUFFICES ASSUME k > 0 PROVE /\ pins.data = HalfOf(x, k - 1) /\ pins.rs = m % 2
                                  /\ pins.e = EnableOf(m, k - 1)
    OBVIOUS
  <2>1. k - 1 \in 0 .. 5 /\ (k - 1) + 1 = k
    OBVIOUS
  <2>2. pins = Pins(HalfOf(x, k - 1), m, EnableOf(m, k - 1))
    BY <2>1, PinsOf
  <2> QED
    BY <2>2 DEF Pins
<1> HIDE DEF v
<1>4. CASE k \in {0, 1, 3, 4}
  <2>1. ~(pins.e = 1 /\ v.e = 0)
    BY <1>2, <1>3, <1>4 DEF EnableOf
  <2>2. UNCHANGED controller
    BY <2>1 DEF BusWrite, v
  <2> QED
    BY <1>1, <1>4, <2>2 DEF controller, v
<1>5. CASE k = 2
  <2>1. pins.e = 1 /\ v.e = 0 /\ \A p \in {pins, v} : p.data = x \div 16
    BY <1>2, <1>3, <1>5 DEF EnableOf, HalfOf
  <2>2. PICK p \in {pins, v} : Latch(p)
    BY <2>1 DEF BusWrite, v
  <2>3. half = NoHalf
    BY <1>5
  <2>4. half' = p.data /\ UNCHANGED <<width, addr, ram>>
    BY <2>2, <2>3 DEF Latch
  <2> QED
    BY <1>1, <1>5, <2>1, <2>4 DEF v
<1>6. CASE k = 5
  <2>1. pins.e = 1 /\ v.e = 0 /\ \A p \in {pins, v} : p.data = x % 16 /\ p.rs = m % 2
    BY <1>2, <1>3, <1>6 DEF EnableOf, HalfOf
  <2>2. PICK p \in {pins, v} : Latch(p)
    BY <2>1 DEF BusWrite, v
  <2>3. half = x \div 16 /\ half # NoHalf
    BY <1>1, <1>6 DEF NoHalf
  <2>4. Take(m % 2, x)
    <3>1. Take(p.rs, 16 * half + p.data)
      BY <2>2, <2>3 DEF Latch
    <3> QED
      BY <1>1, <2>1, <2>3, <3>1
  <2> QED
    BY <1>1, <1>6, <2>1, <2>4 DEF Take, v
<1> QED
  BY <1>4, <1>5, <1>6

\* A half byte of lcd_init that the LCD takes, whatever it waits for.
LEMMA NibbleTaken ==
  ASSUME LcdTypeOK, width = 8 => half = NoHalf, NEW n \in {2, 3},
         pins = Pins(n, LCD_CMD, 1), BusWrite(Pins(n, LCD_CMD, 0))
  PROVE  /\ half' \in {n, NoHalf}
         /\ width = 8 => half' = NoHalf /\ width' = IF n = 3 THEN 8 ELSE 4
         /\ width = 4 /\ half = NoHalf => half' = n /\ width' = 4
         /\ half = 3 /\ n = 3 => half' = NoHalf /\ width' = 8
<1>1. PICK p : Latch(p) /\ p.data = n /\ p.rs = 0
  BY DEF BusWrite, Pins, LCD_CMD
<1>2. width \in {4, 8} /\ NoHalf = 16 /\ 16 * 3 + 3 = 51 /\ 16 * 3 = 48 /\ 16 * 2 = 32
  BY DEF LcdTypeOK, NoHalf
<1>3. CASE width = 8
  <2>1. Take(0, 16 * n)
    BY <1>1, <1>3 DEF Latch
  <2>2. half' = NoHalf /\ width' = IF n = 3 THEN 8 ELSE 4
    BY <1>2, <1>3, <2>1 DEF Take, Command
  <2> QED
    BY <1>2, <1>3, <2>2
<1>4. CASE width = 4 /\ half = NoHalf
  BY <1>1, <1>2, <1>4 DEF Latch
<1>5. CASE width = 4 /\ half # NoHalf
  <2>1. Take(0, 16 * half + n)
    BY <1>1, <1>5 DEF Latch
  <2>2. half' = NoHalf
    BY <2>1 DEF Take
  <2>3. half = 3 /\ n = 3 => width' = 8
    BY <1>2, <2>1 DEF Take, Command
  <2> QED
    BY <1>5, <2>2, <2>3
<1> QED
  BY <1>2, <1>3, <1>4, <1>5

\* At the start nothing was written yet.
LEMMA InitSyncInv == ASSUME Init, "threads" \notin Programs PROVE SyncInv
<1> USE DEF Init
<1>1. calls = lcd_init /\ done = 0 /\ ~ready
  BY DEF calls, done, Writers
<1>2. Alone
  BY DEF Alone, Writers
<1>3. InOrder
  BY <1>1, InitBytes DEF InOrder
<1>4. OnBus
  BY <1>1, InitBytes DEF OnBus
<1>5. Halves
  BY <1>1, InitBytes DEF Halves, Synced
<1> QED
  BY <1>2, <1>3, <1>4, <1>5 DEF SyncInv

\* What a write does to the queue, which is main's.
LEMMA SendQueue ==
  ASSUME TypeInv, SyncInv, NEW w \in Writers, Send(w)
  PROVE  /\ w = "main" /\ calls \in Seq(Calls) /\ calls # <<>> /\ done \in 0 .. 5
         /\ Len(calls) \in Nat \ {0} /\ Head(calls) = calls[1]
         /\ Head(calls)[1] \in 0 .. 255
         /\ Head(calls)[2] \in {LCD_CMD, LCD_CHR, EarlyCommand}
         /\ BusWrite(lcd_byte(Head(calls)[1], Head(calls)[2])[done + 1])
         /\ Alone' /\ UNCHANGED <<program, ready, line, shown, dhtVars>>
         /\ done < 5 => done' = done + 1 /\ calls' = calls
         /\ done = 5 => /\ done' = 0 /\ calls' = Tail(calls) /\ Len(calls') = Len(calls) - 1
                        /\ calls' \in Seq(Calls)
                        /\ \A k \in 1 .. Len(calls) - 1 : calls'[k] = calls[k + 1]
<1>1. w = "main" /\ queue[w] # <<>>
  BY DEF SyncInv, Alone, Send, Writers
<1>2. /\ calls \in Seq(Calls) /\ done \in 0 .. 5 /\ "main" \in Writers
      /\ queue \in [Writers -> Seq(Calls)] /\ step \in [Writers -> 0 .. 5]
  BY DEF TypeInv, DisplayTypeOK, calls, done, Writers
<1>3. calls # <<>>
  BY <1>1 DEF calls
<1>4. /\ Head(calls) \in Calls /\ Head(calls) = calls[1] /\ Len(calls) \in Nat \ {0}
      /\ Tail(calls) \in Seq(Calls) /\ Len(Tail(calls)) = Len(calls) - 1
      /\ \A k \in 1 .. Len(calls) - 1 : Tail(calls)[k] = calls[k + 1]
  <2>1. Len(calls) \in Nat \ {0}
    BY <1>2, <1>3, EmptySeq
  <2> QED
    BY <1>2, <1>3, <2>1, HeadTailProperties
<1>5. Head(calls)[1] \in 0 .. 255 /\ Head(calls)[2] \in {LCD_CMD, LCD_CHR, EarlyCommand}
  BY <1>4 DEF Calls
<1>6. /\ BusWrite(lcd_byte(Head(calls)[1], Head(calls)[2])[done + 1])
      /\ UNCHANGED <<program, ready, line, shown, dhtVars>>
  BY <1>1 DEF Send, calls, done
<1>7. CASE done < 5 /\ step' = [step EXCEPT !["main"] = done + 1] /\ UNCHANGED queue
  <2>1. done' = done + 1 /\ calls' = calls
    BY <1>2, <1>7 DEF done, calls
  <2>2. Alone'
    BY <1>2, <1>6, <1>7 DEF SyncInv, Alone
  <2>3. ~(done = 5)
    BY <1>2, <1>7
  <2> QED
    BY <1>1, <1>2, <1>3, <1>4, <1>5, <1>6, <1>7, <2>1, <2>2, <2>3
<1>8. CASE done = 5 /\ SendLast("main")
  <2>1. done' = 0 /\ calls' = Tail(calls)
    BY <1>2, <1>8 DEF SendLast, done, calls
  <2>2. Alone'
    BY <1>2, <1>6, <1>8 DEF SendLast, SyncInv, Alone, Writers
  <2> QED
    BY <1>1, <1>2, <1>3, <1>4, <1>5, <1>6, <1>8, <2>1, <2>2
<1> QED
  BY <1>1, <1>7, <1>8 DEF Send, done

\* The call of lcd_init at the head.
LEMMA FirstInOrder ==
  ASSUME InOrder, ~ready
  PROVE  \A n \in 1 .. 6 : Len(calls) = n => calls[1] = lcd_init[7 - n]
<1> SUFFICES ASSUME NEW n \in 1 .. 6, Len(calls) = n PROVE calls[1] = lcd_init[7 - n]
  OBVIOUS
<1>1. 1 \in 1 .. n /\ 6 - n + 1 = 7 - n
  OBVIOUS
<1> QED
  BY <1>1 DEF InOrder

\* The calls of lcd_init that are left behind it.
LEMMA TailInOrder ==
  ASSUME InOrder, ~ready, Len(calls) \in Nat \ {0}, NEW t, Len(t) = Len(calls) - 1,
         \A k \in 1 .. Len(calls) - 1 : t[k] = calls[k + 1]
  PROVE  /\ Len(t) <= 6
         /\ \A n \in 1 .. 6 : Len(t) = n => \A k \in 1 .. n : t[k] = lcd_init[6 - n + k]
<1>1. PICK L \in 1 .. 6 : L = Len(calls)
  <2>1. PICK K \in Nat \ {0} : K = Len(calls)
    BY Zenon
  <2>2. Len(calls) <= 6
    BY DEF InOrder
  <2>3. K <= 6
    BY <2>1, <2>2, Zenon
  <2>4. K \in 1 .. 6
    BY <2>3
  <2> QED
    BY <2>1, <2>4, Zenon
<1>2. \A k \in 1 .. L : calls[k] = lcd_init[6 - L + k]
  BY <1>1 DEF InOrder
<1>3. Len(t) = L - 1
  BY <1>1
<1>4. ASSUME NEW n \in 1 .. 6, Len(t) = n, NEW k \in 1 .. n
      PROVE  t[k] = lcd_init[6 - n + k]
  <2>1. n = L - 1 /\ k + 1 \in 1 .. L /\ 6 - L + (k + 1) = 6 - n + k
    BY <1>3, <1>4
  <2>2. t[k] = calls[k + 1]
    BY <1>1, <2>1
  <2> QED
    BY <1>2, <2>1, <2>2
<1> QED
  BY <1>3, <1>4, SMTT(30)

\* An LCD that is in step stays so, and takes the byte with the last write.
LEMMA SyncedSend ==
  ASSUME TypeInv, SyncInv, Synced, NEW w \in Writers, Send(w)
  PROVE  /\ SyncInv'
         /\ done < 5 => UNCHANGED <<addr, ram>>
         /\ done = 5 => IF calls[1][2] = LCD_CHR THEN Character(calls[1][1])
                                                 ELSE Command(calls[1][1])
<1> DEFINE x == Head(calls)[1]
           m == Head(calls)[2]
<1>1. /\ calls \in Seq(Calls) /\ calls # <<>> /\ done \in 0 .. 5 /\ Len(calls) \in Nat \ {0}
      /\ Head(calls) = calls[1] /\ x \in 0 .. 255 /\ m \in {LCD_CMD, LCD_CHR, EarlyCommand}
      /\ BusWrite(lcd_byte(x, m)[done + 1]) /\ Alone' /\ ready' = ready
      /\ done < 5 => done' = done + 1 /\ calls' = calls
      /\ done = 5 => /\ done' = 0 /\ calls' = Tail(calls) /\ Len(calls') = Len(calls) - 1
                     /\ \A k \in 1 .. Len(calls) - 1 : calls'[k] = calls[k + 1]
  BY SendQueue
<1>2. /\ width = 4 /\ half = IF done < 3 THEN NoHalf ELSE x \div 16
      /\ done > 0 => pins = lcd_byte(x, m)[done]
      /\ done = 0 => pins.e = 0
  <2>1. done = 0 => pins.e = 0
    BY <1>1 DEF SyncInv, OnBus, Synced
  <2> QED
    BY <2>1 DEF SyncInv, OnBus, Halves
<1> HIDE DEF x, m
<1>3. /\ pins' = lcd_byte(x, m)[done + 1]
      /\ done < 5 => /\ UNCHANGED <<width, addr, ram>>
                     /\ half' = IF done + 1 < 3 THEN NoHalf ELSE x \div 16
      /\ done = 5 => /\ half' = NoHalf /\ pins'.e = 0
                     /\ IF m = LCD_CHR THEN Character(x) ELSE Command(x)
  BY <1>1, <1>2, SyncedWrite
<1>4. done = 5 => width' = 4
  <2> SUFFICES ASSUME done = 5 PROVE width' = 4
    OBVIOUS
  <2>1. CASE m = LCD_CHR
    BY <1>2, <1>3, <2>1 DEF Character
  <2>2. CASE m # LCD_CHR
    <3>1. x \notin 48 .. 63
      <4>1. CASE ready
        <5>1. Mild(calls[1])
          BY <1>1, <4>1 DEF SyncInv, InOrder
        <5> QED
          BY <1>1, <2>2, <5>1 DEF Mild, x, m
      <4>2. CASE ~ready
        <5>1. Len(calls) \in 1 .. 4
          BY <1>1, <4>2 DEF Synced
        <5>5. \A n \in 1 .. 6 : Len(calls) = n => calls[1] = lcd_init[7 - n]
          BY <4>2, FirstInOrder DEF SyncInv
        <5>2. /\ Len(calls) = 1 => calls[1] = lcd_init[6]
              /\ Len(calls) = 2 => calls[1] = lcd_init[5]
              /\ Len(calls) = 3 => calls[1] = lcd_init[4]
              /\ Len(calls) = 4 => calls[1] = lcd_init[3]
          BY <5>5
        <5>3. \/ Len(calls) = 1 \/ Len(calls) = 2 \/ Len(calls) = 3 \/ Len(calls) = 4
          BY <5>1
        <5>4. x \in {1, 40, 12, 6}
          BY <1>1, <5>2, <5>3, InitBytes, SMTT(30) DEF x
        <5> QED
          BY <5>4
      <4> QED
        BY <4>1, <4>2
    <3> QED
      BY <1>1, <1>2, <1>3, <2>2, <3>1 DEF Command
  <2> QED
    BY <2>1, <2>2
<1>5. InOrder' /\ Synced'
  <2>1. CASE done < 5
    BY <1>1, <2>1 DEF SyncInv, InOrder, Synced
  <2>2. CASE done = 5
    <3>1. Synced' /\ (calls' = <<>> => done' = 0)
      BY <1>1, <2>2 DEF Synced
    <3>2. ~ready => /\ Len(calls') <= 6
                    /\ \A n \in 1 .. 6 : Len(calls') = n =>
                         \A k \in 1 .. n : calls'[k] = lcd_init[6 - n + k]
      BY <1>1, <2>2, TailInOrder DEF SyncInv, InOrder
    <3>3. ready => \A k \in 1 .. Len(calls') : Mild(calls'[k])
      BY <1>1, <2>2 DEF SyncInv, InOrder
    <3>4. \A k \in 1 .. Len(calls') : Mild(calls'[k]) => Mild(calls[k])'
      BY DEF Mild
    <3> QED
      BY <1>1, <3>1, <3>2, <3>3, <3>4 DEF InOrder
  <2> QED
    BY <1>1, <2>1, <2>2
<1>6. OnBus'
  <2>1. CASE done < 5
    BY <1>1, <1>3, <2>1 DEF OnBus, x, m
  <2>2. CASE done = 5
    BY <1>1, <1>3, <2>2 DEF OnBus
  <2> QED
    BY <1>1, <2>1, <2>2
<1>7. Halves'
  <2>1. CASE done < 5
    <3>1. /\ width' = 4 /\ done' = done + 1 /\ Head(calls')[1] = x
          /\ half' = IF done + 1 < 3 THEN NoHalf ELSE x \div 16
      BY <1>1, <1>2, <1>3, <2>1 DEF x
    <3>2. ready' \/ ~(Len(calls') \in {5, 6})
      BY <1>5 DEF Synced
    <3> QED
      BY <3>1, <3>2 DEF Halves
  <2>2. CASE done = 5
    <3>1. width' = 4 /\ done' = 0 /\ half' = NoHalf
      BY <1>1, <1>3, <1>4, <2>2
    <3>2. ready' \/ ~(Len(calls') \in {5, 6})
      BY <1>5 DEF Synced
    <3> QED
      BY <3>1, <3>2 DEF Halves
  <2> QED
    BY <1>1, <2>1, <2>2
<1> QED
  BY <1>1, <1>3, <1>5, <1>6, <1>7 DEF SyncInv, x, m

\* The first two bytes of lcd_init bring it into step.
LEMMA SearchingSend ==
  ASSUME TypeInv, SyncInv, ~Synced, NEW w \in Writers, Send(w)
  PROVE  SyncInv'
<1>1. /\ calls \in Seq(Calls) /\ calls # <<>> /\ done \in 0 .. 5 /\ Len(calls) \in Nat \ {0}
      /\ Head(calls) = calls[1]
      /\ BusWrite(lcd_byte(Head(calls)[1], Head(calls)[2])[done + 1])
      /\ Alone' /\ ready' = ready
      /\ done < 5 => done' = done + 1 /\ calls' = calls
      /\ done = 5 => /\ done' = 0 /\ calls' = Tail(calls) /\ Len(calls') = Len(calls) - 1
                     /\ \A k \in 1 .. Len(calls) - 1 : calls'[k] = calls[k + 1]
  BY SendQueue
<1>2. /\ ~ready /\ Len(calls) \in {5, 6} /\ LcdTypeOK /\ (width = 8 => half = NoHalf)
  <2>1. Len(calls) <= 6 /\ Len(calls) \in Nat /\ ~(Len(calls) <= 4) /\ ~ready
    BY <1>1 DEF Synced, SyncInv, InOrder
  <2>2. Len(calls) \in {5, 6}
    <3>1. PICK K \in Nat : K = Len(calls)
      BY <2>1, Zenon
    <3>2. K <= 6 /\ ~(K <= 4)
      BY <2>1, <3>1, Zenon
    <3>3. K = 5 \/ K = 6
      BY <3>2
    <3> QED
      BY <3>1, <3>3
  <2>3. LcdTypeOK /\ (width = 8 => half = NoHalf)
    BY DEF SyncInv, Halves, TypeInv, DisplayTypeOK
  <2> QED
    BY <2>1, <2>2, <2>3
<1> DEFINE x == IF Len(calls) = 6 THEN 51 ELSE 50
           v == Pins(HalfOf(x, done), LCD_CMD, EnableOf(LCD_CMD, done))
<1>3. Head(calls) = <<x, LCD_CMD>>
  <2>1. /\ Len(calls) = 6 => calls[1] = lcd_init[1]
        /\ Len(calls) = 5 => calls[1] = lcd_init[2]
    <3>1. \A n \in 1 .. 6 : Len(calls) = n => calls[1] = lcd_init[7 - n]
      BY <1>2, FirstInOrder DEF SyncInv
    <3> QED
      BY <3>1
  <2> QED
    BY <1>1, <1>2, <2>1, InitBytes
<1>4. BusWrite(v) /\ v = lcd_byte(x, LCD_CMD)[done + 1] /\ pins' = v
  <2>1. v = lcd_byte(x, LCD_CMD)[done + 1]
    BY <1>1, PinsOf
  <2> QED
    BY <1>1, <1>3, <2>1 DEF BusWrite
<1>5. done > 0 => pins = Pins(HalfOf(x, done - 1), LCD_CMD, EnableOf(LCD_CMD, done - 1))
  <2> SUFFICES ASSUME done > 0
               PROVE  pins = Pins(HalfOf(x, done - 1), LCD_CMD, EnableOf(LCD_CMD, done - 1))
    OBVIOUS
  <2>1. done - 1 \in 0 .. 5 /\ (done - 1) + 1 = done
    BY <1>1
  <2>2. pins = lcd_byte(x, LCD_CMD)[done]
    BY <1>3 DEF SyncInv, OnBus
  <2> QED
    BY <2>1, <2>2, PinsOf
<1>6. HalfOf(x, 2) = 3 /\ HalfOf(x, 1) = 3 /\ HalfOf(x, 4) = HalfOf(x, 5)
      /\ HalfOf(x, 5) = IF Len(calls) = 6 THEN 3 ELSE 2
  BY <1>2 DEF HalfOf
<1>7. /\ EnableOf(LCD_CMD, 0) = 0 /\ EnableOf(LCD_CMD, 1) = 1 /\ EnableOf(LCD_CMD, 2) = 0
      /\ EnableOf(LCD_CMD, 3) = 0 /\ EnableOf(LCD_CMD, 4) = 1 /\ EnableOf(LCD_CMD, 5) = 0
  BY DEF EnableOf, LCD_CMD
<1> HIDE DEF x
<1>8. InOrder'
  <2>1. CASE done < 5
    BY <1>1, <1>2, <2>1 DEF SyncInv, InOrder
  <2>2. CASE done = 5
    <3>1. /\ Len(calls') <= 6 /\ ~ready' /\ done' = 0
          /\ \A n \in 1 .. 6 : Len(calls') = n =>
               \A k \in 1 .. n : calls'[k] = lcd_init[6 - n + k]
      BY <1>1, <1>2, <2>2, TailInOrder DEF SyncInv
    <3> QED
      BY <3>1 DEF InOrder
  <2> QED
    BY <1>1, <2>1, <2>2
<1>9. OnBus'
  <2>1. CASE done < 5
    BY <1>1, <1>3, <1>4, <2>1 DEF OnBus
  <2>2. CASE done = 5
    <3>1. pins'.e = 0
      BY <1>4, <1>7, <2>2 DEF Pins
    <3> QED
      BY <1>1, <2>2, <3>1 DEF OnBus
  <2> QED
    BY <1>1, <2>1, <2>2
<1>10. width' = 8 => half' = NoHalf
  <2>1. v \in [data : Nibbles, rs : {0, 1}, e : {0, 1}]
    <3>1. Head(calls) \in Calls
      BY <1>1, HeadTailProperties
    <3> QED
      BY <1>1, <1>3, <1>4, <3>1, PinsType
  <2> QED
    BY <1>2, <1>4, <2>1, BusType
<1>11. CASE done \in {1, 3, 4} \/ (done = 0 /\ Len(calls) = 5)
  <2>1. UNCHANGED controller
    <3>1. v.e = EnableOf(LCD_CMD, done)
      BY DEF Pins
    <3>2. done \in {0, 3} => v.e = 0 /\ pins.e = 0
      <4>1. CASE done = 3
        BY <1>5, <1>7, <3>1, <4>1 DEF Pins
      <4>2. CASE done = 0 /\ Len(calls) = 5
        BY <1>7, <3>1, <4>2 DEF SyncInv, OnBus
      <4> QED
        BY <1>11, <4>1, <4>2
    <3>3. done \in {1, 4} => v.e = 1
      BY <1>7, <3>1
    <3> QED
      BY <1>4, <1>11, <3>2, <3>3 DEF BusWrite
  <2>2. /\ calls' = calls /\ done' = done + 1 /\ half' = half /\ width' = width
    BY <1>1, <1>11, <2>1 DEF controller
  <2>3. Halves'
    BY <1>1, <1>2, <1>11, <2>2 DEF SyncInv, Halves, Synced
  <2> QED
    BY <1>1, <1>8, <1>9, <2>3 DEF SyncInv
<1>12. CASE done = 0 /\ Len(calls) = 6
  <2>1. Halves'
    <3>1. ~ready' /\ Len(calls') = 6 /\ done' = 1
      BY <1>1, <1>2, <1>12
    <3> QED
      BY <1>10, <3>1 DEF Halves, Synced
  <2> QED
    BY <1>1, <1>8, <1>9, <2>1 DEF SyncInv
<1>13. CASE done \in {2, 5}
  <2> DEFINE n == HalfOf(x, done)
  <2>1. /\ n \in {2, 3} /\ v = Pins(n, LCD_CMD, 0) /\ pins = Pins(n, LCD_CMD, 1)
        /\ n = IF done = 5 /\ Len(calls) = 5 THEN 2 ELSE 3
    <3>1. CASE done = 2
      BY <1>2, <1>5, <1>6, <1>7, <3>1
    <3>2. CASE done = 5
      <4>1. done - 1 = 4 /\ done > 0
        BY <3>2
      <4> QED
        BY <1>2, <1>5, <1>6, <1>7, <3>2, <4>1
    <3> QED
      BY <1>13, <3>1, <3>2
  <2> HIDE DEF n
  <2>2. /\ half' \in {n, NoHalf}
        /\ width = 8 => half' = NoHalf /\ width' = IF n = 3 THEN 8 ELSE 4
        /\ width = 4 /\ half = NoHalf => half' = n /\ width' = 4
        /\ half = 3 /\ n = 3 => half' = NoHalf /\ width' = 8
    BY <1>2, <1>4, <2>1, NibbleTaken
  <2>3. CASE done = 2
    BY <1>1, <1>2, <1>8, <1>9, <1>10, <2>1, <2>2, <2>3 DEF SyncInv, Halves, Synced
  <2>4. CASE done = 5 /\ Len(calls) = 6
    <3>1. half \in {3, NoHalf} /\ width \in {4, 8} /\ n = 3
      BY <1>2, <2>1, <2>4 DEF SyncInv, Halves, LcdTypeOK
    <3>2. width' = 8 \/ half' = 3
      BY <2>2, <3>1
    <3>3. Halves'
      BY <1>1, <1>2, <1>10, <2>4, <3>2 DEF Halves, Synced
    <3> QED
      BY <1>1, <1>8, <1>9, <3>3 DEF SyncInv
  <2>5. CASE done = 5 /\ Len(calls) = 5
    <3>1. width = 8 /\ n = 2
      BY <1>2, <2>1, <2>5 DEF SyncInv, Halves
    <3>2. width' = 4 /\ half' = NoHalf
      BY <2>2, <3>1
    <3>3. Halves'
      <4>1. ~ready' /\ Len(calls') = 4 /\ done' = 0
        BY <1>1, <1>2, <2>5
      <4> QED
        BY <3>2, <4>1 DEF Halves, Synced
    <3> QED
      BY <1>1, <1>8, <1>9, <3>3 DEF SyncInv
  <2> QED
    BY <1>2, <1>13, <2>3, <2>4, <2>5
<1> QED
  BY <1>1, <1>2, <1>11, <1>12, <1>13

\* What is printed: the move to the line, and a call for each character.
LEMMA PrintCalls ==
  ASSUME TypeInv, NEW l \in 1 .. 2, NEW c \in 0 .. Columns - 1,
         NEW m \in {LCD_CMD, LCD_CHR, EarlyCommand},
         NEW s \in Seq(0 .. 255), PrintLine("main", m, l, c, s)
  PROVE  /\ calls' \in Seq(Calls) /\ Len(calls') = Len(s) + 1
         /\ calls'[1][1] = 128 + LineStart[l] + c /\ calls'[1][2] = m
         /\ \A k \in 1 .. Len(s) : calls'[k + 1][1] = s[k] /\ calls'[k + 1][2] = LCD_CHR
         /\ \A w \in Writers : w # "main" => queue'[w] = queue[w]
<1> DEFINE to == << <<128 + LineStart[l] + c, m>> >>
           text == [n \in DOMAIN s |-> <<s[n], LCD_CHR>>]
<1>1. /\ to \in Seq(Calls) /\ Len(to) = 1 /\ to[1] = <<128 + LineStart[l] + c, m>>
  <2>1. Columns \in 1 .. 20 /\ c \in 0 .. 19
    BY LcdAssumption DEF LcdAssumption
  <2>2. PICK a \in {0, 64} : a = LineStart[l]
    BY DEF LineStart
  <2>3. 128 + a + c \in 0 .. 255
    BY <2>1
  <2>4. <<128 + LineStart[l] + c, m>> \in Calls
    BY <2>2, <2>3 DEF Calls
  <2> QED
    BY <2>4
<1>2. /\ text \in Seq(Calls) /\ Len(text) = Len(s)
      /\ \A k \in 1 .. Len(s) : text[k] = <<s[k], LCD_CHR>>
  BY SMTT(30) DEF Calls
<1>3. calls' = to \o text /\ \A w \in Writers : w # "main" => queue'[w] = queue[w]
  <2>1. queue \in [Writers -> Seq(Calls)] /\ "main" \in Writers
    BY DEF TypeInv, Writers
  <2> QED
    BY <2>1 DEF PrintLine, calls
<1> HIDE DEF to, text
<1>4. /\ to \o text \in Seq(Calls) /\ Len(to \o text) = 1 + Len(s)
      /\ \A k \in 1 .. 1 + Len(s) :
           (to \o text)[k] = IF k <= 1 THEN to[k] ELSE text[k - 1]
  <2>1. /\ to \o text \in Seq(Calls) /\ Len(to \o text) = Len(to) + Len(text)
        /\ \A k \in 1 .. Len(to) + Len(text) :
             (to \o text)[k] = IF k <= Len(to) THEN to[k] ELSE text[k - Len(to)]
    <3>1. to \in Seq(Calls) /\ text \in Seq(Calls)
      BY <1>1, <1>2
    <3> QED
      BY <3>1, ConcatProperties, ZenonT(30)
  <2> QED
    BY <1>1, <1>2, <2>1
<1>5. Len(s) \in Nat
  BY LenProperties
<1>6. (to \o text)[1] = to[1]
  BY <1>4, <1>5
<1>7. ASSUME NEW k \in 1 .. Len(s) PROVE (to \o text)[k + 1] = <<s[k], LCD_CHR>>
  <2>1. k + 1 \in 1 .. 1 + Len(s) /\ ~(k + 1 <= 1) /\ k + 1 - 1 = k
    BY <1>5
  <2> QED
    BY <1>2, <1>4, <2>1
<1>8. Len(calls') = Len(s) + 1 /\ calls' \in Seq(Calls)
  BY <1>3, <1>4, <1>5
<1>9. calls'[1][1] = 128 + LineStart[l] + c /\ calls'[1][2] = m
  BY <1>1, <1>3, <1>6
<1>10. \A k \in 1 .. Len(s) : calls'[k + 1][1] = s[k] /\ calls'[k + 1][2] = LCD_CHR
  <2> SUFFICES ASSUME NEW k \in 1 .. Len(s)
               PROVE  calls'[k + 1][1] = s[k] /\ calls'[k + 1][2] = LCD_CHR
    OBVIOUS
  <2>1. calls'[k + 1] = <<s[k], LCD_CHR>>
    BY <1>3, <1>7, Zenon
  <2> QED
    BY <2>1
<1> QED
  BY <1>3, <1>8, <1>9, <1>10

\* An LCD at rest stays in step when new calls are queued, or none.
LEMMA IdleSync ==
  ASSUME TypeInv, SyncInv, calls = <<>>, ready', UNCHANGED <<lcdVars, program, step>>,
         \A w \in Writers : w # "main" => queue'[w] = queue[w],
         calls' \in Seq(Calls), \A k \in 1 .. Len(calls') : Mild(calls'[k])
  PROVE  SyncInv'
<1>1. /\ done = 0 /\ Synced /\ pins.e = 0 /\ width = 4 /\ half = NoHalf
  <2>1. done = 0
    BY DEF SyncInv, InOrder
  <2>2. Synced /\ Len(calls) < 6
    BY DEF Synced
  <2> QED
    BY <2>1, <2>2 DEF SyncInv, OnBus, Halves
<1>2. /\ done' = 0 /\ pins'.e = 0 /\ width' = 4 /\ half' = NoHalf
  BY <1>1 DEF done, lcdVars, controller
<1>3. Alone'
  BY DEF SyncInv, Alone, Writers
<1>4. InOrder'
  <2>1. \A k \in 1 .. Len(calls') : Mild(calls[k])'
    BY DEF Mild
  <2> QED
    BY <1>2, <2>1 DEF InOrder
<1>5. OnBus' /\ Halves'
  BY <1>2 DEF OnBus, Halves
<1> QED
  BY <1>3, <1>4, <1>5 DEF SyncInv

\* What the programs print has no byte among its commands that changes the mode.
LEMMA PrintSync ==
  ASSUME TypeInv, SyncInv, calls = <<>>, ready, UNCHANGED <<lcdVars, program, ready, step>>,
         NEW l \in 1 .. 2, NEW c \in 0 .. Columns - 1, NEW m \in {LCD_CMD, EarlyCommand},
         NEW s \in Seq(0 .. 255), PrintLine("main", m, l, c, s)
  PROVE  SyncInv'
<1>1. /\ calls' \in Seq(Calls) /\ Len(calls') = Len(s) + 1
      /\ calls'[1][1] = 128 + LineStart[l] + c
      /\ \A k \in 1 .. Len(s) : calls'[k + 1][2] = LCD_CHR
      /\ \A w \in Writers : w # "main" => queue'[w] = queue[w]
  BY PrintCalls
<1>2. ASSUME NEW k \in 1 .. Len(calls') PROVE Mild(calls'[k])
  <2>1. CASE k = 1
    <3>1. PICK a \in {0, 64} : a = LineStart[l]
      BY DEF LineStart
    <3>2. 128 + a + c \notin 48 .. 63
      <4>1. c \in Int /\ c >= 0
        BY LcdAssumption DEF LcdAssumption
      <4> QED
        BY <4>1
    <3> QED
      <4>1. calls'[k][1] = 128 + a + c
        BY <1>1, <2>1, <3>1, ZenonT(30)
      <4> QED
        BY <3>2, <4>1, ZenonT(30) DEF Mild
  <2>2. CASE k # 1
    <3>1. k - 1 \in 1 .. Len(s) /\ (k - 1) + 1 = k
      <4>1. Len(s) \in Nat
        BY LenProperties
      <4> QED
        BY <1>1, <2>2, <4>1
    <3>2. calls'[k][2] = LCD_CHR
      BY <1>1, <3>1, ZenonT(30)
    <3> QED
      BY <3>2 DEF Mild
  <2> QED
    BY <2>1, <2>2
<1>3. \A k \in 1 .. Len(calls') : Mild(calls'[k])
  BY <1>2
<1> QED
  BY <1>1, <1>3, IdleSync

\* Nothing happens to the LCD and what is queued for it.
LEMMA SyncSame ==
  ASSUME SyncInv, UNCHANGED <<lcdVars, program, ready, queue, step>> PROVE SyncInv'
<1>1. UNCHANGED <<pins, width, half, calls, done>>
  BY DEF lcdVars, controller, calls, done
<1>2. Alone' /\ OnBus'
  BY <1>1 DEF SyncInv, Alone, OnBus
<1>3. InOrder'
  BY <1>1 DEF SyncInv, InOrder, Mild
<1>4. Halves'
  BY <1>1 DEF SyncInv, Halves, Synced
<1> QED
  BY <1>2, <1>3, <1>4 DEF SyncInv

\* Only main has a turn.
LEMMA MainsTurn ==
  ASSUME SyncInv, NEW w \in Writers, NEW l \in 1 .. 2, Turn(w, l)
  PROVE  w = "main" /\ calls = <<>> /\ ready
BY DEF SyncInv, Alone, Turn, calls

\* The operations that print, as one of the driver's or one of the loop's.
LEMMA OperationSync ==
  ASSUME TypeInv, SyncInv,
         \/ Initialised \/ lcd_clear \/ lcd_print_at
         \/ \E w \in Writers : DisplayTime(w) \/ ReadSensor(w) \/ DisplayReading(w)
  PROVE  SyncInv'
<1>1. /\ Offsets \subseteq 0 .. Columns - 1 /\ \A s \in Times : s \in Seq(0 .. 255)
      /\ 0 \in 0 .. Columns - 1 /\ 1 \in 1 .. 2 /\ 2 \in 1 .. 2
      /\ LCD_CMD \in {LCD_CMD, EarlyCommand}
  BY LcdAssumption, DisplayAssumption DEF LcdAssumption, DisplayAssumption
<1>2. CASE Initialised
  <2>1. calls = <<>> /\ queue' = queue /\ ready' /\ UNCHANGED <<lcdVars, program, step>>
    BY <1>2 DEF Initialised, calls, Writers
  <2>2. calls' = <<>>
    BY <2>1 DEF calls
  <2>3. calls' \in Seq(Calls) /\ \A k \in 1 .. Len(calls') : Mild(calls'[k])
    BY <2>2
  <2> QED
    BY <2>1, <2>3, IdleSync
<1>3. CASE lcd_clear
  <2>1. calls = <<>> /\ ready' /\ UNCHANGED <<lcdVars, program, step>>
    BY <1>3 DEF lcd_clear, Driver, calls
  <2>2. calls' = << <<1, LCD_CMD>>, <<2, LCD_CMD>> >>
    BY <1>3 DEF lcd_clear, calls, TypeInv, Writers
  <2>3. \A w \in Writers : w # "main" => queue'[w] = queue[w]
    BY <1>3 DEF lcd_clear, TypeInv
  <2>4. calls' \in Seq(Calls) /\ \A k \in 1 .. Len(calls') : Mild(calls'[k])
    <3>1. <<1, LCD_CMD>> \in Calls /\ <<2, LCD_CMD>> \in Calls
      BY DEF Calls
    <3>2. calls' \in Seq(Calls) /\ Len(calls') = 2
      BY <2>2, <3>1
    <3>3. Mild(<<1, LCD_CMD>>) /\ Mild(<<2, LCD_CMD>>)
      BY DEF Mild
    <3> QED
      BY <2>2, <3>2, <3>3
  <2> QED
    BY <2>1, <2>3, <2>4, IdleSync
<1>4. CASE lcd_print_at
  <2>1. PICK l \in 1 .. 2, c \in Offsets, s \in Times : PrintLine("main", LCD_CMD, l, c, s)
    BY <1>4 DEF lcd_print_at
  <2>2. calls = <<>> /\ ready /\ UNCHANGED <<lcdVars, program, ready, step>>
    BY <1>4 DEF lcd_print_at, Driver, calls
  <2> QED
    BY <1>1, <2>1, <2>2, PrintSync
<1>5. ASSUME NEW w \in Writers, DisplayTime(w) PROVE SyncInv'
  <2>1. w = "main" /\ calls = <<>> /\ ready
    BY <1>1, <1>5, MainsTurn DEF DisplayTime
  <2>2. PICK s \in Times, m \in {LCD_CMD, EarlyCommand} : PrintLine("main", m, 1, 0, s)
    BY <1>5, <2>1 DEF DisplayTime
  <2>3. UNCHANGED <<lcdVars, program, ready, step>>
    BY <1>5 DEF DisplayTime, Advance
  <2> QED
    BY <1>1, <2>1, <2>2, <2>3, PrintSync
<1>6. ASSUME NEW w \in Writers, ReadSensor(w) PROVE SyncInv'
  BY <1>6, SyncSame DEF ReadSensor, display
<1>7. ASSUME NEW w \in Writers, DisplayReading(w) PROVE SyncInv'
  <2>1. w = "main" /\ calls = <<>> /\ ready
    BY <1>1, <1>7, MainsTurn DEF DisplayReading
  <2>2. UNCHANGED <<lcdVars, program, ready, step>>
    BY <1>7 DEF DisplayReading, Advance
  <2>3. CASE PrintLine(w, LCD_CMD, 2, 0, Text(Reading))
    <3>1. Text(Reading) \in Seq(0 .. 255)
      BY TextType DEF TypeInv, DhtInv
    <3> QED
      BY <1>1, <2>1, <2>2, <2>3, <3>1, PrintSync
  <2>4. CASE UNCHANGED queue
    BY <2>2, <2>4, SyncSame
  <2> QED
    BY <1>7, <2>3, <2>4 DEF DisplayReading
<1> QED
  BY <1>2, <1>3, <1>4, <1>5, <1>6, <1>7

\* No step breaks it.
LEMMA NextKeepsSyncInv == TypeInv /\ SyncInv /\ [Next]_vars => SyncInv'
<1>1. ASSUME SyncInv, UNCHANGED vars PROVE SyncInv'
  BY <1>1, SyncSame DEF vars, display
<1> QED
  BY <1>1, SyncedSend, SearchingSend, OperationSync DEF Next

\* It holds in every reachable state.
LEMMA SyncInvAlways == ASSUME "threads" \notin Programs PROVE Spec => []SyncInv
BY InitSyncInv, NextKeepsSyncInv, TypeInvAlways, PTL DEF Spec

\* One writer at a time: lcd_init brings the LCD into step whatever it finds,
\* and no command or text takes it out again.
THEOREM LcdInStep == ASSUME "threads" \notin Programs PROVE Spec => []InStep
<1>1. SyncInv /\ TypeInv => InStep
  <2> SUFFICES ASSUME SyncInv, ready, step = [w \in Writers |-> 0]
               PROVE  width = 4 /\ half = NoHalf /\ pins.e = 0
    BY DEF InStep
  <2>1. done = 0
    BY DEF done, Writers
  <2> QED
    BY <2>1 DEF SyncInv, OnBus, Halves, Synced
<1> QED
  BY <1>1, TypeInvAlways, SyncInvAlways, PTL

-----------------------------------------------------------------------------
(* Texts and lines                                                         *)

\* Line l looks as it should once the calls after the first o have written
\* their characters to it from column c on; and as it should already.
ShownAs(l, c, o) ==
  \A n \in 1 .. Columns :
    shown[l][n] = IF n - c \in 1 .. Len(calls) - o THEN calls[n - c + o][1]
                                                   ELSE ram[LineStart[l] + n - 1]
Drawn(l) == \A n \in 1 .. Columns : shown[l][n] = ram[LineStart[l] + n - 1]

\* The calls after the first o are characters.
Chars(o) == \A k \in 1 .. Len(calls) : k > o => calls[k][2] = LCD_CHR

\* The command that empties both lines is still to come.
Clearing ==
  /\ shown = <<NoText, NoText>>
  /\ \/ ~ready /\ calls # <<>>
     \/ ready /\ calls = << <<1, LCD_CMD>>, <<2, LCD_CMD>> >>

\* No text is on its way.
Still ==
  /\ Drawn(1) /\ Drawn(2)
  /\ calls = <<>> \/ (ready /\ calls = << <<2, LCD_CMD>> >>)

\* A text for line l, before and after the move to its column.
Moving(l, c) ==
  /\ c < Columns /\ calls # <<>> /\ ready
  /\ calls[1][1] = 128 + LineStart[l] + c /\ calls[1][2] # LCD_CHR
  /\ Chars(1) /\ ShownAs(l, c, 1)
Printing(l, c) ==
  /\ ready /\ addr = IF c < Columns THEN LineStart[l] + c ELSE Elsewhere
  /\ Chars(0) /\ ShownAs(l, c, 0)

Rows ==
  \/ Clearing \/ Still
  \/ \E l \in 1 .. 2, c \in Nat : Drawn(3 - l) /\ (Moving(l, c) \/ Printing(l, c))

\* The cells of the two lines.
LEMMA CellsOf ==
  /\ LineStart[1] = 0 /\ LineStart[2] = 64
  /\ \A a : a \in Cells <=> a \in 0 .. Columns - 1 \/ a \in 64 .. 64 + Columns - 1
  /\ \A l \in 1 .. 2, n \in 1 .. Columns : LineStart[l] + n - 1 \in Cells
<1>1. LineStart[1] = 0 /\ LineStart[2] = 64 /\ Columns \in 1 .. 20
  BY LcdAssumption DEF LineStart, LcdAssumption
<1>2. Cells = (0 .. Columns - 1) \cup (64 .. 64 + Columns - 1)
  <2>1. 1 .. 2 = {1, 2}
    OBVIOUS
  <2>2. ASSUME NEW a
        PROVE  a \in Cells <=> \/ a \in LineStart[1] .. LineStart[1] + Columns - 1
                              \/ a \in LineStart[2] .. LineStart[2] + Columns - 1
    BY <2>1, Zenon DEF Cells
  <2>3. /\ LineStart[1] .. LineStart[1] + Columns - 1 = 0 .. Columns - 1
        /\ LineStart[2] .. LineStart[2] + Columns - 1 = 64 .. 64 + Columns - 1
    BY <1>1
  <2> QED
    BY <2>2, <2>3, Zenon
<1>3. ASSUME NEW l \in 1 .. 2, NEW n \in 1 .. Columns PROVE LineStart[l] + n - 1 \in Cells
  <2>1. l = 1 \/ l = 2
    OBVIOUS
  <2> QED
    BY <1>1, <1>2, <2>1
<1> QED
  BY <1>1, <1>2, <1>3

\* When nothing is on its way both lines look as they should.
LEMMA RowsAtRest == ASSUME Rows, calls = <<>> PROVE Drawn(1) /\ Drawn(2)
<1>1. ~Clearing
  BY DEF Clearing
<1>2. CASE Still
  BY <1>2 DEF Still
<1>3. ASSUME NEW l \in 1 .. 2, NEW c \in Nat, Drawn(3 - l), Moving(l, c) \/ Printing(l, c)
      PROVE  Drawn(1) /\ Drawn(2)
  <2>1. Printing(l, c)
    BY <1>3 DEF Moving
  <2>2. Drawn(l)
    <3>1. \A n \in 1 .. Columns : ~(n - c \in 1 .. Len(calls) - 0)
      <4>1. Len(calls) - 0 = 0
        OBVIOUS
      <4> QED
        BY <4>1
    <3> QED
      BY <2>1, <3>1 DEF Printing, ShownAs, Drawn
  <2>3. (l = 1 /\ 3 - l = 2) \/ (l = 2 /\ 3 - l = 1)
    OBVIOUS
  <2> QED
    BY <1>3, <2>2, <2>3
<1> QED
  BY <1>1, <1>2, <1>3 DEF Rows

\* The text that is printed, once it gets there.
LEMMA PrintRows ==
  ASSUME TypeInv, Drawn(1), Drawn(2), ready', UNCHANGED lcdVars,
         NEW l \in 1 .. 2, NEW c \in 0 .. Columns - 1, NEW m \in {LCD_CMD, EarlyCommand},
         NEW s \in Seq(0 .. 255), PrintLine("main", m, l, c, s)
  PROVE  Rows'
<1>1. /\ calls' \in Seq(Calls) /\ Len(calls') = Len(s) + 1
      /\ calls'[1][1] = 128 + LineStart[l] + c /\ calls'[1][2] = m
      /\ \A k \in 1 .. Len(s) : calls'[k + 1][1] = s[k] /\ calls'[k + 1][2] = LCD_CHR
  BY PrintCalls
<1>2. \A k \in 1 .. 2 : shown'[k] = IF k = l THEN Over(shown[l], c, s) ELSE shown[k]
  BY PrintType, SMTT(30) DEF Writers
<1>3. ram' = ram /\ Len(s) \in Nat /\ c \in Nat /\ c < Columns /\ DOMAIN s = 1 .. Len(s)
      /\ m # LCD_CHR
  <2>1. ram' = ram
    BY DEF lcdVars, controller
  <2>2. c \in Nat /\ c < Columns
    BY LcdAssumption DEF LcdAssumption
  <2>3. m # LCD_CHR
    BY DEF LCD_CMD, LCD_CHR, EarlyCommand
  <2> QED
    BY <2>1, <2>2, <2>3, LenProperties
<1>4. Drawn(3 - l)'
  <2>1. 3 - l \in 1 .. 2 /\ 3 - l # l /\ Drawn(3 - l)
    <3>1. (l = 1 /\ 3 - l = 2) \/ (l = 2 /\ 3 - l = 1)
      OBVIOUS
    <3> QED
      BY <3>1
  <2>2. shown'[3 - l] = shown[3 - l]
    BY <1>2, <2>1
  <2> QED
    BY <1>3, <2>1, <2>2 DEF Drawn
<1>5. Chars(1)'
  <2>1. ASSUME NEW k \in 1 .. Len(calls'), k > 1 PROVE calls'[k][2] = LCD_CHR
    <3>1. k - 1 \in 1 .. Len(s) /\ (k - 1) + 1 = k
      BY <1>1, <1>3, <2>1
    <3> QED
      BY <1>1, <3>1
  <2> QED
    BY <2>1 DEF Chars
<1>6. ShownAs(l, c, 1)'
  <2>1. Drawn(l)
    <3>1. l = 1 \/ l = 2
      OBVIOUS
    <3> QED
      BY <3>1
  <2>2. ASSUME NEW n \in 1 .. Columns
        PROVE  shown'[l][n] = IF n - c \in 1 .. Len(calls') - 1 THEN calls'[n - c + 1][1]
                                                              ELSE ram'[LineStart[l] + n - 1]
    <3>1. /\ shown'[l][n] = IF n - c \in 1 .. Len(s) THEN s[n - c] ELSE shown[l][n]
          /\ shown[l][n] = ram[LineStart[l] + n - 1] /\ Len(calls') - 1 = Len(s)
      <4>1. shown'[l] = Over(shown[l], c, s)
        BY <1>2
      <4>2. Over(shown[l], c, s)[n] = IF n - c \in 1 .. Len(s) THEN s[n - c] ELSE shown[l][n]
        BY <1>3 DEF Over
      <4>3. shown[l][n] = ram[LineStart[l] + n - 1] /\ Len(calls') - 1 = Len(s)
        BY <1>1, <1>3, <2>1 DEF Drawn
      <4> QED
        BY <4>1, <4>2, <4>3, Zenon
    <3>2. n - c \in 1 .. Len(s) => calls'[n - c + 1][1] = s[n - c]
      BY <1>1
    <3> QED
      BY <1>3, <3>1, <3>2
  <2> QED
    BY <2>2 DEF ShownAs
<1>7. Moving(l, c)'
  <2>1. calls' # <<>>
    BY <1>1, <1>3
  <2> QED
    BY <1>1, <1>3, <1>5, <1>6, <2>1 DEF Moving
<1> QED
  BY <1>3, <1>4, <1>7 DEF Rows

\* At the start lcd_init still has to clear the LCD.
LEMMA InitRows == Init => Rows
<1> SUFFICES ASSUME Init PROVE Rows
  OBVIOUS
<1>1. calls = lcd_init /\ ~ready /\ shown = <<NoText, NoText>>
  BY DEF Init, calls, Writers
<1>2. calls # <<>>
  BY <1>1, InitBytes
<1> QED
  BY <1>1, <1>2 DEF Rows, Clearing

\* Nothing happens to the LCD, to what is queued for it and what it should show.
LEMMA RowsSame ==
  ASSUME Rows, UNCHANGED <<addr, ram, calls, ready, shown>> PROVE Rows'
<1>1. UNCHANGED <<addr, ram, calls, ready, shown>>
  OBVIOUS
<1>2. CASE Clearing
  BY <1>1, <1>2 DEF Clearing, Rows
<1>3. CASE Still
  BY <1>1, <1>3 DEF Still, Drawn, Rows
<1>4. ASSUME NEW l \in 1 .. 2, NEW c \in Nat, Drawn(3 - l), Moving(l, c) \/ Printing(l, c)
      PROVE  Rows'
  <2>1. Drawn(3 - l)'
    BY <1>1, <1>4 DEF Drawn
  <2>2. Moving(l, c) => Moving(l, c)'
    BY <1>1 DEF Moving, Chars, ShownAs
  <2>3. Printing(l, c) => Printing(l, c)'
    BY <1>1 DEF Printing, Chars, ShownAs
  <2> QED
    BY <1>4, <2>1, <2>2, <2>3 DEF Rows
<1> QED
  BY <1>2, <1>3, <1>4 DEF Rows

\* The operations, which queue what the lines should show.
LEMMA OperationRows ==
  ASSUME TypeInv, SyncInv, Rows,
         \/ Initialised \/ lcd_clear \/ lcd_print_at
         \/ \E w \in Writers : DisplayTime(w) \/ ReadSensor(w) \/ DisplayReading(w)
  PROVE  Rows'
<1>1. /\ Offsets \subseteq 0 .. Columns - 1 /\ \A s \in Times : s \in Seq(0 .. 255)
      /\ 0 \in 0 .. Columns - 1 /\ 1 \in 1 .. 2 /\ 2 \in 1 .. 2
      /\ LCD_CMD \in {LCD_CMD, EarlyCommand}
  BY LcdAssumption, DisplayAssumption DEF LcdAssumption, DisplayAssumption
<1>2. CASE Initialised
  <2>1. calls = <<>> /\ calls' = <<>> /\ UNCHANGED <<shown, ram>>
    BY <1>2 DEF Initialised, calls, Writers, lcdVars, controller
  <2>2. Drawn(1) /\ Drawn(2)
    BY <2>1, RowsAtRest
  <2>3. Drawn(1)' /\ Drawn(2)'
    BY <2>1, <2>2 DEF Drawn
  <2> QED
    BY <2>1, <2>3 DEF Rows, Still
<1>3. CASE lcd_clear
  <2>1. ready' /\ shown' = <<NoText, NoText>>
    BY <1>3 DEF lcd_clear, Driver
  <2>2. calls' = << <<1, LCD_CMD>>, <<2, LCD_CMD>> >>
    BY <1>3 DEF lcd_clear, calls, TypeInv, Writers
  <2>3. NoText' = NoText
    BY DEF NoText
  <2> QED
    BY <2>1, <2>2, <2>3 DEF Rows, Clearing
<1>4. CASE lcd_print_at
  <2>1. PICK l \in 1 .. 2, c \in Offsets, s \in Times : PrintLine("main", LCD_CMD, l, c, s)
    BY <1>4 DEF lcd_print_at
  <2>2. calls = <<>> /\ ready' /\ UNCHANGED lcdVars
    BY <1>4 DEF lcd_print_at, Driver, calls
  <2> QED
    BY <1>1, <2>1, <2>2, RowsAtRest, PrintRows
<1>5. ASSUME NEW w \in Writers, DisplayTime(w) PROVE Rows'
  <2>1. w = "main" /\ calls = <<>> /\ ready
    BY <1>1, <1>5, MainsTurn DEF DisplayTime
  <2>2. PICK s \in Times, m \in {LCD_CMD, EarlyCommand} : PrintLine("main", m, 1, 0, s)
    BY <1>5, <2>1 DEF DisplayTime
  <2>3. UNCHANGED lcdVars /\ ready'
    BY <1>5, <2>1 DEF DisplayTime, Advance
  <2> QED
    BY <1>1, <2>1, <2>2, <2>3, RowsAtRest, PrintRows
<1>6. ASSUME NEW w \in Writers, ReadSensor(w) PROVE Rows'
  BY <1>6, RowsSame DEF ReadSensor, display, lcdVars, controller, calls
<1>7. ASSUME NEW w \in Writers, DisplayReading(w) PROVE Rows'
  <2>1. w = "main" /\ calls = <<>> /\ ready
    BY <1>1, <1>7, MainsTurn DEF DisplayReading
  <2>2. UNCHANGED <<lcdVars, ready>> /\ ready'
    BY <1>7, <2>1 DEF DisplayReading, Advance
  <2>3. CASE PrintLine(w, LCD_CMD, 2, 0, Text(Reading))
    <3>1. Text(Reading) \in Seq(0 .. 255)
      BY TextType DEF TypeInv, DhtInv
    <3> QED
      BY <1>1, <2>1, <2>2, <2>3, <3>1, RowsAtRest, PrintRows
  <2>4. CASE UNCHANGED <<queue, shown>>
    BY <2>2, <2>4, RowsSame DEF lcdVars, controller, calls
  <2> QED
    BY <1>7, <2>3, <2>4 DEF DisplayReading
<1> QED
  BY <1>2, <1>3, <1>4, <1>5, <1>6, <1>7

\* The command that empties the lines.
LEMMA ClearedRows ==
  ASSUME shown = <<NoText, NoText>>, shown' = shown, Command(1)
  PROVE  Drawn(1)' /\ Drawn(2)'
<1>1. ram' = [a \in Cells |-> BLANK]
  BY DEF Command
<1>2. ASSUME NEW l \in 1 .. 2, NEW n \in 1 .. Columns
      PROVE  shown'[l][n] = ram'[LineStart[l] + n - 1]
  <2>1. LineStart[l] + n - 1 \in Cells
    BY CellsOf
  <2>2. shown[l] = NoText
    BY BlankType
  <2> QED
    BY <1>1, <2>1, <2>2 DEF NoText
<1> QED
  BY <1>2 DEF Drawn

\* A command that moves to a cell.
LEMMA MovedRows ==
  ASSUME NEW l \in 1 .. 2, NEW c \in Nat, Moving(l, c), Drawn(3 - l),
         Command(128 + LineStart[l] + c), ready' = ready, shown' = shown,
         Len(calls) \in Nat \ {0}, Len(calls') = Len(calls) - 1,
         \A k \in 1 .. Len(calls) - 1 : calls'[k] = calls[k + 1]
  PROVE  Rows'
<1>1. PICK L \in Nat : L = Len(calls')
  <2>1. Len(calls) - 1 \in Nat
    OBVIOUS
  <2> QED
    BY <2>1, Zenon
<1>2. PICK a \in {0, 64} : a = LineStart[l]
  BY DEF LineStart
<1>3. LineStart[l] + c \in Cells /\ c < Columns /\ Columns \in 1 .. 20
  <2>1. c + 1 \in 1 .. Columns /\ LineStart[l] + (c + 1) - 1 = LineStart[l] + c
    BY <1>2, LcdAssumption DEF LcdAssumption, Moving
  <2> QED
    BY <2>1, CellsOf, LcdAssumption DEF LcdAssumption, Moving
<1>4. ram' = ram /\ addr' = LineStart[l] + c
  <2>1. PICK p \in Nat : p = a + c
    OBVIOUS
  <2>2. LineStart[l] + c = p /\ 128 + LineStart[l] + c = 128 + p
    BY <1>2, <2>1
  <2>3. Command(128 + p) /\ p \in Cells
    BY <1>3, <2>2
  <2>4. PICK q \in Nat : q = 128 + p
    OBVIOUS
  <2>5. q >= 128 /\ q - 128 = p /\ q # 1 /\ q \notin 64 .. 127 /\ q \notin 1 .. 3
    BY <2>4
  <2>6. ram' = ram
    BY <2>3, <2>4, <2>5 DEF Command
  <2>7. addr' = At(q - 128)
    BY <2>3, <2>4, <2>5 DEF Command
  <2> QED
    <3>1. At(q - 128) = p
      BY <2>3, <2>5, ZenonT(30) DEF At
    <3> QED
      BY <2>2, <2>6, <2>7, <3>1, ZenonT(30)
<1>5. Drawn(3 - l)'
  BY <1>4 DEF Drawn
<1>6. Chars(0)'
  <2>1. ASSUME NEW k \in 1 .. Len(calls') PROVE calls'[k][2] = LCD_CHR
    <3>1. k + 1 \in 1 .. Len(calls) /\ k + 1 > 1 /\ calls'[k] = calls[k + 1]
      BY <1>1
    <3> QED
      BY <3>1 DEF Moving, Chars
  <2> QED
    BY <2>1 DEF Chars
<1>7. ShownAs(l, c, 0)'
  <2>1. ASSUME NEW n \in 1 .. Columns
        PROVE  shown'[l][n] = IF n - c \in 1 .. Len(calls') - 0 THEN calls'[n - c + 0][1]
                                                              ELSE ram'[LineStart[l] + n - 1]
    <3>1. shown[l][n] = IF n - c \in 1 .. Len(calls) - 1 THEN calls[n - c + 1][1]
                                                         ELSE ram[LineStart[l] + n - 1]
      BY DEF Moving, ShownAs
    <3>2. Len(calls) - 1 = L /\ Len(calls') - 0 = L /\ n - c + 0 = n - c
      BY <1>1
    <3>3. n - c \in 1 .. L => calls'[n - c] = calls[n - c + 1]
      BY <3>2
    <3> QED
      BY <1>4, <3>1, <3>2, <3>3
  <2> QED
    BY <2>1 DEF ShownAs
<1> QED
  BY <1>3, <1>4, <1>5, <1>6, <1>7 DEF Rows, Printing, Moving

\* A character that is written to its cell, or past those looked at.
LEMMA WrittenRows ==
  ASSUME LcdTypeOK, NEW l \in 1 .. 2, NEW c \in Nat, Printing(l, c), Drawn(3 - l),
         Character(calls[1][1]), ready' = ready, shown' = shown,
         Len(calls) \in Nat \ {0}, Len(calls') = Len(calls) - 1,
         \A k \in 1 .. Len(calls) - 1 : calls'[k] = calls[k + 1]
  PROVE  Rows'
<1> DEFINE x == calls[1][1]
<1>1. PICK L \in Nat : L = Len(calls')
  <2>1. Len(calls) - 1 \in Nat
    OBVIOUS
  <2> QED
    BY <2>1, Zenon
<1>2. PICK a \in {0, 64}, b \in {0, 64} :
        a = LineStart[l] /\ b = LineStart[3 - l] /\ a # b
  <2>1. LineStart[1] = 0 /\ LineStart[2] = 64
    BY CellsOf
  <2>2. (l = 1 /\ 3 - l = 2) \/ (l = 2 /\ 3 - l = 1)
    OBVIOUS
  <2> QED
    BY <2>1, <2>2
<1>3. Columns \in 1 .. 20 /\ DOMAIN ram = Cells /\ Elsewhere = -1
  BY LcdAssumption DEF LcdAssumption, LcdTypeOK, Elsewhere
<1>4. /\ c < Columns => /\ a + c \in Cells /\ addr = a + c
                        /\ ram' = [ram EXCEPT ![a + c] = x]
      /\ ~(c < Columns) => addr = Elsewhere /\ ram' = ram /\ addr' = Elsewhere
  <2>1. c < Columns => a + c \in Cells /\ addr = a + c /\ a + c # Elsewhere
    <3> SUFFICES ASSUME c < Columns PROVE a + c \in Cells /\ addr = a + c /\ a + c # Elsewhere
      OBVIOUS
    <3>1. c + 1 \in 1 .. Columns /\ LineStart[l] + (c + 1) - 1 = a + c
      BY <1>2, <1>3
    <3>2. a + c \in Cells
      BY <3>1, CellsOf
    <3>3. addr = a + c /\ a + c # Elsewhere
      BY <1>2, <1>3 DEF Printing
    <3> QED
      BY <3>2, <3>3
  <2>2. Elsewhere \notin Cells
    BY <1>3, CellsOf, SMTT(30)
  <2> QED
    BY <2>1, <2>2 DEF Printing, Character
<1>5. addr' = IF c + 1 < Columns THEN LineStart[l] + (c + 1) ELSE Elsewhere
  <2>1. CASE c < Columns
    <3>1. PICK p \in Nat : p = a + c
      OBVIOUS
    <3>2. addr = p /\ addr # Elsewhere
      BY <1>3, <1>4, <2>1, <3>1
    <3>3. addr' = At(p + 1)
      BY <3>2 DEF Character
    <3>4. p + 1 \in Cells <=> p + 1 \in 0 .. Columns - 1 \/ p + 1 \in 64 .. 64 + Columns - 1
      BY CellsOf, Zenon
    <3>5. p + 1 \in Cells <=> c + 1 < Columns
      BY <1>3, <2>1, <3>1, <3>4
    <3> QED
      BY <1>2, <3>1, <3>3, <3>5, SMTT(30) DEF At
  <2>2. CASE ~(c < Columns)
    BY <1>3, <1>4, <2>2
  <2> QED
    BY <2>1, <2>2
<1>6. Drawn(3 - l)'
  <2>1. ASSUME NEW n \in 1 .. Columns PROVE ram'[b + n - 1] = ram[b + n - 1]
    <3>1. c < Columns => a + c # b + n - 1
      BY <1>2, <1>3
    <3>2. b + n - 1 \in Cells
      BY <1>2, <1>3, CellsOf, SMTT(30)
    <3> QED
      BY <1>3, <1>4, <3>1, <3>2
  <2> QED
    BY <1>2, <2>1 DEF Drawn
<1>7. Chars(0)'
  <2>1. ASSUME NEW k \in 1 .. Len(calls') PROVE calls'[k][2] = LCD_CHR
    <3>1. k + 1 \in 1 .. Len(calls) /\ k + 1 > 0 /\ calls'[k] = calls[k + 1]
      BY <1>1
    <3> QED
      BY <3>1 DEF Printing, Chars
  <2> QED
    BY <2>1 DEF Chars
<1>8. ShownAs(l, c + 1, 0)'
  <2>1. ASSUME NEW n \in 1 .. Columns
        PROVE  shown'[l][n] = IF n - (c + 1) \in 1 .. Len(calls') - 0
                              THEN calls'[n - (c + 1) + 0][1]
                              ELSE ram'[LineStart[l] + n - 1]
    <3>1. shown[l][n] = IF n - c \in 1 .. Len(calls) - 0 THEN calls[n - c + 0][1]
                                                         ELSE ram[LineStart[l] + n - 1]
      BY DEF Printing, ShownAs
    <3>2. Len(calls) - 0 = L + 1 /\ Len(calls') - 0 = L /\ n - c + 0 = n - c
          /\ n - (c + 1) + 0 = n - (c + 1)
      BY <1>1
    <3>3. a + n - 1 \in Cells
      BY <1>2, CellsOf
    <3>4. CASE n - c = 1
      <4>1. ~(n - (c + 1) \in 1 .. L) /\ n - c \in 1 .. L + 1 /\ c < Columns
            /\ a + n - 1 = a + c
        BY <1>3, <3>4
      <4>2. shown[l][n] = x
        BY <3>1, <3>2, <3>4, <4>1
      <4>3. ram'[a + n - 1] = x
        BY <1>3, <1>4, <3>3, <4>1
      <4> QED
        BY <1>2, <3>2, <4>1, <4>2, <4>3
    <3>5. CASE n - c # 1
      <4>1. n - c \in 1 .. L + 1 <=> n - (c + 1) \in 1 .. L
        BY <3>5, SMTT(30)
      <4>2. n - (c + 1) \in 1 .. L => calls'[n - (c + 1)] = calls[n - c]
        <5>1. n - (c + 1) + 1 = n - c /\ Len(calls) - 1 = L
          BY <1>1
        <5> QED
          BY <5>1
      <4>3. ram'[a + n - 1] = ram[a + n - 1]
        BY <1>3, <1>4, <3>3, <3>5
      <4> QED
        BY <1>2, <3>1, <3>2, <4>1, <4>2, <4>3
    <3> QED
      BY <3>4, <3>5
  <2> QED
    BY <2>1 DEF ShownAs
<1>9. c + 1 \in Nat
  OBVIOUS
<1>10. Printing(l, c + 1)'
  BY <1>5, <1>7, <1>8 DEF Printing
<1> QED
  BY <1>6, <1>9, <1>10 DEF Rows

\* A write of a byte, which changes a cell if it ends a character.
LEMMA SendRows ==
  ASSUME TypeInv, SyncInv, Rows, NEW w \in Writers, Send(w) PROVE Rows'
<1>1. /\ calls \in Seq(Calls) /\ calls # <<>> /\ done \in 0 .. 5 /\ Len(calls) \in Nat \ {0}
      /\ UNCHANGED <<ready, shown>>
      /\ done < 5 => calls' = calls
      /\ done = 5 => /\ calls' \in Seq(Calls) /\ Len(calls') = Len(calls) - 1
                     /\ \A k \in 1 .. Len(calls) - 1 : calls'[k] = calls[k + 1]
  BY SendQueue
<1>2. NoText' = NoText
  BY DEF NoText
<1>3. CASE ~Synced
  <2>1. ~ready /\ ~(Len(calls) <= 4)
    BY <1>3 DEF Synced
  <2>2. Clearing
    BY <1>1, <2>1 DEF Rows, Still, Moving, Printing
  <2>3. calls' # <<>>
    <3>1. CASE done < 5
      BY <1>1, <3>1
    <3>2. CASE done = 5
      <4>1. Len(calls') # 0
        BY <1>1, <2>1, <3>2
      <4> QED
        BY <4>1
    <3> QED
      BY <1>1, <3>1, <3>2
  <2> QED
    BY <1>1, <1>2, <2>1, <2>2, <2>3 DEF Rows, Clearing
<1>4. CASE Synced /\ done < 5
  BY <1>1, <1>4, SyncedSend, RowsSame
<1>5. CASE Synced /\ done = 5
  <2>1. IF calls[1][2] = LCD_CHR THEN Character(calls[1][1]) ELSE Command(calls[1][1])
    BY <1>5, SyncedSend
  <2>2. /\ calls' \in Seq(Calls) /\ Len(calls') = Len(calls) - 1
        /\ \A k \in 1 .. Len(calls) - 1 : calls'[k] = calls[k + 1]
    BY <1>1, <1>5
  <2>3. CASE Clearing /\ ~ready /\ Len(calls) = 1
    <3>1. calls[1] = <<1, LCD_CMD>>
      <4>1. \A n \in 1 .. 6 : Len(calls) = n => calls[1] = lcd_init[7 - n]
        BY <2>3, FirstInOrder DEF SyncInv
      <4> QED
        BY <2>3, <4>1, InitBytes
    <3>2. Command(1)
      BY <2>1, <3>1 DEF LCD_CMD, LCD_CHR
    <3>3. calls' = <<>>
      BY <2>2, <2>3, EmptySeq
    <3> QED
      BY <1>1, <2>3, <3>2, <3>3, ClearedRows DEF Rows, Still, Clearing
  <2>4. CASE Clearing /\ ~ready /\ Len(calls) # 1
    <3>1. Len(calls') # 0
      BY <1>1, <2>2, <2>4
    <3>2. calls' # <<>>
      BY <3>1
    <3> QED
      BY <1>1, <1>2, <2>4, <3>2 DEF Rows, Clearing
  <2>5. CASE Clearing /\ ready
    <3>1. calls = << <<1, LCD_CMD>>, <<2, LCD_CMD>> >>
      BY <2>5 DEF Clearing
    <3>2. Len(calls) = 2 /\ calls[1] = <<1, LCD_CMD>> /\ calls[2] = <<2, LCD_CMD>>
      BY <3>1
    <3>3. Command(1)
      BY <2>1, <3>2 DEF LCD_CMD, LCD_CHR
    <3>4. calls' = << <<2, LCD_CMD>> >>
      <4> DEFINE rest == << <<2, LCD_CMD>> >>
      <4>1. Len(calls') = 1 /\ calls'[1] = rest[1]
        BY <2>2, <3>2
      <4>2. rest \in Seq(Calls) /\ Len(rest) = 1
        BY DEF Calls
      <4> HIDE DEF rest
      <4>3. Len(calls') = Len(rest) /\ \A k \in 1 .. Len(calls') : calls'[k] = rest[k]
        BY <4>1, <4>2
      <4>4. calls' = rest
        BY <2>2, <4>2, <4>3, SeqEqual
      <4> QED
        BY <4>4 DEF rest
    <3> QED
      BY <1>1, <2>5, <3>3, <3>4, ClearedRows DEF Rows, Still, Clearing
  <2>6. CASE Still
    <3>1. ready /\ calls = << <<2, LCD_CMD>> >>
      BY <1>1, <2>6 DEF Still
    <3>2. Len(calls) = 1 /\ calls[1] = <<2, LCD_CMD>>
      BY <3>1
    <3>3. Command(2)
      BY <2>1, <3>2 DEF LCD_CMD, LCD_CHR
    <3>4. calls' = <<>>
      BY <2>2, <3>2, EmptySeq
    <3>5. ram' = ram
      BY <3>3 DEF Command
    <3> QED
      BY <1>1, <2>6, <3>4, <3>5 DEF Rows, Still, Drawn
  <2>7. ASSUME NEW l \in 1 .. 2, NEW c \in Nat, Drawn(3 - l), Moving(l, c) PROVE Rows'
    <3>1. Command(128 + LineStart[l] + c)
      BY <2>1, <2>7 DEF Moving
    <3> QED
      BY <1>1, <2>2, <2>7, <3>1, MovedRows
  <2>8. ASSUME NEW l \in 1 .. 2, NEW c \in Nat, Drawn(3 - l), Printing(l, c) PROVE Rows'
    <3>1. calls[1][2] = LCD_CHR
      BY <1>1, <2>8 DEF Printing, Chars
    <3>2. Character(calls[1][1]) /\ LcdTypeOK
      BY <2>1, <3>1 DEF TypeInv, DisplayTypeOK
    <3> QED
      BY <1>1, <2>2, <2>8, <3>2, WrittenRows
  <2> QED
    BY <2>3, <2>4, <2>5, <2>6, <2>7, <2>8 DEF Rows, Clearing
<1> QED
  BY <1>1, <1>3, <1>4, <1>5

\* No step breaks it.
LEMMA NextKeepsRows == TypeInv /\ SyncInv /\ Rows /\ [Next]_vars => Rows'
<1>1. ASSUME Rows, UNCHANGED vars PROVE Rows'
  BY <1>1, RowsSame DEF vars, display, lcdVars, controller, calls
<1> QED
  BY <1>1, SendRows, OperationRows DEF Next

\* One writer at a time: whenever nothing is being sent both lines show the text
\* last printed on them, and beside it what it left of the texts before.
THEOREM LinesShowTexts == ASSUME "threads" \notin Programs PROVE Spec => []ShowsText
<1>1. TypeInv /\ Rows => ShowsText
  <2> SUFFICES ASSUME TypeInv, Rows, AtRest, NEW l \in 1 .. 2 PROVE Row(l) = shown[l]
    BY DEF ShowsText
  <2>1. calls = <<>>
    BY DEF AtRest, calls, Writers
  <2>2. Drawn(l)
    <3>1. l = 1 \/ l = 2
      OBVIOUS
    <3> QED
      BY <2>1, <3>1, RowsAtRest
  <2>3. shown[l] \in Seq(0 .. 255) /\ Len(shown[l]) = Columns
    BY ElementOfSeq, Zenon DEF TypeInv, DisplayTypeOK
  <2>4. shown[l] = [n \in 1 .. Columns |-> shown[l][n]]
    BY <2>3
  <2> QED
    BY <2>2, <2>4 DEF Row, Drawn
<1> QED
  BY <1>1, InitRows, NextKeepsRows, TypeInvAlways, SyncInvAlways, PTL DEF Spec
=============================================================================
