---------------------------- MODULE DriverProofs ----------------------------
(* Proofs about the drivers: Dht for every width of a byte and every two     *)
(* ranges of durations that lie as far apart as DurationsApart says, then    *)
(* AdcNrfx and Readings for every set of configurations and of requests.     *)
EXTENDS Dht, Readings, FiniteSetTheorems, TLAPS
----------------------------------------------------------------------------
(* Dht.                                                                     *)

\* What div and mod are: every number is a quotient times w and a remainder less than w.
LEMMA Division ==
  \A x \in Int, w \in Nat \ {0} :
    x \div w \in Int /\ x % w \in 0..(w - 1) /\ x = (x \div w) * w + (x % w)
  BY SMT

LEMMA NatDivision ==
  \A x \in Nat, w \in Nat \ {0} :
    x \div w \in Nat /\ x % w \in 0..(w - 1) /\ x = (x \div w) * w + (x % w)
  BY SMT

\* Of which there is only one.
LEMMA QuotientUnique ==
  ASSUME NEW w \in Nat \ {0}, NEW q \in Int, NEW r \in 0..(w - 1)
  PROVE  (q * w + r) \div w = q /\ (q * w + r) % w = r
<1> DEFINE x == q * w + r
<1>1. x \in Int /\ q * w \in Int
  OBVIOUS
<1>2. PICK Q \in Int, R \in 0..(w - 1) : Q = x \div w /\ R = x % w /\ x = Q * w + R
  BY <1>1, Division
<1>3. (Q - q) * w = r - R
  <2>1. (Q - q) * w = Q * w - q * w
    OBVIOUS
  <2>2. \A a \in Int, b \in Int : a + R = b + r => a - b = r - R
    OBVIOUS
  <2>3. Q * w \in Int /\ Q * w + R = q * w + r
    BY <1>2
  <2> QED
    BY <1>1, <2>1, <2>2, <2>3
<1>4. Q = q
  <2>1. ASSUME NEW d \in Int, d * w < w, -w < d * w PROVE d = 0
    <3>1. CASE d >= 1
      <4>1. (d - 1) * w >= 0
        BY <3>1
      <4> QED
        BY <2>1, <4>1
    <3>2. CASE d <= -1
      <4>1. (-1 - d) * w >= 0
        BY <3>2
      <4> QED
        BY <2>1, <4>1
    <3> QED
      BY <2>1, <3>1, <3>2
  <2>2. r - R < w /\ -w < r - R
    BY <1>2
  <2> QED
    BY <1>3, <2>1, <2>2
<1> QED
  <2>1. R = r
    BY <1>3, <1>4
  <2> QED
    BY <1>2, <1>4, <2>1

\* The same two, from what they add up to.
LEMMA QuotientOf ==
  ASSUME NEW w \in Nat \ {0}, NEW x \in Int, NEW q \in Int, NEW r \in 0..(w - 1), x = q * w + r
  PROVE  x \div w = q /\ x % w = r
  BY QuotientUnique

\* The next bit of a number is what its halves leave over.
LEMMA NextBit ==
  ASSUME NEW x \in Nat, NEW p \in Nat \ {0}
  PROVE  /\ x \div p = 2 * (x \div (2 * p)) + ((x \div p) % 2)
         /\ x \div (2 * p) \in Nat
<1>1. PICK q \in Nat, r \in 0..(p - 1) : q = x \div p /\ x = q * p + r
  BY NatDivision
<1>2. PICK u \in Nat, e \in 0..1 : q = 2 * u + e /\ e = q % 2
  <2>1. q \div 2 \in Nat /\ q % 2 \in 0..1 /\ q = 2 * (q \div 2) + (q % 2)
    BY SMT
  <2> QED
    BY <2>1
<1>3. e * p \in 0..p
  BY <1>2
<1>4. u * (2 * p) \in Int /\ q * p = u * (2 * p) + e * p
  BY <1>2
<1>5. e * p + r \in 0..(2 * p - 1)
  BY <1>1, <1>3
<1>6. x = u * (2 * p) + (e * p + r)
  BY <1>1, <1>3, <1>4
<1>7. 2 * p \in Nat \ {0}
  OBVIOUS
<1>8. x \div (2 * p) = u
  BY <1>5, <1>6, <1>7, QuotientOf
<1> QED
  BY <1>1, <1>2, <1>8

\* Numbers less than w apart that leave the same remainder are equal.
LEMMA RemainderApart ==
  ASSUME NEW w \in Nat \ {0}, NEW x \in Nat, NEW y \in Nat,
         x < y + w, y < x + w, x % w = y % w
  PROVE  x = y
<1>2. PICK q \in Nat, p \in Nat, r \in 0..(w - 1) : x = q * w + r /\ y = p * w + r
  BY NatDivision
<1>3. (q - p) * w = q * w - p * w /\ q * w \in Nat /\ p * w \in Nat
  BY <1>2
<1>4. (q - p) * w < w /\ -w < (q - p) * w
  BY <1>2, <1>3
<1>5. CASE q - p >= 1
  <2>1. (q - p - 1) * w >= 0
    BY <1>5
  <2> QED
    BY <1>4, <2>1
<1>6. CASE q - p <= -1
  <2>1. (-1 - (q - p)) * w >= 0
    BY <1>6
  <2> QED
    BY <1>4, <2>1
<1>7. CASE q = p
  BY <1>2, <1>7
<1> QED
  BY <1>5, <1>6, <1>7

\* The powers of two up to the width of a byte.
LEMMA Powers ==
  /\ Width \in Nat \ {0}
  /\ 2^Width \in Nat \ {0} /\ Word \in Nat \ {0}
  /\ \A n \in 0..Width : 2^n \in Nat \ {0} /\ 2^n <= 2^Width
<1>1. Width \in Nat \ {0} /\ Width \in 0..Width
  BY DhtAssumption
<1>2. \A n \in 0..Width : 2^n \in 1..2^Width
  BY PowersAssumption
<1>3. 2^Width \in 1..2^Width
  BY <1>1, <1>2
<1>4. 2^Width \in Nat \ {0}
  BY <1>3
<1>5. \A b \in Nat \ {0} : b * b \in Nat \ {0}
  OBVIOUS
<1>6. Word \in Nat \ {0}
  BY <1>4, <1>5, PowersAssumption
<1>7. ASSUME NEW n \in 0..Width PROVE 2^n \in Nat \ {0} /\ 2^n <= 2^Width
  BY <1>2, <1>4
<1> QED
  BY <1>1, <1>4, <1>6, <1>7

\* The quantities that two words, one of them with a sign, can stand for.
Airs == (0..(Word \div 2 - 1)) \X ((1 - Word \div 2)..(Word \div 2 - 1))

LEMMA QuantitiesAreAirs == \A a \in Quantities \cup {<<0, 0>>} : a \in Airs
<1>1. Quantities \subseteq Airs
  BY DhtAssumption DEF Airs
<1>2. Word \div 2 \in Int /\ Word \div 2 >= 1
  <2>1. 2^Width >= 2
    <3>1. Width \in 1..Width /\ Width - 1 \in 0..Width
      BY Powers
    <3>2. 2^Width = 2 * 2^(Width - 1)
      BY <3>1, PowersAssumption
    <3>3. 2^(Width - 1) \in Nat \ {0}
      BY <3>1, Powers
    <3> QED
      BY <3>2, <3>3
  <2>2. \A b \in Nat : b >= 2 => b * b >= 2
    <3> SUFFICES ASSUME NEW b \in Nat, b >= 2 PROVE b * b >= 2
      OBVIOUS
    <3>1. (b - 1) * b >= 0
      OBVIOUS
    <3> QED
      BY <3>1
  <2>3. Word >= 2 /\ Word \in Nat
    BY <2>1, <2>2, Powers, PowersAssumption
  <2> QED
    BY <2>3
<1>3. <<0, 0>> \in Airs
  BY <1>2 DEF Airs
<1> QED
  BY <1>1, <1>3

\* A word is two bytes.
LEMMA WordBytes ==
  ASSUME NEW x \in Nat, x < Word
  PROVE  x \div 2^Width \in Byte /\ x % 2^Width \in Byte
<1>1. \A b \in Nat \ {0} : x < b * b => x \div b \in 0..(b - 1) /\ x % b \in 0..(b - 1)
  <2> SUFFICES ASSUME NEW b \in Nat \ {0}, x < b * b PROVE x \div b \in 0..(b - 1) /\ x % b \in 0..(b - 1)
    OBVIOUS
  <2>1. PICK q \in Nat, r \in 0..(b - 1) : q = x \div b /\ r = x % b /\ x = q * b + r
    BY NatDivision
  <2>2. q < b
    <3>1. CASE q >= b
      <4>1. (q - b) * b >= 0
        BY <3>1
      <4> QED
        BY <2>1, <4>1
    <3> QED
      BY <3>1
  <2> QED
    BY <2>1, <2>2
<1> QED
  BY <1>1, Powers, PowersAssumption DEF Byte

\* A frame is five bytes of which the last is the checksum of the others.
LEMMA FrameBytes ==
  ASSUME NEW a \in Airs
  PROVE  /\ \A c \in 1..4 : Frame(a)[c] = Payload(a)[c]
         /\ Checksum(Frame(a)) = Frame(a)[5]
         /\ \A c \in 1..5 : Frame(a)[c] \in Byte
<1> DEFINE half == Word \div 2
           t == IF a[2] < 0 THEN half - a[2] ELSE a[2]
           p == Payload(a)
<1>1. half \in Nat /\ 2 * half <= Word
  BY Powers
<1>2. a \in (0..(half - 1)) \X ((1 - half)..(half - 1))
  BY DEF Airs
<1> HIDE DEF half
<1>3. a[1] \in 0..(half - 1) /\ a[2] \in (1 - half)..(half - 1)
  BY <1>2
<1>4. a[1] \in Nat /\ a[1] < Word /\ t \in Nat /\ t < Word
  BY <1>1, <1>3, Powers
<1> HIDE DEF t
<1>5. p = <<a[1] \div 2^Width, a[1] % 2^Width, t \div 2^Width, t % 2^Width>>
  BY DEF Payload, t, half
<1>6. p[1] \in Byte /\ p[2] \in Byte /\ p[3] \in Byte /\ p[4] \in Byte
  BY <1>4, <1>5, WordBytes
<1>7. p \in Seq(Int) /\ Len(p) = 4
  <2>1. \A b \in Byte : b \in Int
    BY Powers DEF Byte
  <2> QED
    BY <1>5, <1>6, <2>1
<1> HIDE DEF p
<1>8. \A b \in Nat \ {0}, x \in Nat : x % b \in 0..(b - 1)
  BY SMT
<1>9. p[1] \in Nat /\ p[2] \in Nat /\ p[3] \in Nat /\ p[4] \in Nat
  BY <1>6, Powers DEF Byte
<1>10. p[1] + p[2] + p[3] + p[4] \in Nat
  BY <1>9
<1>11. Checksum(p) \in Byte
  BY <1>8, <1>10, Powers DEF Checksum, Byte
<1>12. Checksum(p) \in Int
  BY <1>11, Powers DEF Byte
<1> DEFINE f == Append(p, Checksum(p))
<1>13. f[1] = p[1] /\ f[2] = p[2] /\ f[3] = p[3] /\ f[4] = p[4] /\ f[5] = Checksum(p)
  <2>1. \A s \in Seq(Int), e \in Int :
          /\ Append(s, e)[Len(s) + 1] = e
          /\ \A c \in 1..Len(s) : Append(s, e)[c] = s[c]
    OBVIOUS
  <2>2. /\ Append(p, Checksum(p))[Len(p) + 1] = Checksum(p)
        /\ \A c \in 1..Len(p) : Append(p, Checksum(p))[c] = p[c]
    BY <1>7, <1>12, <2>1
  <2> HIDE DEF f
  <2>3. f[4 + 1] = Checksum(p) /\ \A c \in 1..4 : f[c] = p[c]
    BY <1>7, <2>2 DEF f
  <2> QED
    BY <2>3
<1>14. f = Frame(a)
  BY DEF Frame, p
<1> HIDE DEF f
<1>15. Checksum(f) = f[5]
  BY <1>13 DEF Checksum
<1>16. \A c \in 1..4 : f[c] = p[c]
  BY <1>13
<1>17. \A c \in 1..5 : f[c] \in Byte
  BY <1>6, <1>11, <1>13
<1> QED
  BY <1>14, <1>15, <1>16, <1>17 DEF p

\* The n-th bit of a frame is the next one of its byte after those already stored.
LEMMA BitOf ==
  ASSUME NEW f, NEW c \in 1..5, NEW k \in 0..(Width - 1)
  PROVE  /\ (c - 1) * Width + k \in 0..(Bits - 1)
         /\ Bit(f, (c - 1) * Width + k + 1) = (f[c] \div 2^(Width - 1 - k)) % 2
         /\ ((c - 1) * Width + k) % Width = k
<1>1. Width \in Nat \ {0} /\ c - 1 \in Int
  BY Powers
<1>2. ((c - 1) * Width + k) \div Width = c - 1 /\ ((c - 1) * Width + k) % Width = k
  BY <1>1, QuotientUnique
<1> DEFINE n == (c - 1) * Width + k
<1>3. n \in Int /\ n \in 0..(Bits - 1)
  <2>1. (c - 1) * Width \in Nat /\ (5 - c) * Width \in Nat
    BY <1>1
  <2>2. n = (c - 1) * Width + k
    OBVIOUS
  <2>3. (c - 1) * Width + (5 - c) * Width = 4 * Width
    BY <1>1
  <2>4. k \in Nat /\ k <= Width - 1
    BY <1>1
  <2>5. \A x, y \in Nat : x + y = 4 * Width => x + k \in 0..(5 * Width - 1) /\ x + k \in Int
    BY <1>1, <2>4
  <2> QED
    BY <2>1, <2>3, <2>5 DEF Bits
<1>4. n \div Width = c - 1 /\ n % Width = k
  BY <1>2
<1> HIDE DEF n
<1>5. (n + 1) - 1 = n
  BY <1>3
<1>6. (n + 1 - 1) \div Width + 1 = c /\ (n + 1 - 1) % Width = k
  <2>1. (c - 1) + 1 = c
    OBVIOUS
  <2>2. (n + 1 - 1) \div Width = c - 1 /\ (n + 1 - 1) % Width = k
    BY <1>3, <1>4, <1>5
  <2> QED
    BY <2>1, <2>2
<1> QED
  BY <1>3, <1>4, <1>6 DEF Bit, n

\* A bit shifted in: the byte holds the next prefix if and only if it held the one before, and
\* the bit is the next one.
LEMMA ShiftedIn ==
  ASSUME NEW k \in 0..(Width - 1), NEW f \in Nat, NEW x \in 0..(2^k - 1), NEW d \in {0, 1}
  PROVE  /\ (2 * x + d) % 2^Width = 2 * x + d
         /\ 2 * x + d \in 0..(2^(k + 1) - 1)
         /\ 2 * x + d = f \div 2^(Width - (k + 1)) <=>
              x = f \div 2^(Width - k) /\ d = (f \div 2^(Width - 1 - k)) % 2
<1>1. Width \in Nat \ {0} /\ k \in 0..Width /\ k + 1 \in 1..Width /\ k + 1 \in 0..Width
      /\ Width - k \in 1..Width /\ Width - 1 - k \in 0..Width
      /\ Width - (k + 1) = Width - 1 - k /\ (Width - k) - 1 = Width - 1 - k /\ (k + 1) - 1 = k
  BY Powers
<1> DEFINE p == 2^(Width - 1 - k)
           g == f \div 2^(Width - k)
           h == f \div p
<1>2. 2^(k + 1) = 2 * 2^k /\ 2^k \in Nat \ {0} /\ 2^(k + 1) \in Nat \ {0} /\ 2^(k + 1) <= 2^Width
      /\ 2^Width \in Nat \ {0}
  <2>1. 2^(k + 1) = 2 * 2^((k + 1) - 1)
    BY <1>1, PowersAssumption
  <2> QED
    BY <1>1, <2>1, Powers
<1>3. 2 * x + d \in 0..(2^(k + 1) - 1)
  BY <1>2
<1>4. (2 * x + d) % 2^Width = 2 * x + d
  <2>1. 2 * x + d \in Nat /\ 2 * x + d < 2^Width
    BY <1>2, <1>3
  <2>2. \A y \in Nat, b \in Nat \ {0} : y < b => y % b = y
    BY SMT
  <2> QED
    BY <1>2, <2>1, <2>2
<1>5. 2^(Width - k) = 2 * p /\ p \in Nat \ {0}
  <2>1. 2^(Width - k) = 2 * 2^((Width - k) - 1)
    BY <1>1, PowersAssumption
  <2> QED
    BY <1>1, <2>1, Powers
<1> HIDE DEF p
<1>6. h = 2 * g + (h % 2) /\ g \in Nat
  BY <1>5, NextBit
<1>7. h \in Nat /\ h % 2 \in {0, 1}
  <2>1. \A y \in Nat, b \in Nat \ {0} : y \div b \in Nat
    BY SMT
  <2>2. h \in Nat
    BY <1>5, <2>1
  <2> HIDE DEF h
  <2> QED
    BY <2>2
<1> HIDE DEF g, h
<1>8. x \in Int
  BY <1>2
<1>9. 2 * x + d = h <=> x = g /\ d = h % 2
  <2>1. \A e \in {0, 1} : 2 * x + d = 2 * g + e <=> x = g /\ d = e
    BY <1>6, <1>8
  <2> QED
    BY <1>6, <1>7, <2>1
<1>10. h = f \div 2^(Width - (k + 1)) /\ h = f \div 2^(Width - 1 - k)
  BY <1>1 DEF h, p
<1>11. g = f \div 2^(Width - k)
  BY DEF g
<1> QED
  BY <1>3, <1>4, <1>9, <1>10, <1>11, Zenon

\* The prefixes of a byte that are empty and that are whole.
LEMMA PrefixEnds ==
  ASSUME NEW f \in Byte
  PROVE  f \div 2^(Width - 0) = 0 /\ f \div 2^(Width - Width) = f /\ 0 \in 0..(2^0 - 1)
<1>1. f \in Nat /\ f < 2^Width /\ 2^Width \in Nat \ {0}
  BY Powers DEF Byte
<1>2. Width - 0 = Width /\ Width - Width = 0
  BY Powers
<1>3. \A b \in Nat \ {0} : f < b => f \div b = 0
  BY <1>1
<1>4. f \div 1 = f
  BY <1>1
<1>5. 0 \in 0..(1 - 1)
  OBVIOUS
<1> QED
  BY <1>1, <1>2, <1>3, <1>4, <1>5, PowersAssumption

\* One byte that is wrong does not escape the checksum.
LEMMA OneByteCaught ==
  ASSUME NEW f, NEW b,
         \A c \in 1..5 : f[c] \in Byte /\ b[c] \in Byte,
         \A c, c2 \in 1..5 : b[c] # f[c] /\ b[c2] # f[c2] => c = c2,
         Checksum(f) = f[5], Checksum(b) = b[5]
  PROVE  \A c \in 1..5 : b[c] = f[c]
<1>1. PICK w \in Nat \ {0} : w = 2^Width
  BY Powers
<1>2. /\ f[1] \in 0..(w - 1) /\ f[2] \in 0..(w - 1) /\ f[3] \in 0..(w - 1) /\ f[4] \in 0..(w - 1)
      /\ b[1] \in 0..(w - 1) /\ b[2] \in 0..(w - 1) /\ b[3] \in 0..(w - 1) /\ b[4] \in 0..(w - 1)
  BY <1>1 DEF Byte
<1> DEFINE s == f[1] + f[2] + f[3] + f[4]
           t == b[1] + b[2] + b[3] + b[4]
<1>3. s \in Nat /\ t \in Nat
  BY <1>2
<1>4. s % w = f[5] /\ t % w = b[5]
  BY <1>1 DEF Checksum
<1>5. ASSUME b[5] # f[5] PROVE FALSE
  <2>1. b[1] = f[1] /\ b[2] = f[2] /\ b[3] = f[3] /\ b[4] = f[4]
    BY <1>5
  <2>2. s = t
    BY <2>1
  <2> QED
    BY <1>4, <1>5, <2>2
<1>6. s % w = t % w
  BY <1>4, <1>5
<1>7. s < t + w /\ t < s + w
  <2>1. \/ b[2] = f[2] /\ b[3] = f[3] /\ b[4] = f[4]
        \/ b[1] = f[1] /\ b[3] = f[3] /\ b[4] = f[4]
        \/ b[1] = f[1] /\ b[2] = f[2] /\ b[4] = f[4]
        \/ b[1] = f[1] /\ b[2] = f[2] /\ b[3] = f[3]
    OBVIOUS
  <2> QED
    BY <1>2, <2>1
<1>8. s = t
  <2> HIDE DEF s, t
  <2> QED
    BY <1>3, <1>6, <1>7, RemainderApart
<1>9. b[1] = f[1] /\ b[2] = f[2] /\ b[3] = f[3] /\ b[4] = f[4]
  <2>1. \/ b[2] = f[2] /\ b[3] = f[3] /\ b[4] = f[4]
        \/ b[1] = f[1] /\ b[3] = f[3] /\ b[4] = f[4]
        \/ b[1] = f[1] /\ b[2] = f[2] /\ b[4] = f[4]
        \/ b[1] = f[1] /\ b[2] = f[2] /\ b[3] = f[3]
    OBVIOUS
  <2> QED
    BY <1>2, <1>8, <2>1
<1> QED
  BY <1>5, <1>9

\* The pulses are durations, none before the bits are read and as many as a frame has once it
\* is decoded.
PulsesInv ==
  /\ signal_duration \in Seq(Zeros \cup Ones)
  /\ stage = "decode" => Len(signal_duration) = Bits
  /\ stage \in {"idle", "response", "data start", "cleanup"} => Len(signal_duration) = 0

\* While a frame is decoded its threshold is the average of two of its pulses, and no pulse
\* lies outside of the two.
ThresholdInv ==
  stage = "decode" =>
    \E min, max \in Zeros \cup Ones :
      /\ \A n \in 1..Bits : min <= signal_duration[n] /\ signal_duration[n] <= max
      /\ avg_duration = (min + max) \div 2

\* Each pulse measured is of the kind of its bit, but for those that the line changed.
NoiseInv ==
  /\ air \in Quantities
  /\ noise \subseteq 1..Bits /\ Cardinality(noise) <= MaxNoise
  /\ stage \in {"response", "data start", "bits", "decode"} =>
       /\ noise \subseteq 1..Len(signal_duration)
       /\ \A n \in 1..Len(signal_duration) :
            signal_duration[n] \in Ones <=> (Bit(Frame(air), n) = 1 <=> n \notin noise)

\* The loop has stored j bytes and k bits of the next one.
LoopInv ==
  stage = "decode" => \E k \in 0..(Width - 1) : i = j * Width + k /\ (j = 5 => k = 0)

DhtInv == DhtTypeOK /\ PulsesInv /\ ThresholdInv /\ NoiseInv /\ LoopInv /\ LineReleased

\* The first m pulses of the c-th byte are as the sensor sent them.
Undisturbed(c, m) == \A n \in noise : ~((c - 1) * Width < n /\ n <= (c - 1) * Width + m)

\* The c-th byte holds m bits, those that the sensor sent if and only if none was disturbed.
Holds(c, m) ==
  /\ buf[c] \in 0..(2^m - 1)
  /\ buf[c] = Frame(air)[c] \div 2^(Width - m) <=> Undisturbed(c, m)

\* How many bits of the c-th byte the loop has stored.
Stored(c) == IF c <= j THEN Width ELSE IF c = j + 1 THEN i - j * Width ELSE 0

DecodeInv == stage = "decode" => \A c \in 1..5 : Holds(c, Stored(c))

\* What is kept are the bytes of the last frame whose checksum was right.
KeptInv == \A c \in 1..4 : sample[c] = Payload(last)[c]

\* A 0 is shorter than a 1.
LEMMA KindsApart ==
  /\ Zeros \subseteq Nat /\ Ones \subseteq Nat
  /\ \A z \in Zeros, o \in Ones : z < o
<1>1. Zeros \subseteq Nat /\ Ones \subseteq Nat
  BY DhtAssumption
<1>2. ASSUME NEW z \in Zeros, NEW o \in Ones PROVE z < o
  <2>1. 2 * (z + 1) <= z + o /\ z \in Nat /\ o \in Nat
    BY <1>1, DurationsApart
  <2> QED
    BY <2>1
<1> QED
  BY <1>1, <1>2

\* Two extremes of which one is a 0 at most and the other a 1 at least part the kinds.
LEMMA AverageParts ==
  ASSUME NEW min \in Zeros \cup Ones, NEW max \in Zeros \cup Ones,
         NEW z \in Zeros, NEW o \in Ones, min <= z, o <= max,
         NEW d \in Zeros \cup Ones
  PROVE  (d >= (min + max) \div 2) <=> d \in Ones
<1>0. Zeros \subseteq Nat /\ Ones \subseteq Nat
  BY KindsApart
<1>1. \A z2 \in Zeros, o2 \in Ones : z2 < o2
  BY KindsApart
<1>2. min \in Zeros /\ max \in Ones
  <2>1. min \notin Ones
    <3>1. min \in Ones => z < min
      BY <1>1
    <3> QED
      BY <1>0, <3>1
  <2>2. max \notin Zeros
    <3>1. max \in Zeros => max < o
      BY <1>1
    <3> QED
      BY <1>0, <3>1
  <2> QED
    BY <2>1, <2>2
<1>3. CASE d \in Zeros
  <2>1. 2 * (d + 1) <= min + max
    BY <1>2, <1>3, DurationsApart
  <2>2. d \notin Ones
    <3>1. d \in Ones => d < d
      BY <1>1, <1>3
    <3> QED
      BY <1>0, <1>3, <3>1
  <2>3. ~(d >= (min + max) \div 2)
    BY <1>0, <1>2, <1>3, <2>1
  <2> QED
    BY <2>2, <2>3
<1>4. CASE d \in Ones
  <2>1. min + max <= 2 * d + 1
    BY <1>2, <1>4, DurationsApart
  <2>2. d >= (min + max) \div 2
    BY <1>0, <1>2, <1>4, <2>1
  <2> QED
    BY <1>4, <2>2
<1> QED
  BY <1>3, <1>4

\* A step keeps the pulses durations, and as many as there should be.
LEMMA PulsesStep == PulsesInv /\ [dht_sample_fetch]_dht => PulsesInv'
<1> SUFFICES ASSUME PulsesInv, [dht_sample_fetch]_dht PROVE PulsesInv'
  OBVIOUS
<1>0. <<>> \in Seq(Zeros \cup Ones) /\ Len(<<>>) = 0
  <2>1. <<>> \in Seq(Zeros \cup Ones)
    OBVIOUS
  <2>2. Len(<<>>) = 0
    OBVIOUS
  <2> QED
    BY <2>1, <2>2
<1>a. \A s \in Seq(Zeros \cup Ones), e \in Zeros \cup Ones : Append(s, e) \in Seq(Zeros \cup Ones)
  OBVIOUS
<1>b. signal_duration \in Seq(Zeros \cup Ones)
  BY DEF PulsesInv
<1> USE DEF PulsesInv
<1>1. CASE Start
  BY <1>1 DEF Start
<1>2. CASE Response
  <2>1. /\ signal_duration' = signal_duration
        /\ \/ stage = "response" /\ stage' = "data start"
           \/ stage = "data start" /\ stage' = "bits"
    BY <1>2 DEF Response
  <2> QED
    BY <2>1
<1>3. CASE NoPulse
  <2>1. signal_duration' = <<>> /\ stage' = "cleanup"
    BY <1>3 DEF NoPulse
  <2>2. signal_duration' \in Seq(Zeros \cup Ones) /\ Len(signal_duration') = 0
    BY <1>0, <2>1, Zenon
  <2> QED
    BY <2>1, <2>2
<1>4. CASE Pulse
  <2>1. PICK d \in Zeros \cup Ones : signal_duration' = Append(signal_duration, d)
    BY <1>4 DEF Pulse
  <2>2. stage' = "bits"
    BY <1>4 DEF Pulse
  <2>3. signal_duration' \in Seq(Zeros \cup Ones)
    BY <1>a, <1>b, <2>1, Zenon
  <2> QED
    BY <2>2, <2>3
<1>5. CASE Threshold
  BY <1>5 DEF Threshold
<1>6. CASE StoreBit
  BY <1>6 DEF StoreBit
<1>7. CASE Verify
  <2>1. signal_duration' = <<>> /\ stage' = "cleanup"
    BY <1>7 DEF Verify
  <2>2. signal_duration' \in Seq(Zeros \cup Ones) /\ Len(signal_duration') = 0
    BY <1>0, <2>1, Zenon
  <2> QED
    BY <2>1, <2>2
<1>8. CASE Cleanup
  BY <1>8 DEF Cleanup
<1>9. CASE UNCHANGED dht
  BY <1>9 DEF dht
<1> QED
  BY <1>1, <1>2, <1>3, <1>4, <1>5, <1>6, <1>7, <1>8, <1>9 DEF dht_sample_fetch

\* A frame's threshold is set once its pulses are complete, and not changed until it is decoded.
LEMMA ThresholdStep == PulsesInv /\ ThresholdInv /\ [dht_sample_fetch]_dht => ThresholdInv'
<1> SUFFICES ASSUME PulsesInv, ThresholdInv, [dht_sample_fetch]_dht PROVE ThresholdInv'
  OBVIOUS
<1>1. CASE Threshold
  <2>1. PICK min, max \in {signal_duration[n] : n \in 1..Bits} :
          /\ \A n \in 1..Bits : min <= signal_duration[n] /\ signal_duration[n] <= max
          /\ avg_duration' = (min + max) \div 2
    BY <1>1 DEF Threshold
  <2>2. \A n \in 1..Bits : signal_duration[n] \in Zeros \cup Ones
    BY <1>1 DEF Threshold, PulsesInv
  <2>3. min \in Zeros \cup Ones /\ max \in Zeros \cup Ones
    BY <2>2
  <2>4. signal_duration' = signal_duration
    BY <1>1 DEF Threshold
  <2> QED
    BY <2>1, <2>3, <2>4 DEF ThresholdInv
<1>2. CASE StoreBit \/ UNCHANGED dht
  <2>1. stage' = stage /\ signal_duration' = signal_duration /\ avg_duration' = avg_duration
    BY <1>2 DEF StoreBit, dht
  <2> QED
    BY <2>1 DEF ThresholdInv
<1>3. CASE Start \/ Response \/ NoPulse \/ Pulse \/ Verify \/ Cleanup
  <2>1. stage' # "decode"
    BY <1>3 DEF Start, Response, NoPulse, Pulse, Verify, Cleanup
  <2> QED
    BY <2>1 DEF ThresholdInv
<1> QED
  BY <1>1, <1>2, <1>3 DEF dht_sample_fetch

\* The way back to idle is the one that releases the line.
LEMMA ReleasedStep == LineReleased /\ [dht_sample_fetch]_dht => LineReleased'
<1> SUFFICES ASSUME LineReleased, [dht_sample_fetch]_dht PROVE LineReleased'
  OBVIOUS
<1>1. CASE Start \/ Response \/ NoPulse \/ Pulse \/ Threshold \/ StoreBit \/ Verify
  <2>1. stage' # "idle"
    BY <1>1 DEF Start, Response, NoPulse, Pulse, Threshold, StoreBit, Verify
  <2> QED
    BY <2>1 DEF LineReleased
<1>2. CASE Cleanup
  BY <1>2 DEF Cleanup, LineReleased
<1>3. CASE UNCHANGED dht
  BY <1>3 DEF dht, hardware, LineReleased
<1> QED
  BY <1>1, <1>2, <1>3 DEF dht_sample_fetch

\* The line changes pulses of the frame that is read, no more of them than MaxNoise.
LEMMA NoiseStep == PulsesInv /\ NoiseInv /\ [dht_sample_fetch]_dht => NoiseInv'
<1> SUFFICES ASSUME PulsesInv, NoiseInv, [dht_sample_fetch]_dht PROVE NoiseInv'
  OBVIOUS
<1>1. CASE Start
  <2>1. air' \in Quantities /\ noise' = {} /\ signal_duration' = signal_duration
        /\ Len(signal_duration) = 0
    BY <1>1 DEF Start, PulsesInv
  <2>2. Cardinality({}) = 0 /\ MaxNoise \in Nat
    BY FS_EmptySet, DhtAssumption
  <2>3. Cardinality(noise') <= MaxNoise
    BY <2>1, <2>2
  <2>4. 1..Len(signal_duration') = {}
    BY <2>1
  <2> QED
    BY <2>1, <2>3, <2>4 DEF NoiseInv
<1>2. CASE Pulse
  <2> DEFINE n == Len(signal_duration) + 1
             sent == Bit(Frame(air), n)
  <2>1. /\ stage = "bits" /\ Len(signal_duration) < Bits /\ air' = air
        /\ noise' \in {noise, noise \cup {n}} /\ Cardinality(noise') <= MaxNoise
    BY <1>2 DEF Pulse
  <2>2. PICK d \in IF sent = 1 <=> n \notin noise' THEN Ones ELSE Zeros :
          signal_duration' = Append(signal_duration, d)
    BY <1>2 DEF Pulse
  <2>3. d \in Ones <=> (sent = 1 <=> n \notin noise')
    <3>1. d \in Zeros => d \notin Ones
      <4>1. d \in Zeros /\ d \in Ones => d < d
        BY KindsApart
      <4>2. d \in Zeros => d \in Nat
        BY KindsApart
      <4>3. d \in Nat => ~(d < d)
        OBVIOUS
      <4> QED
        BY <4>1, <4>2, <4>3, Zenon
    <3> QED
      BY <2>2, <3>1
  <2>4. /\ Len(signal_duration) \in Nat /\ Len(signal_duration') = n
        /\ signal_duration'[n] = d
        /\ \A m \in 1..Len(signal_duration) : signal_duration'[m] = signal_duration[m]
    <3>1. d \in Zeros \cup Ones
      BY <2>2
    <3>2. signal_duration \in Seq(Zeros \cup Ones)
      BY DEF PulsesInv
    <3> QED
      BY <2>2, <3>1, <3>2
  <2>5. 1..n = 1..Len(signal_duration) \cup {n} /\ n \notin 1..Len(signal_duration)
    BY <2>4
  <2>6. noise \subseteq 1..Len(signal_duration)
    BY <2>1 DEF NoiseInv
  <2>7. \A m \in 1..Len(signal_duration) :
          signal_duration[m] \in Ones <=> (Bit(Frame(air), m) = 1 <=> m \notin noise)
    BY <2>1 DEF NoiseInv
  <2>8. n \in 1..Bits
    <3>1. Bits \in Int
      BY DhtAssumption DEF Bits
    <3> QED
      BY <2>1, <2>4, <3>1
  <2>9. noise' \subseteq 1..Bits
    BY <2>1, <2>8 DEF NoiseInv
  <2> HIDE DEF n
  <2>10. \A m \in 1..n : signal_duration'[m] \in Ones <=> (Bit(Frame(air), m) = 1 <=> m \notin noise')
    <3> SUFFICES ASSUME NEW m \in 1..n
                 PROVE  signal_duration'[m] \in Ones <=> (Bit(Frame(air), m) = 1 <=> m \notin noise')
      OBVIOUS
    <3>1. CASE m = n
      BY <2>3, <2>4, <3>1
    <3>2. CASE m # n
      <4>1. m \in 1..Len(signal_duration)
        BY <2>5, <3>2
      <4>2. m \in noise' <=> m \in noise
        BY <2>1, <3>2
      <4>3. signal_duration'[m] = signal_duration[m]
        BY <2>4, <4>1
      <4> QED
        BY <2>7, <4>1, <4>2, <4>3, Zenon
    <3> QED
      BY <3>1, <3>2
  <2>11. noise' \subseteq 1..n
    BY <2>1, <2>5, <2>6
  <2> QED
    BY <2>1, <2>4, <2>9, <2>10, <2>11, Zenon DEF NoiseInv
<1>3. CASE Response \/ Threshold \/ StoreBit \/ UNCHANGED dht
  <2>1. /\ UNCHANGED <<air, noise, signal_duration>>
        /\ \/ stage' = stage
           \/ stage \in {"response", "data start", "bits"}
    BY <1>3 DEF Response, Threshold, StoreBit, dht
  <2> QED
    BY <2>1 DEF NoiseInv
<1>4. CASE NoPulse \/ Verify \/ Cleanup
  <2>1. UNCHANGED <<air, noise>> /\ stage' \in {"idle", "cleanup"}
    BY <1>4 DEF NoPulse, Verify, Cleanup
  <2> QED
    BY <2>1 DEF NoiseInv
<1> QED
  BY <1>1, <1>2, <1>3, <1>4 DEF dht_sample_fetch

\* What a turn of the loop does to i and j.
LEMMA Turn ==
  ASSUME DhtTypeOK, LoopInv, StoreBit
  PROVE  \E k \in 0..(Width - 1) :
           /\ j \in 0..4 /\ i = j * Width + k
           /\ \/ k = Width - 1 /\ j' = j + 1 /\ i' = (j + 1) * Width
              \/ k < Width - 1 /\ j' = j /\ i' = j * Width + (k + 1)
<1>1. PICK k \in 0..(Width - 1) : i = j * Width + k /\ (j = 5 => k = 0)
  BY DEF LoopInv, StoreBit
<1>2. Width \in Nat \ {0} /\ j \in 0..5 /\ i < Bits /\ i' = i + 1
      /\ j' = IF i % Width = Width - 1 THEN j + 1 ELSE j
  BY Powers DEF DhtTypeOK, StoreBit
<1>3. j \in 0..4
  <2>1. CASE j = 5
    <3>1. i = 5 * Width
      BY <1>1, <1>2, <2>1
    <3> QED
      BY <1>2, <3>1 DEF Bits
  <2> QED
    BY <1>2, <2>1
<1>4. i % Width = k
  <2>1. j + 1 \in 1..5 /\ (j + 1) - 1 = j
    BY <1>3
  <2>2. (((j + 1) - 1) * Width + k) % Width = k
    BY <2>1, BitOf
  <2> QED
    BY <1>1, <2>1, <2>2
<1>5. (j + 1) * Width = j * Width + Width /\ j * Width \in Int
  BY <1>2
<1>6. CASE k = Width - 1
  <2>1. j' = j + 1
    BY <1>2, <1>4, <1>6
  <2>2. i' = (j + 1) * Width
    BY <1>1, <1>2, <1>5, <1>6
  <2> QED
    BY <1>1, <1>3, <1>6, <2>1, <2>2
<1>7. CASE k # Width - 1
  <2>1. j' = j
    BY <1>2, <1>4, <1>7
  <2>2. i' = j * Width + (k + 1) /\ k < Width - 1
    BY <1>1, <1>2, <1>5, <1>7
  <2> QED
    BY <1>1, <1>3, <2>1, <2>2
<1> QED
  BY <1>6, <1>7

LEMMA LoopStep == DhtTypeOK /\ LoopInv /\ [dht_sample_fetch]_dht => LoopInv'
<1> SUFFICES ASSUME DhtTypeOK, LoopInv, [dht_sample_fetch]_dht PROVE LoopInv'
  OBVIOUS
<1>0. Width \in Nat \ {0} /\ 0 \in 0..(Width - 1)
  BY Powers
<1>1. CASE Threshold
  <2>1. i' = 0 /\ j' = 0
    BY <1>1 DEF Threshold
  <2>2. i' = j' * Width + 0
    BY <1>0, <2>1
  <2>3. j' = 5 => 0 = 0
    OBVIOUS
  <2> QED
    BY <1>0, <2>2, <2>3 DEF LoopInv
<1>2. CASE StoreBit
  <2>1. PICK k \in 0..(Width - 1) :
           /\ j \in 0..4 /\ i = j * Width + k
           /\ \/ k = Width - 1 /\ j' = j + 1 /\ i' = (j + 1) * Width
              \/ k < Width - 1 /\ j' = j /\ i' = j * Width + (k + 1)
    BY <1>2, Turn
  <2>2. CASE k = Width - 1 /\ j' = j + 1 /\ i' = (j + 1) * Width
    <3>1. i' = j' * Width + 0
      BY <1>0, <2>1, <2>2
    <3> QED
      BY <1>0, <3>1 DEF LoopInv
  <2>3. CASE k < Width - 1 /\ j' = j /\ i' = j * Width + (k + 1)
    <3>1. i' = j' * Width + (k + 1) /\ k + 1 \in 0..(Width - 1) /\ j' # 5
      BY <1>0, <2>1, <2>3
    <3> QED
      BY <3>1 DEF LoopInv
  <2> QED
    BY <2>1, <2>2, <2>3
<1>3. CASE UNCHANGED dht
  <2>1. stage' = stage /\ i' = i /\ j' = j
    BY <1>3 DEF dht, decoder
  <2> QED
    BY <2>1 DEF LoopInv
<1>4. CASE Start \/ Response \/ NoPulse \/ Pulse \/ Verify \/ Cleanup
  <2>1. stage' # "decode"
    BY <1>4 DEF Start, Response, NoPulse, Pulse, Verify, Cleanup
  <2> QED
    BY <2>1 DEF LoopInv
<1> QED
  BY <1>1, <1>2, <1>3, <1>4 DEF dht_sample_fetch

LEMMA TypesStep ==
  ASSUME DhtTypeOK, PulsesInv, LoopInv, NoiseInv, PulsesInv', NoiseInv', [dht_sample_fetch]_dht
  PROVE  DhtTypeOK'
<1>1. /\ stage \in {"idle", "response", "data start", "bits", "decode", "cleanup"}
      /\ avg_duration \in Int /\ buf \in [1..5 -> Byte] /\ i \in 0..Bits /\ j \in 0..5
      /\ sample \in [1..4 -> Byte] /\ last \in Quantities \cup {<<0, 0>>}
      /\ pin \in {"inactive", "input"} /\ timer \in BOOLEAN /\ locked \in BOOLEAN
  BY DEF DhtTypeOK
<1>2. air' \in Quantities /\ noise' \subseteq 1..Bits /\ signal_duration' \in Seq(Zeros \cup Ones)
  BY DEF NoiseInv, PulsesInv
<1>3. Cleared \in [1..5 -> Byte] /\ Bits \in Nat /\ 0 \in 0..Bits /\ 0 \in 0..5
  <2>1. 0 \in Byte
    BY Powers DEF Byte
  <2>2. Bits \in Nat
    BY Powers DEF Bits
  <2> QED
    BY <2>1, <2>2 DEF Cleared
<1>4. CASE Start \/ Cleanup
  <2>1. /\ stage' \in {"response", "idle"} /\ pin' \in {"inactive", "input"}
        /\ timer' \in BOOLEAN /\ locked' \in BOOLEAN
        /\ UNCHANGED <<avg_duration, buf, i, j, sample, last>>
    BY <1>4 DEF Start, Cleanup, decoder
  <2> QED
    BY <1>1, <1>2, <2>1 DEF DhtTypeOK
<1>5. CASE Response \/ NoPulse \/ Pulse \/ UNCHANGED dht
  <2>1. /\ stage' \in {"data start", "bits", "cleanup", stage}
        /\ UNCHANGED <<avg_duration, buf, i, j, sample, last, pin, timer, locked>>
    BY <1>5 DEF Response, NoPulse, Pulse, dht, decoder, hardware
  <2> QED
    BY <1>1, <1>2, <2>1 DEF DhtTypeOK
<1>6. CASE Threshold
  <2>1. /\ stage' = "decode" /\ buf' = Cleared /\ i' = 0 /\ j' = 0
        /\ UNCHANGED <<sample, last, pin, timer, locked>>
    BY <1>6 DEF Threshold, hardware
  <2>2. avg_duration' \in Int
    <3>1. PICK min, max \in {signal_duration[n] : n \in 1..Bits} :
            avg_duration' = (min + max) \div 2
      BY <1>6 DEF Threshold
    <3>2. \A n \in 1..Bits : signal_duration[n] \in Zeros \cup Ones
      BY <1>6 DEF Threshold, PulsesInv
    <3>3. min \in Nat /\ max \in Nat
      BY <3>2, KindsApart
    <3> QED
      BY <3>1, <3>3
  <2> QED
    BY <1>1, <1>2, <1>3, <2>1, <2>2 DEF DhtTypeOK
<1>7. CASE StoreBit
  <2>1. /\ buf' = [buf EXCEPT ![j + 1] = (2 * buf[j + 1] + Decoded(i + 1)) % 2^Width]
        /\ UNCHANGED <<stage, avg_duration, sample, last, pin, timer, locked>>
        /\ i' = i + 1 /\ i < Bits
    BY <1>7 DEF StoreBit, hardware
  <2>2. j \in 0..4 /\ j' \in 0..5
    <3>1. j \in 0..4 /\ (j' = j + 1 \/ j' = j)
      BY <1>7, Turn
    <3> QED
      BY <3>1
  <2>3. i' \in 0..Bits
    <3>1. i \in 0..Bits /\ Bits \in Nat /\ i' = i + 1 /\ i < Bits
      BY <1>1, <1>3, <2>1
    <3> QED
      BY <3>1
  <2>4. (2 * buf[j + 1] + Decoded(i + 1)) % 2^Width \in Byte
    <3>1. buf[j + 1] \in Nat
      <4>1. j + 1 \in 1..5
        BY <2>2
      <4>2. buf[j + 1] \in Byte
        BY <1>1, <4>1
      <4> QED
        BY <4>2, Powers DEF Byte
    <3>2. 2 * buf[j + 1] + Decoded(i + 1) \in Nat
      BY <3>1 DEF Decoded
    <3>3. \A x \in Nat, b \in Nat \ {0} : x % b \in 0..(b - 1)
      BY SMT
    <3> QED
      BY <3>2, <3>3, Powers DEF Byte
  <2>5. buf' \in [1..5 -> Byte]
    BY <1>1, <2>1, <2>4
  <2> QED
    BY <1>1, <1>2, <2>1, <2>2, <2>3, <2>5 DEF DhtTypeOK
<1>8. CASE Verify
  <2>1. /\ stage' = "cleanup" /\ avg_duration' = 0 /\ buf' = Cleared /\ i' = 0 /\ j' = 0
        /\ UNCHANGED <<pin, timer, locked>>
        /\ \/ sample' = [c \in 1..4 |-> buf[c]] /\ last' = air
           \/ sample' = sample /\ last' = last
    BY <1>8 DEF Verify, hardware
  <2>2. sample' \in [1..4 -> Byte]
    <3>1. \A c \in 1..4 : c \in 1..5
      OBVIOUS
    <3>2. \A c \in 1..4 : buf[c] \in Byte
      BY <1>1, <3>1, Zenon
    <3>3. [c \in 1..4 |-> buf[c]] \in [1..4 -> Byte]
      BY <3>2, Zenon
    <3> QED
      BY <1>1, <2>1, <3>3, Zenon
  <2>3. last' \in Quantities \cup {<<0, 0>>}
    BY <1>1, <2>1 DEF NoiseInv
  <2>4. avg_duration' \in Int /\ buf' \in [1..5 -> Byte] /\ i' \in 0..Bits /\ j' \in 0..5
    BY <1>3, <2>1
  <2> QED
    BY <1>1, <1>2, <2>1, <2>2, <2>3, <2>4, Zenon DEF DhtTypeOK
<1> QED
  BY <1>4, <1>5, <1>6, <1>7, <1>8 DEF dht_sample_fetch

\* The invariant holds through any number of fetches, whatever the line does to them.
THEOREM DhtInvariance == DhtSpec => []DhtInv
<1>1. dht_init => DhtInv
  <2> SUFFICES ASSUME dht_init PROVE DhtInv
    OBVIOUS
  <2>1. /\ stage = "idle" /\ air \in Quantities /\ noise = {}
        /\ signal_duration = <<>> /\ avg_duration = 0
        /\ buf = Cleared /\ i = 0 /\ j = 0
        /\ sample = [c \in 1..4 |-> 0] /\ last = <<0, 0>>
        /\ pin = "inactive" /\ timer = FALSE /\ locked = FALSE
    BY DEF dht_init
  <2>2. 0 \in Byte /\ Bits \in Nat
    BY Powers DEF Byte, Bits
  <2>3. buf \in [1..5 -> Byte] /\ sample \in [1..4 -> Byte] /\ i \in 0..Bits /\ j \in 0..5
    BY <2>1, <2>2 DEF Cleared
  <2>4. signal_duration \in Seq(Zeros \cup Ones) /\ Len(signal_duration) = 0
    <3>1. <<>> \in Seq(Zeros \cup Ones)
      OBVIOUS
    <3>2. Len(<<>>) = 0
      OBVIOUS
    <3> QED
      BY <2>1, <3>1, <3>2
  <2>5. Cardinality(noise) <= MaxNoise
    BY <2>1, FS_EmptySet, DhtAssumption
  <2>6. DhtTypeOK
    <3>1. noise \subseteq 1..Bits /\ avg_duration \in Int
      BY <2>1
    <3>2. last \in Quantities \cup {<<0, 0>>} /\ timer \in BOOLEAN /\ locked \in BOOLEAN
      BY <2>1, Zenon
    <3> QED
      BY <2>1, <2>3, <2>4, <3>1, <3>2, Zenon DEF DhtTypeOK
  <2>7. NoiseInv
    BY <2>1, <2>5 DEF NoiseInv
  <2> QED
    BY <2>1, <2>4, <2>6, <2>7 DEF DhtInv, PulsesInv, ThresholdInv, LoopInv, LineReleased
<1>2. DhtInv /\ [dht_sample_fetch]_dht => DhtInv'
  BY PulsesStep, ThresholdStep, NoiseStep, LoopStep, ReleasedStep, TypesStep DEF DhtInv
<1> QED
  BY <1>1, <1>2, PTL DEF DhtSpec

\* Every value the fetch keeps is one of its type, each byte of the frame one of a byte.
THEOREM DhtTyping == DhtSpec => []DhtTypeOK
<1>1. DhtInv => DhtTypeOK
  BY DEF DhtInv
<1> QED
  BY DhtInvariance, <1>1, PTL

LEMMA BitsTold == DhtInv => BitsRight
<1> SUFFICES ASSUME DhtInv, stage = "decode",
                    NEW m \in 1..Bits, NEW n \in 1..Bits,
                    signal_duration[m] \in Zeros, signal_duration[n] \in Ones,
                    NEW k \in 1..Bits
             PROVE  Decoded(k) = 1 <=> signal_duration[k] \in Ones
  BY DEF BitsRight
<1>1. PICK min, max \in Zeros \cup Ones :
        /\ \A p \in 1..Bits : min <= signal_duration[p] /\ signal_duration[p] <= max
        /\ avg_duration = (min + max) \div 2
  BY DEF DhtInv, ThresholdInv
<1>2. signal_duration[k] \in Zeros \cup Ones
  BY DEF DhtInv, PulsesInv
<1>3. signal_duration[k] >= avg_duration <=> signal_duration[k] \in Ones
  BY <1>1, <1>2, AverageParts
<1> QED
  BY <1>3 DEF Decoded

\* Every pulse of a frame with pulses of both kinds is told right.
THEOREM EveryBitRight == DhtSpec => []BitsRight
  BY DhtInvariance, BitsTold, PTL

\* However a fetch ends, the line, the timer and the interrupts are released.
THEOREM Released == DhtSpec => []LineReleased
<1>1. DhtInv => LineReleased
  BY DEF DhtInv
<1> QED
  BY DhtInvariance, <1>1, PTL

\* A bit of a frame is 0 or 1.
LEMMA BitType ==
  ASSUME NEW a \in Quantities, NEW n \in 1..Bits
  PROVE  Bit(Frame(a), n) \in {0, 1}
<1>1. Width \in Nat \ {0} /\ n - 1 \in Nat /\ n - 1 < 5 * Width
  BY Powers DEF Bits
<1>2. PICK q \in Nat, r \in 0..(Width - 1) :
        q = (n - 1) \div Width /\ r = (n - 1) % Width /\ n - 1 = q * Width + r
  BY <1>1, NatDivision
<1>3. q + 1 \in 1..5
  <2>1. CASE q >= 5
    <3>1. (q - 5) * Width >= 0
      BY <1>1, <2>1
    <3> QED
      BY <1>1, <1>2, <3>1
  <2> QED
    BY <2>1
<1>4. Frame(a)[q + 1] \in Nat
  <2>1. Frame(a)[q + 1] \in Byte
    BY <1>3, FrameBytes, QuantitiesAreAirs
  <2> QED
    BY <2>1, Powers DEF Byte
<1>5. 2^(Width - 1 - r) \in Nat \ {0}
  <2>1. Width - 1 - r \in 0..Width
    BY <1>1
  <2> QED
    BY <2>1, Powers
<1>6. \A x \in Nat, b \in Nat \ {0} : (x \div b) % 2 \in {0, 1}
  BY SMT
<1>7. Bit(Frame(a), n) = (Frame(a)[q + 1] \div 2^(Width - 1 - r)) % 2
  BY <1>2 DEF Bit
<1> QED
  BY <1>4, <1>5, <1>6, <1>7

LEMMA PulsesFinite == \A S \in SUBSET (1..Bits) : IsFiniteSet(S)
<1>1. Bits \in Int /\ 1 \in Int
  BY Powers DEF Bits
<1>2. IsFiniteSet(1..Bits)
  BY <1>1, FS_Interval
<1> QED
  BY <1>2, FS_Subset

\* A set of one pulse at most.
LEMMA OnePulse ==
  ASSUME NEW S \in SUBSET (1..Bits), Cardinality(S) <= 1, NEW m \in S, NEW n \in S
  PROVE  m = n
<1>1. IsFiniteSet(S)
  BY PulsesFinite
<1>2. CASE m # n
  <2>1. IsFiniteSet(S \ {m}) /\ Cardinality(S \ {m}) = Cardinality(S) - 1
    BY <1>1, FS_RemoveElement
  <2>2. Cardinality(S) \in Nat /\ Cardinality(S \ {m}) \in Nat
    BY <1>1, <2>1, FS_CardinalityType
  <2>3. Cardinality(S \ {m}) = 0
    BY <2>1, <2>2
  <2>4. S \ {m} = {}
    BY <2>1, <2>3, FS_EmptySet
  <2> QED
    BY <1>2, <2>4
<1> QED
  BY <1>2

\* Of a frame with one disturbed pulse at most, every bit but that one is told right.
LEMMA DecodedRight ==
  ASSUME MaxNoise <= 1, DhtInv, stage = "decode", NEW n \in 1..Bits
  PROVE  /\ Decoded(n) \in {0, 1}
         /\ Decoded(n) = Bit(Frame(air), n) <=> n \notin noise
<1>1. air \in Quantities /\ noise \in SUBSET (1..Bits) /\ Cardinality(noise) <= 1
  <2>1. IsFiniteSet(noise)
    BY PulsesFinite DEF DhtInv, NoiseInv
  <2>2. Cardinality(noise) \in Nat /\ MaxNoise \in Nat
    BY <2>1, FS_CardinalityType, DhtAssumption
  <2> QED
    BY <2>2 DEF DhtInv, NoiseInv
<1>2. \A m \in 1..Bits :
        /\ signal_duration[m] \in Zeros \cup Ones
        /\ signal_duration[m] \in Ones <=> (Bit(Frame(air), m) = 1 <=> m \notin noise)
  BY DEF DhtInv, PulsesInv, NoiseInv
<1>3. \A bit \in {0, 1} : \E m \in 1..Bits : Bit(Frame(air), m) = bit /\ m \notin noise
  <2> SUFFICES ASSUME NEW bit \in {0, 1}
               PROVE  \E m \in 1..Bits : Bit(Frame(air), m) = bit /\ m \notin noise
    OBVIOUS
  <2>1. PICK m, p \in 1..Bits : m # p /\ Bit(Frame(air), m) = bit /\ Bit(Frame(air), p) = bit
    BY <1>1, FramesMixed
  <2>2. m \notin noise \/ p \notin noise
    BY <1>1, <2>1, OnePulse
  <2> QED
    BY <2>1, <2>2
<1>4. PICK z \in 1..Bits : Bit(Frame(air), z) = 0 /\ z \notin noise
  BY <1>3
<1>5. PICK o \in 1..Bits : Bit(Frame(air), o) = 1 /\ o \notin noise
  BY <1>3
<1>6. signal_duration[z] \in Zeros /\ signal_duration[o] \in Ones
  <2>1. signal_duration[z] \notin Ones
    <3>1. ~(Bit(Frame(air), z) = 1)
      BY <1>4
    <3> QED
      BY <1>2, <1>4, <3>1
  <2> QED
    BY <1>2, <1>5, <2>1
<1>7. Decoded(n) = 1 <=> signal_duration[n] \in Ones
  BY <1>6, BitsTold DEF BitsRight
<1>8. Decoded(n) \in {0, 1}
  BY DEF Decoded
<1>9. Bit(Frame(air), n) \in {0, 1}
  BY <1>1, BitType
<1> QED
  BY <1>2, <1>7, <1>8, <1>9

LEMMA PulsesAreNat == \A S \in SUBSET (1..Bits) : \A n \in S : n \in Nat
  BY Powers DEF Bits

\* A turn of the loop stores one bit more of the byte under way and leaves the others.
LEMMA BitStored ==
  ASSUME MaxNoise <= 1, DhtInv, DecodeInv, StoreBit, NEW k \in 0..(Width - 1),
         NEW c0 \in 1..5, c0 = j + 1, i = j * Width + k
  PROVE  /\ \A c \in 1..5, m \in 0..Width : c # c0 /\ Holds(c, m) => Holds(c, m)'
         /\ Holds(c0, k + 1)'
<1> DEFINE f == Frame(air)[c0]
           x == buf[c0]
           n == i + 1
<1>1. stage = "decode" /\ i < Bits /\ UNCHANGED <<air, noise>>
      /\ buf' = [buf EXCEPT ![c0] = (2 * x + Decoded(n)) % 2^Width]
  BY DEF StoreBit
<1>2. /\ c0 - 1 = j /\ j \in Int /\ Width \in Nat \ {0}
      /\ buf \in [1..5 -> Byte] /\ air \in Quantities
      /\ \A p \in noise : p \in Nat
  <2>1. \A p \in noise : p \in Nat
    BY PulsesAreNat DEF DhtInv, DhtTypeOK
  <2>2. j \in 0..5 /\ buf \in [1..5 -> Byte] /\ air \in Quantities
    BY DEF DhtInv, DhtTypeOK
  <2>3. j \in Int /\ c0 - 1 = j
    BY <2>2
  <2> QED
    BY <2>1, <2>2, <2>3, Powers
<1>3. \A c \in 1..5, m \in 0..Width : c # c0 /\ Holds(c, m) => Holds(c, m)'
  <2> SUFFICES ASSUME NEW c \in 1..5, NEW m \in 0..Width, c # c0, Holds(c, m) PROVE Holds(c, m)'
    OBVIOUS
  <2>1. buf'[c] = buf[c]
    BY <1>1, <1>2
  <2> QED
    BY <1>1, <2>1 DEF Holds, Undisturbed
<1>4. n \in 1..Bits /\ n = (c0 - 1) * Width + k + 1
  <2>1. (c0 - 1) * Width + k \in 0..(Bits - 1)
    BY <1>2, BitOf
  <2>2. i \in Int
    BY <1>2, <2>1
  <2> QED
    BY <1>2, <2>1, <2>2, Powers DEF Bits
<1>5. Bit(Frame(air), n) = (f \div 2^(Width - 1 - k)) % 2
  <2>1. \A g : Bit(g, (c0 - 1) * Width + k + 1) = (g[c0] \div 2^(Width - 1 - k)) % 2
    BY BitOf
  <2> HIDE DEF n
  <2> QED
    BY <1>4, <2>1, Zenon
<1>6. Decoded(n) \in {0, 1} /\ (Decoded(n) = Bit(Frame(air), n) <=> n \notin noise)
  BY <1>1, <1>4, DecodedRight
<1>7. f \in Nat
  <2>1. f \in Byte
    BY <1>2, FrameBytes, QuantitiesAreAirs
  <2> QED
    BY <2>1, Powers DEF Byte
<1>8. Holds(c0, k)
  <2>1. ~(c0 <= j) /\ i - j * Width = k
    BY <1>2
  <2>2. Stored(c0) = k
    BY <2>1 DEF Stored
  <2> QED
    BY <1>1, <1>2, <2>2 DEF DecodeInv
<1>9. x \in 0..(2^k - 1) /\ (x = f \div 2^(Width - k) <=> Undisturbed(c0, k))
  BY <1>8 DEF Holds
<1> DEFINE y == 2 * x + Decoded(n)
<1>10. y % 2^Width = y /\ y \in 0..(2^(k + 1) - 1)
       /\ (y = f \div 2^(Width - (k + 1)) <=>
             x = f \div 2^(Width - k) /\ Decoded(n) = (f \div 2^(Width - 1 - k)) % 2)
  BY <1>6, <1>7, <1>9, ShiftedIn
<1>11. buf'[c0] = y
  BY <1>1, <1>2, <1>10
<1>12. Undisturbed(c0, k + 1) <=> Undisturbed(c0, k) /\ n \notin noise
  <2>1. PICK s \in Int : s = (c0 - 1) * Width
    BY <1>2
  <2>2. \A p \in Nat : s < p /\ p <= s + (k + 1) <=> (s < p /\ p <= s + k) \/ (p = s + k + 1 /\ s < p)
    BY <1>2, <2>1
  <2>3. n = s + k + 1 /\ s < n
    BY <1>2, <1>4, <2>1
  <2> QED
    BY <1>2, <2>1, <2>2, <2>3 DEF Undisturbed
<1> HIDE DEF f, x, n, y
<1>13. y = f \div 2^(Width - (k + 1)) <=> Undisturbed(c0, k + 1)
  BY <1>5, <1>6, <1>9, <1>10, <1>12, Zenon
<1>14. Holds(c0, k + 1)'
  <2>1. Undisturbed(c0, k + 1)' <=> Undisturbed(c0, k + 1)
    BY <1>1 DEF Undisturbed
  <2>2. f = Frame(air')[c0]
    BY <1>1 DEF f
  <2> QED
    BY <1>10, <1>11, <1>13, <2>1, <2>2, Zenon DEF Holds
<1> QED
  BY <1>3, <1>14

LEMMA DecodeStep ==
  ASSUME MaxNoise <= 1, DhtInv, DhtInv', DecodeInv, [dht_sample_fetch]_dht
  PROVE  DecodeInv'
<1>0. Width \in Nat \ {0}
  BY Powers
<1>1. CASE Threshold
  <2>1. buf' = Cleared /\ i' = 0 /\ j' = 0 /\ air' = air /\ air \in Quantities
        /\ \A p \in noise' : p \in Nat
    BY <1>1, PulsesAreNat DEF Threshold, DhtInv, DhtTypeOK
  <2> SUFFICES ASSUME NEW c \in 1..5 PROVE Holds(c, Stored(c))'
    BY DEF DecodeInv
  <2>2. Stored(c)' = 0
    <3>1. ~(c <= 0) /\ 0 - 0 * Width = 0
      BY <1>0
    <3> QED
      BY <2>1, <3>1 DEF Stored
  <2>3. Frame(air)[c] \in Byte
    BY <2>1, FrameBytes, QuantitiesAreAirs
  <2>4. buf'[c] = 0
    BY <2>1 DEF Cleared
  <2>5. Undisturbed(c, 0)'
    <3>1. PICK s \in Int : s = (c - 1) * Width
      BY <1>0
    <3>2. \A p \in Nat : ~(s < p /\ p <= s + 0)
      BY <3>1
    <3> QED
      BY <2>1, <3>1, <3>2 DEF Undisturbed
  <2>6. buf'[c] \in 0..(2^0 - 1) /\ buf'[c] = Frame(air)[c] \div 2^(Width - 0)
    BY <2>3, <2>4, PrefixEnds
  <2> QED
    BY <2>1, <2>2, <2>5, <2>6 DEF Holds
<1>2. CASE StoreBit
  <2>1. PICK k \in 0..(Width - 1) :
           /\ j \in 0..4 /\ i = j * Width + k
           /\ \/ k = Width - 1 /\ j' = j + 1 /\ i' = (j + 1) * Width
              \/ k < Width - 1 /\ j' = j /\ i' = j * Width + (k + 1)
    BY <1>2, Turn DEF DhtInv
  <2>2. stage = "decode"
    BY <1>2 DEF StoreBit
  <2>3. PICK c0 \in 1..5 : c0 = j + 1
    BY <2>1
  <2>a. /\ \A c \in 1..5, m \in 0..Width : c # c0 /\ Holds(c, m) => Holds(c, m)'
        /\ Holds(c0, k + 1)'
    BY <1>2, <2>1, <2>3, BitStored
  <2> SUFFICES ASSUME NEW c \in 1..5 PROVE Holds(c, Stored(c))'
    BY DEF DecodeInv
  <2>4. (j + 1) * Width - (j + 1) * Width = 0 /\ (j * Width + (k + 1)) - j * Width = k + 1
    BY <1>0, <2>1
  <2>5. Holds(c, Stored(c))
    BY <2>2 DEF DecodeInv
  <2>6. CASE c = j + 1
    <3>1. Stored(c)' = k + 1
      <4>1. CASE k = Width - 1 /\ j' = j + 1
        <5>1. c <= j' /\ Width = k + 1
          BY <1>0, <2>1, <2>6, <4>1
        <5> QED
          BY <5>1 DEF Stored
      <4>2. CASE j' = j /\ i' = j * Width + (k + 1)
        <5>1. ~(c <= j') /\ c = j' + 1 /\ i' - j' * Width = k + 1
          BY <2>1, <2>4, <2>6, <4>2
        <5> QED
          BY <5>1 DEF Stored
      <4> QED
        BY <2>1, <4>1, <4>2
    <3>2. c = c0
      BY <2>3, <2>6
    <3> QED
      BY <2>a, <3>1, <3>2
  <2>7. CASE c # j + 1
    <3>1. Stored(c)' = Stored(c) /\ Stored(c) \in 0..Width
      <4>1. CASE c <= j
        <5>1. c <= j'
          BY <2>1, <4>1
        <5>2. Width \in 0..Width
          BY <1>0
        <5> QED
          BY <4>1, <5>1, <5>2 DEF Stored
      <4>2. CASE ~(c <= j)
        <5>1. ~(c <= j')
          BY <2>1, <2>7, <4>2
        <5>2. Stored(c) = 0 /\ 0 \in 0..Width
          BY <1>0, <2>7, <4>2 DEF Stored
        <5>3. c = j' + 1 => i' - j' * Width = 0
          BY <2>1, <2>4, <2>7
        <5>4. Stored(c)' = 0
          BY <5>1, <5>3 DEF Stored
        <5> QED
          BY <5>2, <5>4
      <4> QED
        BY <4>1, <4>2
    <3> QED
      BY <2>a, <2>3, <2>5, <2>7, <3>1
  <2> QED
    BY <2>6, <2>7
<1>3. CASE UNCHANGED dht
  <2>1. UNCHANGED <<stage, buf, i, j, air, noise>>
    BY <1>3 DEF dht, decoder
  <2> QED
    BY <2>1 DEF DecodeInv, Holds, Stored, Undisturbed
<1>4. CASE Start \/ Response \/ NoPulse \/ Pulse \/ Verify \/ Cleanup
  <2>1. stage' # "decode"
    BY <1>4 DEF Start, Response, NoPulse, Pulse, Verify, Cleanup
  <2> QED
    BY <2>1 DEF DecodeInv
<1> QED
  BY <1>1, <1>2, <1>3, <1>4 DEF dht_sample_fetch

\* Once all bits are stored, at most one byte is not the one that was sent.
LEMMA OneByteWrong ==
  ASSUME MaxNoise <= 1, DhtInv, DecodeInv, stage = "decode", i = Bits
  PROVE  \A c, c2 \in 1..5 :
           buf[c] # Frame(air)[c] /\ buf[c2] # Frame(air)[c2] => c = c2
<1>0. Width \in Nat \ {0} /\ j \in 0..5
  BY Powers DEF DhtInv, DhtTypeOK
<1>1. PICK k \in 0..(Width - 1) : i = j * Width + k
  BY DEF DhtInv, LoopInv
<1>2. j = 5
  <2>1. CASE j <= 4
    <3>1. (4 - j) * Width >= 0 /\ (4 - j) * Width = 4 * Width - j * Width /\ j * Width \in Int
      BY <1>0, <2>1
    <3> QED
      BY <1>0, <1>1, <3>1 DEF Bits
  <2> QED
    BY <1>0, <2>1
<1>3. air \in Quantities /\ noise \in SUBSET (1..Bits) /\ Cardinality(noise) <= 1
  <2>1. noise \in SUBSET (1..Bits) /\ Cardinality(noise) <= MaxNoise /\ air \in Quantities
    BY DEF DhtInv, NoiseInv
  <2>2. Cardinality(noise) \in Nat /\ MaxNoise \in Nat
    BY <2>1, PulsesFinite, FS_CardinalityType, DhtAssumption
  <2> QED
    BY <2>1, <2>2
<1>4. ASSUME NEW c \in 1..5, buf[c] # Frame(air)[c]
      PROVE  \E n \in noise : (c - 1) * Width < n /\ n <= (c - 1) * Width + Width
  <2>1. Stored(c) = Width
    BY <1>2 DEF Stored
  <2>2. buf[c] = Frame(air)[c] \div 2^(Width - Width) <=> Undisturbed(c, Width)
    BY <2>1 DEF DecodeInv, Holds
  <2>3. Frame(air)[c] \div 2^(Width - Width) = Frame(air)[c]
    BY <1>3, FrameBytes, QuantitiesAreAirs, PrefixEnds
  <2> QED
    BY <1>4, <2>2, <2>3 DEF Undisturbed
<1>5. ASSUME NEW c \in 1..5, NEW c2 \in 1..5, c < c2, NEW n \in Int,
             n <= (c - 1) * Width + Width
      PROVE  ~((c2 - 1) * Width < n)
  <2>1. (c2 - 1 - c) * Width >= 0
    BY <1>0, <1>5
  <2>2. (c2 - 1 - c) * Width = (c2 - 1) * Width - c * Width
        /\ c * Width = (c - 1) * Width + Width /\ (c2 - 1) * Width \in Int /\ c * Width \in Int
    BY <1>0
  <2> QED
    BY <1>5, <2>1, <2>2
<1> SUFFICES ASSUME NEW c \in 1..5, NEW c2 \in 1..5,
                    buf[c] # Frame(air)[c], buf[c2] # Frame(air)[c2]
             PROVE  c = c2
  OBVIOUS
<1>6. PICK n \in noise : (c - 1) * Width < n /\ n <= (c - 1) * Width + Width
  BY <1>4
<1>7. PICK n2 \in noise : (c2 - 1) * Width < n2 /\ n2 <= (c2 - 1) * Width + Width
  BY <1>4
<1>8. n = n2 /\ n \in Int
  BY <1>3, OnePulse
<1>9. ~(c < c2) /\ ~(c2 < c)
  BY <1>5, <1>6, <1>7, <1>8
<1> QED
  BY <1>9

LEMMA KeptStep ==
  ASSUME MaxNoise <= 1, DhtInv, DecodeInv, KeptInv, [dht_sample_fetch]_dht
  PROVE  KeptInv'
<1>1. CASE Verify /\ ChecksumRight(buf)
  <2>1. /\ stage = "decode" /\ i = Bits
        /\ sample' = [c \in 1..4 |-> buf[c]] /\ last' = air
    BY <1>1 DEF Verify
  <2>2. air \in Airs /\ \A c \in 1..5 : buf[c] \in Byte
    BY QuantitiesAreAirs DEF DhtInv, NoiseInv, DhtTypeOK
  <2>3. /\ \A c \in 1..4 : Frame(air)[c] = Payload(air)[c]
        /\ Checksum(Frame(air)) = Frame(air)[5]
        /\ \A c \in 1..5 : Frame(air)[c] \in Byte
    BY <2>2, FrameBytes
  <2>4. \A c, c2 \in 1..5 : buf[c] # Frame(air)[c] /\ buf[c2] # Frame(air)[c2] => c = c2
    BY <2>1, OneByteWrong
  <2>5. Checksum(buf) = buf[5]
    BY <1>1 DEF ChecksumRight
  <2>6. \A c \in 1..5 : buf[c] = Frame(air)[c]
    BY <2>2, <2>3, <2>4, <2>5, OneByteCaught
  <2>7. \A c \in 1..4 : c \in 1..5
    OBVIOUS
  <2>8. \A c \in 1..4 : sample'[c] = Payload(last')[c]
    BY <2>1, <2>3, <2>6, <2>7, Zenon
  <2> QED
    BY <2>8 DEF KeptInv, Payload
<1>2. CASE ~(Verify /\ ChecksumRight(buf))
  <2>1. UNCHANGED <<sample, last>>
    BY <1>2 DEF dht_sample_fetch, Start, Response, NoPulse, Pulse, Threshold, StoreBit, Verify,
                Cleanup, dht
  <2> QED
    BY <2>1 DEF KeptInv, Payload
<1> QED
  BY <1>1, <1>2

\* The two bytes of a word are taken apart and put together again.
LEMMA BytesOfWord ==
  ASSUME NEW x \in Nat
  PROVE  (x \div 2^Width) * 2^Width + (x % 2^Width) = x
<1>1. \A w \in Nat \ {0} : (x \div w) * w + (x % w) = x
  BY SMT
<1> QED
  BY <1>1, Powers

\* val1 and val2 of a number of tenths, and of its negation.
LEMMA TenthsOfValue ==
  ASSUME NEW r \in Nat
  PROVE  Quantity(Value(r)) = r /\ Quantity(Negated(Value(r))) = -r
<1>1. /\ Value(r)[1] = r \div 10 /\ Value(r)[2] = (r % 10) * 100000
      /\ Negated(Value(r))[1] = -(r \div 10) /\ Negated(Value(r))[2] = -((r % 10) * 100000)
  BY SMT DEF Value, Negated
<1>2. /\ ((r % 10) * 100000) \div 100000 = r % 10
      /\ (-((r % 10) * 100000)) \div 100000 = -(r % 10)
      /\ (r \div 10) * 10 + (r % 10) = r
  BY SMT
<1>3. r \div 10 \in Int /\ r % 10 \in Int
  BY SMT
<1> QED
  BY <1>1, <1>2, <1>3, SMT DEF Quantity

\* dht_channel_get inverts what the sensor sends: for every width of a byte and every air, from
\* the bytes of a frame it returns the frame's humidity and its temperature, whose sign is a bit.
THEOREM ChannelsInvert ==
  ASSUME NEW a \in Airs
  PROVE  /\ Quantity(Humidity(Payload(a))) = a[1]
         /\ Quantity(Temperature(Payload(a))) = a[2]
<1> DEFINE half == Word \div 2
           t == IF a[2] < 0 THEN half - a[2] ELSE a[2]
           s == Payload(a)
<1>1. half \in Int
  BY Powers
<1>2. a \in (0..(half - 1)) \X ((1 - half)..(half - 1))
  BY DEF Airs
<1> HIDE DEF half
<1>3. a[1] \in 0..(half - 1) /\ a[2] \in (1 - half)..(half - 1)
  BY <1>2
<1>4. a[1] \in Nat /\ a[2] \in Int /\ a[1] < half /\ a[2] < half /\ -a[2] < half
  BY <1>1, <1>3
<1>5. t \in Nat
  BY <1>1, <1>4
<1> HIDE DEF t
<1>6. s[1] = a[1] \div 2^Width /\ s[2] = a[1] % 2^Width /\ s[3] = t \div 2^Width /\ s[4] = t % 2^Width
  BY DEF Payload, t, half
<1> HIDE DEF s
<1>7. Raw(s, 1) = a[1] /\ Raw(s, 3) = t
  <2>1. /\ (a[1] \div 2^Width) * 2^Width + (a[1] % 2^Width) = a[1]
        /\ (t \div 2^Width) * 2^Width + (t % 2^Width) = t
    BY <1>4, <1>5, BytesOfWord
  <2> QED
    BY <1>6, <2>1 DEF Raw
<1>8. Quantity(Humidity(s)) = a[1]
  <2>1. ~(a[1] >= half)
    BY <1>1, <1>4
  <2>2. Humidity(s) = Value(a[1])
    BY <1>7, <2>1 DEF Humidity, half
  <2> QED
    BY <1>4, <2>2, TenthsOfValue
<1>9. Quantity(Temperature(s)) = a[2]
  <2>1. CASE a[2] < 0
    <3>1. t = half - a[2] /\ t >= half /\ t % half = -a[2] /\ -a[2] \in Nat
      <4>1. t = half + (-a[2]) /\ -a[2] \in Nat /\ half \in Nat \ {0}
        BY <1>1, <1>4, <2>1 DEF t
      <4>2. \A h \in Nat \ {0}, m \in Nat : m < h => (h + m) % h = m
        BY SMT
      <4> QED
        BY <1>4, <4>1, <4>2
    <3>2. Temperature(s) = Negated(Value(-a[2]))
      BY <1>7, <3>1 DEF Temperature, half
    <3> QED
      BY <1>4, <3>1, <3>2, TenthsOfValue
  <2>2. CASE ~(a[2] < 0)
    <3>1. t = a[2] /\ ~(t >= half) /\ t % half = a[2] /\ a[2] \in Nat
      <4>1. t = a[2] /\ a[2] \in Nat /\ half \in Nat \ {0}
        BY <1>1, <1>4, <2>2 DEF t
      <4> QED
        BY <1>4, <4>1
    <3>2. Temperature(s) = Value(a[2])
      BY <1>7, <3>1 DEF Temperature, half
    <3> QED
      BY <3>1, <3>2, TenthsOfValue
  <2> QED
    BY <2>1, <2>2
<1> QED
  BY <1>8, <1>9 DEF s

LEMMA KeptRead == DhtInv /\ KeptInv => ReadingExact
<1> SUFFICES ASSUME DhtInv, KeptInv PROVE ReadingExact
  OBVIOUS
<1>1. last \in Airs
  BY QuantitiesAreAirs DEF DhtInv, DhtTypeOK
<1>2. /\ sample[1] = Payload(last)[1] /\ sample[2] = Payload(last)[2]
      /\ sample[3] = Payload(last)[3] /\ sample[4] = Payload(last)[4]
  BY DEF KeptInv
<1>3. Raw(sample, 1) = Raw(Payload(last), 1) /\ Raw(sample, 3) = Raw(Payload(last), 3)
  BY <1>2 DEF Raw
<1>4. Humidity(sample) = Humidity(Payload(last)) /\ Temperature(sample) = Temperature(Payload(last))
  BY <1>3, Zenon DEF Humidity, Temperature
<1> QED
  BY <1>1, <1>4, ChannelsInvert DEF ReadingExact

\* If the line changes one pulse of a frame at most, then after any number of fetches, whatever
\* they came to, both channels return the quantities of the last frame kept.
THEOREM ReadingsAreExact ==
  ASSUME MaxNoise <= 1
  PROVE  DhtSpec => []ReadingExact
<1>1. dht_init => DecodeInv /\ KeptInv
  <2> SUFFICES ASSUME dht_init PROVE DecodeInv /\ KeptInv
    OBVIOUS
  <2>1. stage = "idle" /\ sample = [c \in 1..4 |-> 0] /\ last = <<0, 0>>
    BY DEF dht_init
  <2>2. 0 \div 2^Width = 0 /\ 0 % 2^Width = 0
    BY Powers
  <2>3. Payload(last) = <<0, 0, 0, 0>>
    BY <2>1, <2>2 DEF Payload
  <2> QED
    BY <2>1, <2>3 DEF DecodeInv, KeptInv
<1>2. DhtInv /\ DhtInv' /\ DecodeInv /\ KeptInv /\ [dht_sample_fetch]_dht => DecodeInv' /\ KeptInv'
  BY DecodeStep, KeptStep
<1> QED
  BY <1>1, <1>2, DhtInvariance, KeptRead, PTL DEF DhtSpec
----------------------------------------------------------------------------
(* AdcNrfx.                                                                 *)

\* What the converter's driver does, in any order that its state allows.
AdcNext ==
  \/ \E s \in Setups : adc_nrfx_channel_setup(s)
  \/ \E r \in Requests : ReadRefused(r) \/ ReadStarts(r)
  \/ event_handler
  \/ ReadReturns

\* While a sampling is under way a thread waits for it; once it waits for none, it has not
\* been told yet that its read has ended.
WaitInv ==
  /\ converting => reader = "wait" /\ sync = 0
  /\ sync = 1 => reader = "wait"

\* The samples of the last read, up to those of the sampling under way, have room, and the
\* pointer is where the samplings before it have moved it.
PointerInv ==
  converting =>
    /\ sequence.channels \subseteq Channels /\ enabled = sequence.channels
    /\ active_channels = Cardinality(sequence.channels)
    /\ m_data_buffer = sampling_index * Cardinality(sequence.channels)
    /\ sampling_index <= sequence.extra
    /\ sequence.size >= NeededBufferSize(sequence)

AdcInv == AdcTypeOK /\ WaitInv /\ PointerInv /\ SamplesInPlace

\* The place of a sample is inside the buffer.
LEMMA PlaceFits ==
  ASSUME NEW n \in Nat, NEW extra \in Nat, NEW x \in Nat, NEW p \in Nat, x <= extra, p < n
  PROVE  x * n + p < n * (1 + extra)
<1>1. PICK k \in Nat : extra = x + k
  <2>1. extra - x \in Nat /\ extra = x + (extra - x)
    OBVIOUS
  <2> QED
    BY <2>1
<1>2. n * (1 + extra) = n + x * n + k * n
  BY <1>1
<1>3. k * n \in Nat /\ x * n \in Nat
  OBVIOUS
<1> QED
  BY <1>2, <1>3

\* A channel's place among the enabled ones.
LEMMA PlaceAmong ==
  ASSUME NEW S, S \subseteq Channels, NEW c \in S
  PROVE  /\ Cardinality(S) \in 0..ChannelCount
         /\ Cardinality({d \in S : d < c}) \in Nat
         /\ Cardinality({d \in S : d < c}) < Cardinality(S)
<1>1. IsFiniteSet(Channels) /\ Cardinality(Channels) = ChannelCount
  BY AdcAssumption, FS_Interval DEF Channels
<1>2. IsFiniteSet(S) /\ Cardinality(S) <= ChannelCount /\ Cardinality(S) \in Nat
  BY <1>1, FS_Subset, FS_CardinalityType
<1> DEFINE before == {d \in S : d < c}
<1>3. c \notin before
  <2>1. c \in Int
    BY AdcAssumption DEF Channels
  <2> QED
    BY <2>1
<1>4. before \in SUBSET S /\ before # S
  BY <1>3
<1>5. /\ IsFiniteSet(before) /\ Cardinality(before) \in Nat
      /\ Cardinality(before) <= Cardinality(S) /\ Cardinality(S) # Cardinality(before)
  BY <1>2, <1>4, FS_Subset, FS_CardinalityType
<1> HIDE DEF before
<1>6. Cardinality(before) < Cardinality(S)
  BY <1>2, <1>5
<1> QED
  BY <1>2, <1>5, <1>6, AdcAssumption DEF before

\* Every step of the driver keeps the types.
LEMMA AdcTypes ==
  ASSUME AdcTypeOK, AdcNext \/ UNCHANGED adc
  PROVE  AdcTypeOK'
<1> USE AdcAssumption
<1>1. ASSUME NEW s \in Setups, adc_nrfx_channel_setup(s) PROVE AdcTypeOK'
  <2> DEFINE Settings == [scaling : {"1/3", "2/3", "1"} \X BOOLEAN,
                          reference : {"unset", "internal"}]
  <2>1. config' \in [Channels -> Settings]
    <3>1. CASE s.channel_id < ChannelCount /\ s.acquisition /\ ~s.differential /\ GainValid(s)
      <4>1. s.channel_id \in Channels
        <5>1. s.channel_id \in Nat
          OBVIOUS
        <5> QED
          BY <3>1, <5>1 DEF Channels
      <4>2. s.gain \in {"1/3", "2/3", "1"}
        BY <3>1 DEF GainValid
      <4>3. config[s.channel_id].reference \in {"unset", "internal"}
        BY <4>1 DEF AdcTypeOK
      <4> DEFINE new == [scaling |-> <<s.gain, s.input = 0>>,
                         reference |-> IF SetupValid(s) THEN s.reference
                                       ELSE config[s.channel_id].reference]
      <4>4. new.reference \in {"unset", "internal"}
        BY <4>3 DEF SetupValid
      <4>5. (s.input = 0) \in BOOLEAN
        OBVIOUS
      <4>6. new \in Settings
        BY <4>2, <4>4, <4>5
      <4>7. config' = [config EXCEPT ![s.channel_id] = new]
        BY <1>1, <3>1 DEF adc_nrfx_channel_setup
      <4> HIDE DEF new, Settings
      <4>8. config \in [Channels -> Settings]
        BY DEF AdcTypeOK, Settings
      <4> QED
        BY <4>1, <4>6, <4>7, <4>8
    <3>2. CASE ~(s.channel_id < ChannelCount /\ s.acquisition /\ ~s.differential /\ GainValid(s))
      BY <1>1, <3>2 DEF adc_nrfx_channel_setup, AdcTypeOK
    <3> QED
      BY <3>1, <3>2
  <2> QED
    BY <1>1, <2>1 DEF adc_nrfx_channel_setup, AdcTypeOK, m_data, ctx
<1>2. ASSUME NEW r \in Requests, ReadRefused(r) PROVE AdcTypeOK'
  BY <1>2 DEF ReadRefused, SelectionValid, AdcTypeOK, m_data, ctx
<1>3. ASSUME NEW r \in Requests, ReadStarts(r) PROVE AdcTypeOK'
  <2>1. \E c : c \in r.channels /\ r.channels \subseteq Channels
    BY <1>3 DEF ReadStarts, SelectionValid
  <2>2. active_channels' \in 0..ChannelCount /\ enabled' \subseteq Channels
    BY <1>3, <2>1, PlaceAmong DEF ReadStarts
  <2> QED
    BY <1>3, <2>2 DEF ReadStarts, AdcTypeOK
<1>4. ASSUME converting, Converted PROVE written' \subseteq Nat \X Nat \X Channels
  <2>1. \A c \in enabled : Position(c) \in Nat
    BY PlaceAmong DEF AdcTypeOK, Position
  <2>2. \A c \in enabled : <<m_data_buffer + Position(c), sampling_index, c>> \in Nat \X Nat \X Channels
    BY <2>1 DEF AdcTypeOK
  <2> QED
    BY <1>4, <2>2 DEF Converted, AdcTypeOK
<1>5. CASE SampleAgain
  BY <1>4, <1>5 DEF SampleAgain, AdcTypeOK
<1>6. CASE SampleRepeat
  BY <1>4, <1>6 DEF SampleRepeat, AdcTypeOK, m_data, ctx
<1>7. CASE SampleLast
  <2>1. converting /\ Converted /\ converting' = FALSE /\ sync' = 1
        /\ UNCHANGED <<config, reader, sequence, enabled, sampling_index>> /\ UNCHANGED m_data
    BY <1>7 DEF SampleLast
  <2>2. written' \subseteq Nat \X Nat \X Channels
    BY <1>4, <2>1
  <2>3. UNCHANGED m_data_buffer /\ UNCHANGED active_channels
    BY <2>1 DEF m_data
  <2>4. converting' \in BOOLEAN /\ sync' \in 0..1
    <3>1. 1 \in 0..1
      OBVIOUS
    <3> QED
      BY <2>1, <3>1, Zenon
  <2> QED
    BY <2>1, <2>2, <2>3, <2>4, Zenon DEF AdcTypeOK
<1>8. CASE ReadReturns
  BY <1>8 DEF ReadReturns, AdcTypeOK, m_data
<1>9. CASE UNCHANGED adc
  BY <1>9 DEF adc, AdcTypeOK, m_data, ctx
<1> QED
  BY <1>1, <1>2, <1>3, <1>5, <1>6, <1>7, <1>8, <1>9 DEF AdcNext, event_handler

\* What a sampling writes is in place.
LEMMA ConvertedInPlace ==
  ASSUME AdcInv, converting, Converted, UNCHANGED sequence
  PROVE  SamplesInPlace'
<1> SUFFICES ASSUME NEW w \in written'
             PROVE  /\ w[1] < sequence.size
                    /\ w[1] = w[2] * Cardinality(sequence.channels)
                                + Cardinality({d \in sequence.channels : d < w[3]})
  BY DEF SamplesInPlace
<1>1. CASE w \in written
  BY <1>1 DEF AdcInv, SamplesInPlace
<1>2. ASSUME NEW c \in enabled, w = <<m_data_buffer + Position(c), sampling_index, c>>
      PROVE  /\ w[1] < sequence.size
             /\ w[1] = w[2] * Cardinality(sequence.channels)
                         + Cardinality({d \in sequence.channels : d < w[3]})
  <2> DEFINE n == Cardinality(sequence.channels)
             p == Cardinality({d \in sequence.channels : d < c})
  <2>1. /\ sequence.channels \subseteq Channels /\ enabled = sequence.channels
        /\ m_data_buffer = sampling_index * n /\ sampling_index <= sequence.extra
        /\ sequence.size >= n * (1 + sequence.extra)
    BY DEF AdcInv, PointerInv, NeededBufferSize
  <2>2. n \in Nat /\ p \in Nat /\ p < n
    <3>1. n \in 0..ChannelCount /\ p \in Nat /\ p < n
      BY <1>2, <2>1, PlaceAmong
    <3> QED
      BY <3>1, AdcAssumption
  <2>3. sequence.extra \in Nat /\ sequence.size \in Nat /\ sampling_index \in Nat
    BY AdcAssumption DEF AdcInv, AdcTypeOK
  <2>4. w[1] = sampling_index * n + p /\ w[2] = sampling_index /\ w[3] = c
    BY <1>2, <2>1 DEF Position
  <2> HIDE DEF n, p
  <2>5. sampling_index * n + p < n * (1 + sequence.extra)
    BY <2>1, <2>2, <2>3, PlaceFits
  <2>6. w[1] < sequence.size
    <3>1. sampling_index * n + p \in Nat /\ n * (1 + sequence.extra) \in Nat
      BY <2>2, <2>3
    <3> QED
      BY <2>1, <2>3, <2>4, <2>5, <3>1
  <2> QED
    BY <2>4, <2>6 DEF n, p
<1> QED
  BY <1>1, <1>2 DEF Converted

LEMMA AdcStep ==
  ASSUME AdcInv, AdcNext \/ UNCHANGED adc
  PROVE  AdcInv'
<1>0. AdcTypeOK' /\ AdcTypeOK
  BY AdcTypes DEF AdcInv
<1> USE DEF AdcInv, WaitInv
<1>1. ASSUME NEW s \in Setups, adc_nrfx_channel_setup(s) PROVE AdcInv'
  BY <1>0, <1>1 DEF adc_nrfx_channel_setup, PointerInv, SamplesInPlace, m_data, ctx
<1>2. ASSUME NEW r \in Requests, ReadRefused(r) PROVE AdcInv'
  BY <1>0, <1>2 DEF ReadRefused, PointerInv, SamplesInPlace, m_data, ctx
<1>3. ASSUME NEW r \in Requests, ReadStarts(r) PROVE AdcInv'
  <2>1. Cardinality(r.channels) \in Nat /\ r.extra \in Nat
    <3>1. Cardinality(r.channels) \in Nat
      BY AdcAssumption, FS_CardinalityType
    <3> QED
      BY <3>1, AdcAssumption
  <2>2. 0 * Cardinality(r.channels) = 0 /\ 0 <= r.extra
    BY <2>1
  <2>3. PointerInv'
    BY <1>3, <2>2 DEF ReadStarts, SelectionValid, PointerInv, NeededBufferSize
  <2>4. SamplesInPlace'
    BY <1>3 DEF ReadStarts, SamplesInPlace
  <2>5. WaitInv'
    BY <1>0, <1>3 DEF ReadStarts, AdcTypeOK
  <2> QED
    BY <1>0, <2>3, <2>4, <2>5
<1>4. CASE SampleAgain
  <2>1. SamplesInPlace'
    BY <1>4, ConvertedInPlace DEF SampleAgain
  <2>2. /\ m_data_buffer' = m_data_buffer + active_channels /\ sampling_index' = sampling_index + 1
        /\ sampling_index < sequence.extra
        /\ UNCHANGED <<reader, sequence, active_channels, enabled, converting, sync>>
    BY <1>4 DEF SampleAgain
  <2>3. converting
    BY <1>4 DEF SampleAgain
  <2>4. /\ active_channels \in Nat /\ sampling_index \in Nat /\ sequence.extra \in Nat
    BY <1>0, AdcAssumption DEF AdcTypeOK
  <2>5. m_data_buffer' = sampling_index' * active_channels /\ sampling_index' <= sequence.extra
    BY <2>2, <2>3, <2>4 DEF PointerInv
  <2>6. PointerInv'
    BY <2>2, <2>3, <2>5 DEF PointerInv, NeededBufferSize
  <2> QED
    BY <1>0, <2>1, <2>2, <2>6
<1>5. CASE SampleRepeat
  <2>1. SamplesInPlace'
    BY <1>5, ConvertedInPlace DEF SampleRepeat
  <2> QED
    BY <1>0, <1>5, <2>1 DEF SampleRepeat, PointerInv, NeededBufferSize, m_data, ctx
<1>6. CASE SampleLast
  <2>1. SamplesInPlace'
    BY <1>6, ConvertedInPlace DEF SampleLast
  <2>2. converting /\ converting' = FALSE /\ sync' = 1 /\ UNCHANGED reader
    BY <1>6, Zenon DEF SampleLast
  <2> QED
    BY <1>0, <2>1, <2>2 DEF PointerInv
<1>7. CASE ReadReturns
  <2>1. /\ reader' = "out" /\ sync = 1 /\ sync' = 0
        /\ UNCHANGED <<sequence, enabled, converting, sampling_index, written>> /\ UNCHANGED m_data
    BY <1>7 DEF ReadReturns
  <2>2. ~converting
    BY <2>1
  <2> QED
    BY <1>0, <2>1, <2>2 DEF PointerInv, SamplesInPlace
<1>8. CASE UNCHANGED adc
  BY <1>0, <1>8 DEF adc, PointerInv, NeededBufferSize, SamplesInPlace, m_data, ctx
<1> QED
  BY <1>1, <1>2, <1>3, <1>4, <1>5, <1>6, <1>7, <1>8 DEF AdcNext, event_handler
----------------------------------------------------------------------------
(* Readings.                                                                *)

\* While main reads, the regulator counts it.
BalanceInv == round \in {"fetch", "temperature", "humidity", "disable"} => refcount # 0

\* Which readings the steps of a round have behind them.
StepsInv ==
  /\ round = "humidity" => "temperature" \in fresh
  /\ round \in {"disable", "adc", "converting"} => {"temperature", "humidity"} \subseteq fresh
  /\ ReportFresh

ReadingsInv == TypeOK /\ AdcInv /\ BalanceInv /\ StepsInv

\* Every step of a round is one of the driver, or leaves the driver alone.
LEMMA RoundsUseTheDriver == [Next]_vars => AdcNext \/ UNCHANGED adc
  BY DEF Next, Reading, Setup, Enable, SampleFetch, GetTemperature, GetHumidity, Step, FetchFails,
         Disable, DisableFails, Sample, SampleFails, Convert, Sampled, Rest, vars, AdcNext

\* A voltage is cut to sixteen bits.
LEMMA VoltageFits == \A v \in Values, o \in Offsets : Voltage(v, o) \in UInt16
<1> SUFFICES ASSUME NEW v \in Values, NEW o \in Offsets PROVE Voltage(v, o) \in UInt16
  OBVIOUS
<1>1. v \in Nat /\ o \in Int
  BY ReadingsAssumption
<1>2. Conversion(v) \in Int
  BY <1>1 DEF Conversion
<1>3. PowerOffset(o) \in Int
  BY <1>1 DEF PowerOffset
<1> QED
  <2>1. \A x \in Int : x % 65536 \in UInt16
    BY SMT DEF UInt16
  <2>2. Conversion(v) + PowerOffset(o) \in Int
    BY <1>2, <1>3
  <2> QED
    BY <2>1, <2>2 DEF Voltage

LEMMA ReadingsStep ==
  ASSUME ReadingsInv, [Next]_vars
  PROVE  ReadingsInv'
<1>a. AdcInv' /\ AdcTypeOK'
  BY RoundsUseTheDriver, AdcStep DEF ReadingsInv, AdcInv
<1>b. /\ refcount \in Nat /\ failures \in 0..MaxFailures /\ power \in BOOLEAN
      /\ fresh \subseteq {"temperature", "humidity", "voltage"}
      /\ voltage \in UInt16 /\ report \in {"none", "readings", "error readings", "error adc"}
  BY Zenon DEF ReadingsInv, TypeOK
<1>c. refcount \in Nat /\ failures \in Nat /\ MaxFailures \in Nat
  <2>1. failures \in 0..MaxFailures /\ refcount \in Nat
    BY <1>b
  <2> QED
    BY <2>1, ReadingsAssumption
<1>d. BalanceInv /\ StepsInv
  BY DEF ReadingsInv
<1>1. CASE Setup
  <2>1. round = "setup" /\ UNCHANGED <<fresh, voltage, report, failures>>
    BY <1>1 DEF Setup
  <2>2. \/ round' = "rest" /\ refcount' = 0 /\ power' = FALSE
        \/ round' = "stopped" /\ refcount' = refcount /\ power' = power
    BY <1>1 DEF Setup
  <2>3. power' \in BOOLEAN /\ refcount' \in Nat
    <3>1. power' = FALSE \/ power' = power
      BY <2>2
    <3>2. refcount' = 0 \/ refcount' = refcount
      BY <2>2
    <3>3. power' \in BOOLEAN
      BY <1>b, <3>1, Zenon
    <3> QED
      BY <1>c, <3>2, <3>3
  <2>4. TypeOK'
    BY <1>a, <1>b, <2>1, <2>2, <2>3, Zenon DEF TypeOK
  <2>5. BalanceInv'
    BY <2>2 DEF BalanceInv
  <2>6. StepsInv'
    BY <1>d, <2>1, <2>2 DEF StepsInv, ReportFresh
  <2> QED
    BY <1>a, <2>4, <2>5, <2>6 DEF ReadingsInv
<1>2. CASE Enable
  <2>1. /\ round = "rest" /\ fresh' = {} /\ UNCHANGED <<voltage, failures>>
        /\ \/ round' = "fetch" /\ refcount' = refcount + 1 /\ power' = TRUE /\ UNCHANGED report
           \/ /\ refcount = 0 /\ round' = "reported" /\ report' = "error readings"
              /\ refcount' = refcount /\ power' = power
    BY <1>2 DEF Enable, ErrorReadings
  <2>2. TypeOK'
    <3>1. power' = TRUE \/ power' = power
      BY <2>1
    <3>2. power' \in BOOLEAN
      BY <1>b, <3>1, Zenon
    <3>3. refcount' \in Nat
      <4>1. refcount' = refcount + 1 \/ refcount' = refcount
        BY <2>1
      <4> QED
        BY <1>c, <4>1
    <3> QED
      BY <1>a, <1>b, <2>1, <3>2, <3>3 DEF TypeOK
  <2>3. BalanceInv'
    <3>1. refcount + 1 # 0
      BY <1>c
    <3> QED
      BY <2>1, <3>1 DEF BalanceInv
  <2>4. StepsInv'
    BY <1>d, <2>1 DEF StepsInv, ReportFresh
  <2> QED
    BY <1>a, <2>2, <2>3, <2>4 DEF ReadingsInv
<1>3. CASE SampleFetch \/ GetTemperature \/ GetHumidity
  <2>1. UNCHANGED <<refcount, power, voltage, report, failures>>
    BY <1>3 DEF SampleFetch, GetTemperature, GetHumidity, Step
  <2>2. \/ round = "fetch" /\ round' = "temperature" /\ fresh' = fresh \cup {}
        \/ round = "temperature" /\ round' = "humidity" /\ fresh' = fresh \cup {"temperature"}
        \/ round = "humidity" /\ round' = "disable" /\ fresh' = fresh \cup {"humidity"}
    BY <1>3 DEF SampleFetch, GetTemperature, GetHumidity, Step
  <2>3. TypeOK'
    BY <1>a, <1>b, <2>1, <2>2 DEF TypeOK
  <2>4. BalanceInv'
    BY <1>d, <2>1, <2>2 DEF BalanceInv
  <2>5. StepsInv'
    BY <1>d, <2>1, <2>2 DEF StepsInv, ReportFresh
  <2> QED
    BY <1>a, <2>3, <2>4, <2>5 DEF ReadingsInv
<1>4. CASE FetchFails \/ DisableFails
  <2>1. /\ round \in {"fetch", "temperature", "humidity", "disable"} /\ round' = "reported"
        /\ failures < MaxFailures /\ failures' = failures + 1 /\ report' = "error readings"
        /\ UNCHANGED <<refcount, power, fresh, voltage>>
    BY <1>4 DEF FetchFails, DisableFails, ErrorReadings
  <2>2. TypeOK'
    <3>1. failures' \in 0..MaxFailures
      <4>1. failures' = failures + 1 /\ failures < MaxFailures
        BY <2>1
      <4> QED
        BY <1>c, <4>1
    <3> QED
      BY <1>a, <1>b, <2>1, <3>1 DEF TypeOK
  <2>3. BalanceInv'
    BY <2>1 DEF BalanceInv
  <2>4. StepsInv'
    BY <1>c, <1>d, <2>1 DEF StepsInv, ReportFresh
  <2> QED
    BY <1>a, <2>2, <2>3, <2>4 DEF ReadingsInv
<1>5. CASE Disable
  <2>1. /\ round = "disable" /\ round' = "adc" /\ refcount' = refcount - 1
        /\ UNCHANGED <<fresh, voltage, report, failures>>
    BY <1>5 DEF Disable
  <2>2. power' = (refcount > 1)
    BY <1>5 DEF Disable
  <2>3. refcount # 0
    BY <1>d, <2>1 DEF BalanceInv
  <2>4. refcount' \in Nat
    BY <1>c, <2>1, <2>3
  <2>5. power' \in BOOLEAN
    <3>1. (refcount > 1) \in BOOLEAN
      OBVIOUS
    <3> QED
      BY <2>2, <3>1, Zenon
  <2>6. TypeOK'
    BY <1>a, <1>b, <2>1, <2>4, <2>5, Zenon DEF TypeOK
  <2>7. BalanceInv'
    BY <2>1 DEF BalanceInv
  <2>8. StepsInv'
    BY <1>d, <2>1 DEF StepsInv, ReportFresh
  <2> QED
    BY <1>a, <2>6, <2>7, <2>8 DEF ReadingsInv
<1>6. CASE Sample \/ SampleFails \/ Rest
  <2>1. UNCHANGED <<refcount, power, fresh, voltage, failures>>
    BY <1>6 DEF Sample, SampleFails, Rest
  <2>2. \/ round = "adc" /\ round' = "converting" /\ report' = report
        \/ round = "adc" /\ round' = "reported" /\ report' = "error adc"
        \/ round = "reported" /\ round' = "rest" /\ report' = report
    BY <1>6 DEF Sample, SampleFails, Rest
  <2>3. TypeOK'
    BY <1>a, <1>b, <2>1, <2>2 DEF TypeOK
  <2>4. BalanceInv'
    BY <1>d, <2>1, <2>2 DEF BalanceInv
  <2>5. StepsInv'
    BY <1>d, <2>1, <2>2 DEF StepsInv, ReportFresh
  <2> QED
    BY <1>a, <2>3, <2>4, <2>5 DEF ReadingsInv
<1>7. CASE Sampled
  <2>1. /\ round = "converting" /\ round' = "reported" /\ report' = "readings"
        /\ fresh' = fresh \cup {"voltage"} /\ UNCHANGED <<refcount, power, failures>>
    BY <1>7 DEF Sampled
  <2>2. voltage' \in UInt16
    BY <1>7, VoltageFits DEF Sampled
  <2>3. TypeOK'
    BY <1>a, <1>b, <2>1, <2>2 DEF TypeOK
  <2>4. BalanceInv'
    BY <2>1 DEF BalanceInv
  <2>5. StepsInv'
    <3>1. {"temperature", "humidity"} \subseteq fresh
      BY <1>d, <2>1 DEF StepsInv
    <3>2. fresh \subseteq {"temperature", "humidity", "voltage"}
      BY <1>b
    <3>3. fresh \cup {"voltage"} = {"temperature", "humidity", "voltage"}
      BY <3>1, <3>2
    <3> QED
      BY <2>1, <3>3 DEF StepsInv, ReportFresh
  <2> QED
    BY <1>a, <2>3, <2>4, <2>5 DEF ReadingsInv
<1>8. CASE Convert \/ UNCHANGED vars
  <2>1. UNCHANGED <<round, refcount, power, fresh, voltage, report, failures>>
    BY <1>8 DEF Convert, vars, main
  <2>2. TypeOK'
    BY <1>a, <2>1 DEF TypeOK, ReadingsInv
  <2>3. BalanceInv'
    BY <1>d, <2>1 DEF BalanceInv
  <2>4. StepsInv'
    BY <1>d, <2>1 DEF StepsInv, ReportFresh
  <2> QED
    BY <1>a, <2>2, <2>3, <2>4 DEF ReadingsInv
<1> QED
  BY <1>1, <1>2, <1>3, <1>4, <1>5, <1>6, <1>7, <1>8 DEF Next, Reading

LEMMA ReadingsInvariance == Spec => []ReadingsInv
<1>1. Init => ReadingsInv
  <2> SUFFICES ASSUME Init PROVE ReadingsInv
    OBVIOUS
  <2>1. AdcTypeOK
    <3>1. /\ config = [c \in Channels |-> Unset] /\ reader = "out" /\ sequence \in Requests
          /\ enabled = {} /\ m_data_buffer = 0 /\ active_channels = 0
          /\ converting = FALSE /\ sampling_index = 0 /\ sync = 0 /\ written = {}
      BY DEF Init, AdcInit
    <3>2. Unset \in [scaling : {"1/3", "2/3", "1"} \X BOOLEAN, reference : {"unset", "internal"}]
      BY DEF Unset
    <3>3. config \in [Channels -> [scaling : {"1/3", "2/3", "1"} \X BOOLEAN,
                                   reference : {"unset", "internal"}]]
      BY <3>1, <3>2, Zenon
    <3>4. 0 \in 0..ChannelCount /\ 0 \in 0..1 /\ 0 \in Nat
      BY AdcAssumption
    <3> QED
      BY <3>1, <3>3, <3>4, Zenon DEF AdcTypeOK
  <2>2. AdcInv
    BY <2>1 DEF Init, AdcInit, AdcInv, WaitInv, PointerInv, SamplesInPlace
  <2>3. /\ round = "setup" /\ refcount = 1 /\ power = TRUE /\ fresh = {} /\ voltage = 0
        /\ report = "none" /\ failures = 0
    BY DEF Init
  <2>4. 0 \in 0..MaxFailures /\ 0 \in UInt16 /\ 1 \in Nat
    BY ReadingsAssumption, SMT DEF UInt16
  <2>5. TypeOK
    BY <2>1, <2>3, <2>4, Zenon DEF TypeOK
  <2> QED
    BY <2>2, <2>3, <2>5 DEF ReadingsInv, BalanceInv, StepsInv, ReportFresh
<1> QED
  BY <1>1, ReadingsStep, PTL DEF Spec

\* The types of the readings and of the converter, whatever it is set up and asked for.
THEOREM ReadingsTyping == Spec => []TypeOK
  BY ReadingsInvariance, PTL DEF ReadingsInv

\* For every set of requests, through any number of samplings and repetitions, a sample lands
\* at its place and inside the buffer that the request was given.
THEOREM SamplesLand == Spec => []SamplesInPlace
<1>1. ReadingsInv => SamplesInPlace
  BY DEF ReadingsInv, AdcInv
<1> QED
  BY <1>1, ReadingsInvariance, PTL

\* A message of readings never carries a value of an earlier round.
THEOREM ReportsAreFresh == Spec => []ReportFresh
<1>1. ReadingsInv => ReportFresh
  BY DEF ReadingsInv, StepsInv
<1> QED
  BY <1>1, ReadingsInvariance, PTL
=============================================================================
