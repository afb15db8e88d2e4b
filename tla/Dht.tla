-------------------------------- MODULE Dht --------------------------------
(***************************************************************************)
(* drivers/sensor/aosong/dht/dht.c with interrupts locked                  *)
(* (CONFIG_DHT_TIMER_LOCK_IRQS) and a dht22: a fetch measures the pulses   *)
(* of a frame on the data line, tells short from long ones by the average  *)
(* of the extremes, and keeps the four bytes whose checksum is right.      *)
(* The sensor and the timer are external.                                  *)
(***************************************************************************)
EXTENDS Integers, Sequences, FiniteSets

CONSTANTS
  Width,       \* bits of a byte, 8
  Zeros,       \* what dht_measure_signal_duration returns for the pulse of a 0 ...
  Ones,        \* ... and for that of a 1, in ticks of the timer
  Quantities,  \* <<humidity, temperature>> of the air, in tenths
  MaxNoise     \* bound: pulses of a frame that the line turns into the other kind

Word == 2^(2 * Width)
Byte == 0..(2^Width - 1)
Bits == 5 * Width  \* DHT_DATA_BITS_NUM

ASSUME DhtAssumption ==
  /\ Width \in Nat \ {0}
  /\ Zeros \subseteq Nat /\ Ones \subseteq Nat /\ MaxNoise \in Nat
  /\ Quantities \subseteq (0..(Word \div 2 - 1)) \X ((1 - Word \div 2)..(Word \div 2 - 1))

\* What the provers, to which ^ is any operator, have to be told of it.
ASSUME PowersAssumption ==
  /\ 2^0 = 1 /\ Word = 2^Width * 2^Width
  /\ \A n \in 0..Width : 2^n \in 1..2^Width
  /\ \A n \in 1..Width : 2^n = 2 * 2^(n - 1)

\* The two ranges lie far enough apart for the average of one of each to part them.
ASSUME DurationsApart ==
  \A z, z2 \in Zeros, o, o2 \in Ones : 2 * (z2 + 1) <= z + o /\ z + o <= 2 * o2 + 1

VARIABLES
  stage,            \* where dht_sample_fetch is
  air,              \* the quantities that the sensor sends (external)
  noise,            \* which pulses of this frame the line changed (external)
  signal_duration,  \* the pulses measured so far
  avg_duration,
  buf,              \* the bytes of the frame, their bits shifted in from the right
  i,                \* bits stored in buf ...
  j,                \* ... and bytes of it that are complete
  sample,           \* drv_data->sample
  last,             \* history: the air of the last frame kept
  pin,              \* "inactive" or "input"
  timer,            \* is the counter running
  locked            \* are interrupts locked

hardware == <<pin, timer, locked>>
decoder == <<buf, i, j>>
dht == <<stage, air, noise, signal_duration, avg_duration, decoder, sample, last, hardware>>

\* Type invariant.
DhtTypeOK ==
  /\ stage \in {"idle", "response", "data start", "bits", "decode", "cleanup"}
  /\ air \in Quantities /\ noise \subseteq 1..Bits
  /\ signal_duration \in Seq(Zeros \cup Ones)
  /\ avg_duration \in Int
  /\ buf \in [1..5 -> Byte] /\ i \in 0..Bits /\ j \in 0..5
  /\ sample \in [1..4 -> Byte]
  /\ last \in Quantities \cup {<<0, 0>>}
  /\ pin \in {"inactive", "input"} /\ timer \in BOOLEAN /\ locked \in BOOLEAN
----------------------------------------------------------------------------
\* The sensor sends humidity, then temperature as a sign and a magnitude, then their sum.
Payload(a) ==
  LET t == IF a[2] < 0 THEN Word \div 2 - a[2] ELSE a[2]
  IN  <<a[1] \div 2^Width, a[1] % 2^Width, t \div 2^Width, t % 2^Width>>

Checksum(s) == (s[1] + s[2] + s[3] + s[4]) % 2^Width

Frame(a) == Append(Payload(a), Checksum(Payload(a)))

\* The n-th bit of a frame, the highest of each byte first.
Bit(f, n) ==
  (f[(n - 1) \div Width + 1] \div 2^(Width - 1 - ((n - 1) % Width))) % 2

\* A frame has more than one bit of each kind.  It takes two to tell long pulses from short
\* ones when the line changes one.  All but the frame of nothing but zeros have two of each.
ASSUME FramesMixed ==
  \A a \in Quantities, bit \in {0, 1} :
    \E m, n \in 1..Bits : m # n /\ Bit(Frame(a), m) = bit /\ Bit(Frame(a), n) = bit
----------------------------------------------------------------------------
Cleared == [c \in 1..5 |-> 0]

dht_init ==
  /\ stage = "idle" /\ air \in Quantities /\ noise = {}
  /\ signal_duration = <<>> /\ avg_duration = 0
  /\ buf = Cleared /\ i = 0 /\ j = 0
  /\ sample = [c \in 1..4 |-> 0] /\ last = <<0, 0>>
  /\ pin = "inactive" /\ timer = FALSE /\ locked = FALSE

\* The start signal, up to the switch to input.
Start ==
  /\ stage = "idle" /\ stage' = "response"
  /\ air' \in Quantities /\ noise' = {}
  /\ pin' = "input" /\ timer' = TRUE /\ locked' = TRUE
  /\ UNCHANGED <<signal_duration, avg_duration, decoder, sample, last>>

\* The sensor's response, then its first low level.
Response ==
  /\ \/ stage = "response" /\ stage' = "data start"
     \/ stage = "data start" /\ stage' = "bits"
  /\ UNCHANGED <<air, noise, signal_duration, avg_duration, decoder, sample, last, hardware>>

MutantNoPulse ==
  /\ stage \in {"response", "data start", "bits"} /\ Len(signal_duration) < Bits
  /\ stage' = "idle" /\ signal_duration' = <<>>
  /\ UNCHANGED <<air, noise, avg_duration, decoder, sample, last, hardware>>

\* dht_measure_signal_duration returns -1: the level lasts too long or cannot be read.
NoPulse ==
  /\ stage \in {"response", "data start", "bits"} /\ Len(signal_duration) < Bits
  /\ stage' = "cleanup" /\ signal_duration' = <<>>
  /\ UNCHANGED <<air, noise, avg_duration, decoder, sample, last, hardware>>

\* An active signal and, after it, the inactive one that is the bit.
Pulse ==
  /\ stage = "bits" /\ Len(signal_duration) < Bits
  /\ LET n == Len(signal_duration) + 1
         bit == Bit(Frame(air), n)
     IN  /\ noise' \in {noise, noise \cup {n}} /\ Cardinality(noise') <= MaxNoise
         /\ \E d \in IF bit = 1 <=> n \notin noise' THEN Ones ELSE Zeros :
              signal_duration' = Append(signal_duration, d)
  /\ UNCHANGED <<stage, air, avg_duration, decoder, sample, last, hardware>>

MutantThreshold ==
  /\ stage = "bits" /\ Len(signal_duration) = Bits
  /\ stage' = "decode"
  /\ \E max \in {signal_duration[n] : n \in 1..Bits} :
       /\ \A n \in 1..Bits : signal_duration[n] <= max
       /\ avg_duration' = max \div 2
  /\ buf' = Cleared /\ i' = 0 /\ j' = 0
  /\ UNCHANGED <<air, noise, signal_duration, sample, last, hardware>>

\* avg_duration: the average of the shortest and the longest
Threshold ==
  /\ stage = "bits" /\ Len(signal_duration) = Bits
  /\ stage' = "decode"
  /\ \E min, max \in {signal_duration[n] : n \in 1..Bits} :
       /\ \A n \in 1..Bits : min <= signal_duration[n] /\ signal_duration[n] <= max
       /\ avg_duration' = (min + max) \div 2
  /\ buf' = Cleared /\ i' = 0 /\ j' = 0
  /\ UNCHANGED <<air, noise, signal_duration, sample, last, hardware>>

Decoded(n) == IF signal_duration[n] >= avg_duration THEN 1 ELSE 0

\* One turn of the loop.  A byte is shifted to the left, and the bit stored in it.
StoreBit ==
  /\ stage = "decode" /\ i < Bits
  /\ buf' = [buf EXCEPT ![j + 1] = (2 * @ + Decoded(i + 1)) % 2^Width]
  /\ i' = i + 1
  /\ j' = IF i % Width = Width - 1 THEN j + 1 ELSE j
  /\ UNCHANGED <<stage, air, noise, signal_duration, avg_duration, sample, last, hardware>>

MutantChecksumRight(b) == TRUE

ChecksumRight(b) == Checksum(b) = b[5]

\* Only a frame whose checksum is right is kept.
Verify ==
  /\ stage = "decode" /\ i = Bits
  /\ stage' = "cleanup"
  /\ IF ChecksumRight(buf)
     THEN sample' = [c \in 1..4 |-> buf[c]] /\ last' = air
     ELSE UNCHANGED <<sample, last>>
  /\ signal_duration' = <<>> /\ avg_duration' = 0
  /\ buf' = Cleared /\ i' = 0 /\ j' = 0
  /\ UNCHANGED <<air, noise, hardware>>

\* What is returned is what counter_stop returns, 0, whatever happened before.
Cleanup ==
  /\ stage = "cleanup" /\ stage' = "idle"
  /\ pin' = "inactive" /\ timer' = FALSE /\ locked' = FALSE
  /\ UNCHANGED <<air, noise, signal_duration, avg_duration, decoder, sample, last>>

dht_sample_fetch ==
  Start \/ Response \/ NoPulse \/ Pulse \/ Threshold \/ StoreBit \/ Verify \/ Cleanup

DhtSpec == dht_init /\ [][dht_sample_fetch]_dht
----------------------------------------------------------------------------
\* dht_channel_get: val1 and val2, C's division rounds to zero
Value(raw) == <<raw \div 10, (raw % 10) * 100000>>

Negated(val) == <<-val[1], -val[2]>>

Raw(s, c) == s[c] * 2^Width + s[c + 1]

\* The sum is assigned to an int16_t.
Humidity(s) ==
  IF Raw(s, 1) >= Word \div 2 THEN Negated(Value(Word - Raw(s, 1))) ELSE Value(Raw(s, 1))

\* A sign and a magnitude.
Temperature(s) ==
  LET val == Value(Raw(s, 3) % (Word \div 2))
  IN  IF Raw(s, 3) >= Word \div 2 THEN Negated(val) ELSE val

\* In tenths.
Quantity(val) == val[1] * 10 + val[2] \div 100000
----------------------------------------------------------------------------
\* However the pulses of a frame vary within their ranges, the average of the extremes
\* tells every one of them right, if the frame has one of each kind at all.
BitsRight ==
  stage = "decode" /\ (\E m, n \in 1..Bits : signal_duration[m] \in Zeros /\ signal_duration[n] \in Ones) =>
    \A n \in 1..Bits : Decoded(n) = 1 <=> signal_duration[n] \in Ones

\* After any number of fetches that failed, or whose frame was disturbed in one bit, what
\* dht_channel_get returns are the humidity and the temperature of the last frame kept.
ReadingExact == Quantity(Humidity(sample)) = last[1] /\ Quantity(Temperature(sample)) = last[2]

\* However a fetch ends, the line is given back inactive, the timer stopped and the
\* interrupts unlocked.
LineReleased == stage = "idle" => pin = "inactive" /\ ~timer /\ ~locked
=============================================================================
