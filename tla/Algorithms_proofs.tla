------------------------- MODULE Algorithms_proofs --------------------------
(***************************************************************************)
(* Proofs about the pure algorithms (MCAlgorithms): for all inputs, not    *)
(* only those up to the bounds of the run, and for all constants but where *)
(* a theorem names those of the code.                                      *)
(***************************************************************************)
EXTENDS MCAlgorithms, CommonLemmas
-----------------------------------------------------------------------------
(* The number of a ping (PingCodec).                                       *)

(* A number is taken apart into what it was put together from.             *)
LEMMA ValueParts ==
  ASSUME NEW hint \in Nat, NEW v \in Nat, v < Scale
  PROVE  /\ hint * Scale + v \in Nat
         /\ (hint * Scale + v) % Scale = v
         /\ (hint * Scale + v) \div Scale = hint
<1>1. Scale \in Nat \ {0}
  BY CodecAssumption
<1>2. \A h \in Nat, s \in Nat \ {0}, x \in Nat :
        x < s => (h * s + x) % s = x /\ (h * s + x) \div s = h
  OBVIOUS
<1>3. QED BY <1>1, <1>2

(* The constants of updater.go, handlers.go and pings_chart.js.            *)
CodeNumbers ==
  MinuteLen = 60 /\ SecondLen = 1000 /\ DayMinutes = 1440 /\ HintLen = 4 /\ Scale = 2000 /\ ByteRange = 256

(* What becomes of the v of a value by way of the byte.                    *)
ByteTells(v, value) ==
  LET short == ShortValue(value)
      back == ShortPing(short)
  IN  IF v = 1 THEN back = 1
      ELSE /\ short \in 2..255 /\ back \in Int /\ back >= 2
           /\ IF v < 16 THEN back - v \in 0..24 ELSE back - v \in (-8)..8

(* What a byte tells of a ping that was answered in time.                  *)
LEMMA ByteForm ==
  ASSUME CodeNumbers, NEW value \in Nat, NEW v \in Nat, 0 < v, v < 2000, FullPing(value) = v
  PROVE  ByteTells(v, value)
<1> USE DEF FullPing
<1> DEFINE byte == (v * 256) \div 2000
           short == IF byte <= 1 THEN 2 ELSE byte
           back == ((2 * short + 1) * 2000) \div 512
<1>1. CASE v = 1
  <2>1. ShortValue(value) = 1
    BY <1>1 DEF ShortValue
  <2>2. QED BY <1>1, <2>1 DEF ShortPing, ByteTells
<1>2. CASE v # 1
  <2>1. ShortValue(value) = short
    BY <1>2 DEF ShortValue, CodeNumbers
  <2>2. short \in 2..255
    BY <1>2
  <2>3. ShortPing(short) = back
    <3> HIDE DEF short
    <3>1. ~(short <= 1)
      BY <2>2
    <3>2. Scale = 2000 /\ ByteRange = 256 /\ 2 * 256 = 512
      BY DEF CodeNumbers
    <3>3. QED BY <3>1, <3>2 DEF ShortPing
  <2>4. /\ back \in Int /\ back >= 2
        /\ IF v < 16 THEN back - v \in 0..24 ELSE back - v \in (-8)..8
    <3>1. v \in 2..1999
      BY <1>2
    <3>2. CASE byte <= 1
      <4>1. v < 16 /\ back = 19
        BY <3>1, <3>2
      <4>2. QED BY <3>1, <4>1
    <3>3. CASE ~(byte <= 1)
      <4>1. v >= 16 /\ back = ((2 * ((v * 256) \div 2000) + 1) * 2000) \div 512
        BY <3>1, <3>3
      <4>2. ((2 * ((v * 256) \div 2000) + 1) * 2000) \div 512 - v \in (-8)..8
        BY <3>1, <4>1
      <4>3. QED BY <3>1, <4>1, <4>2
    <3>4. QED BY <3>2, <3>3
  <2> HIDE DEF short, back
  <2>5. QED BY <1>2, <2>1, <2>2, <2>3, <2>4 DEF ByteTells
<1>3. QED BY <1>1, <1>2

(* Of a ping taken at any time, with any outcome and of any duration, the  *)
(* slot and the number fit in the column, the chart has the outcome by     *)
(* both forms and the duration, and its point is in the ping's minute and  *)
(* never later than the ping (updater.go 184-200, handlers.go 600-616,     *)
(* charts.js 228).                                                         *)
THEOREM PingIsKeptAlways ==
  ASSUME CodeNumbers, NEW stamp \in Nat, NEW ok \in BOOLEAN, NEW ms \in Int
  PROVE  PingIsKept(stamp, ok, ms)
<1> DEFINE hint == TimeHint(stamp)
           v == IF ok THEN Clamped(ms) ELSE 1
           value == hint * Scale + v
<1>1. /\ hint \in 0..14 /\ hint * 4 <= stamp % 60 /\ (stamp % 60) - hint * 4 < 4
      /\ Slot(stamp) \in 1..1440
  BY DEF CodeNumbers, TimeHint, Slot, DayLen
<1>hint. hint \in 0..14
  BY <1>1
<1>slot. Slot(stamp) \in 1..1440
  BY <1>1
<1>2. v \in 1..1999 /\ (ok => v >= 2 /\ v = Clamped(ms)) /\ (~ok => v = 1)
  BY DEF CodeNumbers, Clamped
<1>3. PingValue(stamp, ok, ms) = value
  BY DEF PingValue
<1>4. Scale = 2000 /\ ByteRange = 256 /\ HintLen = 4 /\ MinuteLen = 60 /\ SecondLen = 1000 /\ DayMinutes = 1440
  BY DEF CodeNumbers
<1>ping. v \in 1..1999
  BY <1>2
<1> HIDE DEF hint, v
<1>5. value \in 1..32767 /\ value % Scale = v /\ value \div Scale = hint
  <2>1. hint \in Nat /\ v \in Nat /\ v < Scale
    BY <1>1, <1>2, <1>4
  <2>2. value % Scale = v /\ value \div Scale = hint
    BY <2>1, ValueParts
  <2>3. value = hint * 2000 + v
    BY <1>4
  <2> HIDE DEF value
  <2>4. value \in 1..32767
    BY <1>hint, <1>ping, <2>3
  <2>5. QED BY <2>2, <2>4
<1> HIDE DEF value
<1>6. v \in Nat /\ 0 < v /\ v < 2000 /\ value \in Nat /\ FullPing(value) = v
  BY <1>2, <1>5 DEF FullPing
<1>7. ByteTells(v, value)
  BY <1>6, ByteForm
<1> DEFINE back == ShortPing(ShortValue(value))
<1> HIDE DEF back
<1>8. FitsTheColumn(stamp, value)
  <2>1. DayMinutes = 1440 /\ value \in 1..32767
    BY <1>4, <1>5
  <2>2. QED BY <1>slot, <2>1 DEF FitsTheColumn
<1>9. TimeSurvives(stamp, value)
  <2>1. stamp % 60 \in Nat /\ Taken(stamp) = (stamp % 60) * 1000
    BY <1>4 DEF Taken
  <2>2. FullTime(value) = hint * 4
    BY <1>4, <1>5 DEF FullTime
  <2>3. QED BY <1>1, <2>1, <2>2 DEF TimeSurvives
<1>10. CASE ~ok
  <2>1. v = 1 /\ back = 1
    BY <1>2, <1>7, <1>10 DEF ByteTells, back
  <2>2. OutcomeSurvives(ok, value)
    BY <1>6, <1>10, <2>1 DEF OutcomeSurvives, Kind, back
  <2>3. QED BY <1>3, <1>8, <1>9, <1>10, <2>2 DEF PingIsKept
<1>11. CASE ok
  <2>1. /\ v \in 2..1999 /\ v = Clamped(ms)
        /\ ShortValue(value) \in 2..255 /\ back \in Int /\ back >= 2
        /\ IF v < 16 THEN back - v \in 0..24 ELSE back - v \in (-8)..8
    BY <1>2, <1>6, <1>7, <1>11 DEF ByteTells, back
  <2>2. OutcomeSurvives(ok, value)
    BY <1>6, <1>11, <2>1 DEF OutcomeSurvives, Kind, back
  <2>3. Scale \div ByteRange + 1 = 8 /\ ByteRange - 1 = 255
    BY <1>4
  <2>4. DurationSurvives(ms, value)
    BY <1>6, <2>1, <2>3 DEF DurationSurvives, back
  <2>5. QED BY <1>3, <1>8, <1>9, <2>2, <2>4 DEF PingIsKept
<1>12. QED BY <1>10, <1>11

(* What an input of the run is told by what it is about.                   *)
LEMMA InputKinds ==
  ASSUME Init
  PROVE  /\ About("ping") => input \in Pings
         /\ About("table") => input \in Tables
         /\ About("chart") => input \in Charts
         /\ About("counts") => input \in CountTables
         /\ About("network") => input \in Networks /\ input.bits <= input.bitLen
         /\ About("file") => /\ input \in Files
                             /\ IF input.torn = 0 THEN input.words = 0
                                ELSE input.words < 6 + Len(input.locs[input.torn])
<1>1. input \in Pings => input.about = "ping"
  BY DEF Pings
<1>2. input \in Tables => input.about = "table"
  BY DEF Tables, TablesOf
<1>3. input \in Charts => input.about = "chart"
  BY DEF Charts
<1>4. input \in CountTables => input.about = "counts"
  BY DEF CountTables
<1>5. input \in Networks => input.about = "network"
  BY DEF Networks
<1>6. input \in Files => input.about = "file"
  BY DEF Files
<1> QED BY <1>1, <1>2, <1>3, <1>4, <1>5, <1>6 DEF Init, About

(* So it is in every state of the run, for any bound of the durations.     *)
THEOREM PingSurvivesAlways ==
  ASSUME CodeNumbers
  PROVE  Spec => []PingSurvives
<1>1. Init => PingSurvives
  <2> SUFFICES ASSUME Init, About("ping") PROVE PingIsKept(input.stamp, input.ok, input.ms)
    BY DEF PingSurvives
  <2>1. input \in Pings
    BY InputKinds
  <2>2. input.stamp \in Nat /\ input.ok \in BOOLEAN /\ input.ms \in Int
    <3>1. MinuteLen = 60 /\ DayLen = 86400 /\ Scale = 2000
      BY DEF CodeNumbers, DayLen
    <3>2. \A t \in Stamps \cup {DayLen - 1, DayLen} : t \in Nat
      BY <3>1 DEF Stamps
    <3>3. \A ms \in {0, 1, 2, Scale - 1, Scale} \cup 0..MaxMs : ms \in Int
      BY <3>1
    <3> HIDE DEF Stamps, DayLen
    <3> QED BY <2>1, <3>2, <3>3 DEF Pings
  <2> QED BY <2>2, PingIsKeptAlways
<1>2. PingSurvives /\ UNCHANGED input => PingSurvives'
  BY DEF PingSurvives, About, PingIsKept
<1> QED BY <1>1, <1>2, PTL DEF Spec, Next

-----------------------------------------------------------------------------
(* Networks (IpNetwork).                                                   *)

(* The powers of two are positive and each is twice the one before.        *)
LEMMA PowersOfTwo ==
  /\ AllBits \in Nat \ {0} /\ Pow2 \in [0..AllBits -> Nat \ {0}]
  /\ Pow2[0] = 1 /\ \A n \in 1..AllBits : Pow2[n] = 2 * Pow2[n - 1]
<1>1. AllBits \in Nat \ {0}
  BY NetworkAssumption DEF AllBits
<1> DEFINE A == Nat \ {0}
           st == [k \in 1..AllBits |-> [a \in A |-> 2 * a]]
<1>2. \A k \in 1..AllBits, a \in A : st[k][a] = 2 * a
  OBVIOUS
<1>3. st \in [1..AllBits -> [A -> A]] /\ 1 \in A
  OBVIOUS
<1> HIDE DEF A, st
<1>4. PICK g : Iterates(g, AllBits, A, 1, st)
  <2>1. AllBits \in Nat /\ 1 \in A
    BY <1>1, <1>3
  <2> QED BY <1>3, <2>1, IterationExists
<1>4a. g \in [0..AllBits -> A] /\ g[0] = 1 /\ \A k \in 1..AllBits : g[k] = st[k][g[k - 1]]
  BY <1>4 DEF Iterates
<1> DEFINE Doubles(f) == f = [n \in 0..AllBits |-> IF n = 0 THEN 1 ELSE 2 * f[n - 1]]
<1>5. Doubles(g)
  <2>1. \A n \in 0..AllBits : g[n] = IF n = 0 THEN 1 ELSE 2 * g[n - 1]
    BY <1>1, <1>2, <1>4a
  <2>2. g = [n \in 0..AllBits |-> g[n]]
    BY <1>4a
  <2> QED BY <2>1, <2>2
<1>6. Pow2 = CHOOSE f : Doubles(f)
  BY DEF Pow2
<1>7. Doubles(Pow2)
  <2> HIDE DEF Doubles
  <2> QED BY <1>5, <1>6
<1>8. /\ Pow2[0] = 1 /\ \A n \in 1..AllBits : Pow2[n] = 2 * Pow2[n - 1]
      /\ Pow2 = [n \in 0..AllBits |-> Pow2[n]]
  <2>1. DOMAIN Pow2 = 0..AllBits /\ \A n \in 0..AllBits : Pow2[n] = IF n = 0 THEN 1 ELSE 2 * Pow2[n - 1]
    BY <1>7
  <2>2. Pow2 = [n \in 0..AllBits |-> Pow2[n]]
    BY <1>7
  <2>3. 0 \in 0..AllBits /\ \A n \in 1..AllBits : n \in 0..AllBits /\ n # 0
    BY <1>1
  <2> HIDE DEF AllBits
  <2> QED BY <2>1, <2>2, <2>3
<1> DEFINE Good == {n \in 0..AllBits : Pow2[n] \in Nat \ {0}}
<1>9. 0..AllBits \subseteq Good
  <2>1. 0 \in Good
    BY <1>1, <1>8
  <2>2. ASSUME NEW k \in 0..(AllBits - 1), k \in Good PROVE k + 1 \in Good
    <3>1. k + 1 \in 1..AllBits /\ (k + 1) - 1 = k
      BY <1>1
    <3>2. Pow2[k + 1] = 2 * Pow2[k]
      BY <1>8, <3>1
    <3> QED BY <2>2, <3>1, <3>2
  <2> HIDE DEF Good
  <2> QED BY <1>1, <2>1, <2>2, InductionUpTo
<1> QED BY <1>1, <1>8, <1>9

(* Powers multiply when exponents add up.                                  *)
LEMMA PowerOfSum ==
  ASSUME NEW a \in Nat, NEW b \in Nat, a + b <= AllBits
  PROVE  Pow2[a + b] = Pow2[a] * Pow2[b]
<1> DEFINE Good == {k \in 0..b : Pow2[a + k] = Pow2[a] * Pow2[k]}
<1>0. /\ AllBits \in Nat
      /\ \A k \in 0..b : k \in 0..AllBits /\ a + k \in 0..AllBits
      /\ \A k \in 0..AllBits : Pow2[k] \in Nat
  BY PowersOfTwo
<1>1. 0 \in Good
  BY <1>0, PowersOfTwo
<1>2. ASSUME NEW k \in 0..(b - 1), k \in Good PROVE k + 1 \in Good
  <2>1. k + 1 \in 1..AllBits /\ a + (k + 1) \in 1..AllBits /\ (a + (k + 1)) - 1 = a + k /\ (k + 1) - 1 = k
    BY <1>0
  <2>2. Pow2[a + (k + 1)] = 2 * Pow2[a + k] /\ Pow2[k + 1] = 2 * Pow2[k]
    BY <2>1, PowersOfTwo
  <2>3. Pow2[a + k] = Pow2[a] * Pow2[k]
    BY <1>2
  <2>4. Pow2[a] \in Nat /\ Pow2[k] \in Nat
    BY <1>0
  <2>5. \A x, y \in Nat : 2 * (x * y) = x * (2 * y)
    OBVIOUS
  <2>6. Pow2[a + (k + 1)] = Pow2[a] * Pow2[k + 1]
    BY <2>2, <2>3, <2>4, <2>5
  <2> QED BY <2>6
<1> HIDE DEF Good
<1>3. 0..b \subseteq Good
  BY <1>1, <1>2, InductionUpTo
<1>4. b \in Good
  BY <1>3
<1> QED BY <1>4 DEF Good

(* The number of an address is that of its first bytes, one byte more      *)
(* after another.                                                          *)
Upto(addr, up) ==
  /\ up \in [0..Bytes -> Nat] /\ up[0] = 0
  /\ \A i \in 1..Bytes : up[i] = up[i - 1] * Pow2[ByteBits] + addr[i]

(* A byte is some of the address's bits, with values of its own.           *)
LEMMA BytesAreBits == ByteBits \in 0..AllBits /\ Pow2[ByteBits] \in Nat \ {0}
                      /\ ByteMax + 1 = Pow2[ByteBits] /\ ByteMax \in Nat
<1>1. ByteBits \in 0..AllBits
  <2>1. \A m, n \in Nat \ {0} : m \in 0..(m * n)
    OBVIOUS
  <2> QED BY <2>1, NetworkAssumption DEF AllBits
<1>2. Pow2[ByteBits] \in Nat \ {0}
  BY <1>1, PowersOfTwo
<1> QED BY <1>1, <1>2 DEF ByteMax

(* The bytes' number is the sum up to the last one.                        *)
LEMMA NumberIsUpto ==
  ASSUME NEW addr \in [1..Bytes -> Nat]
  PROVE  \E up : Upto(addr, up) /\ Number(addr) = up[Bytes]
<1> DEFINE B == ByteMax + 1
           st == [k \in 1..Bytes |-> [a \in Nat |-> a * B + addr[k]]]
           Adds(up) == up = [i \in 0..Bytes |-> IF i = 0 THEN 0 ELSE up[i - 1] * (ByteMax + 1) + addr[i]]
<1>1. Bytes \in Nat /\ B \in Nat
  BY NetworkAssumption, BytesAreBits
<1>2. \A k \in 1..Bytes, a \in Nat : st[k][a] = a * B + addr[k]
  OBVIOUS
<1>3. st \in [1..Bytes -> [Nat -> Nat]]
  <2>1. ASSUME NEW k \in 1..Bytes PROVE [a \in Nat |-> a * B + addr[k]] \in [Nat -> Nat]
    <3>1. addr[k] \in Nat
      OBVIOUS
    <3> HIDE DEF B
    <3> QED BY <1>1, <3>1
  <2> HIDE DEF B
  <2> QED BY <2>1
<1> HIDE DEF st
<1>4. PICK g : Iterates(g, Bytes, Nat, 0, st)
  <2>1. Bytes \in Nat /\ 0 \in Nat
    BY <1>1, <1>3
  <2> QED BY <1>3, <2>1, IterationExists
<1>4a. g \in [0..Bytes -> Nat] /\ g[0] = 0 /\ \A k \in 1..Bytes : g[k] = st[k][g[k - 1]]
  BY <1>4 DEF Iterates
<1>5. Adds(g)
  <2>1. ASSUME NEW i \in 0..Bytes PROVE g[i] = IF i = 0 THEN 0 ELSE g[i - 1] * (ByteMax + 1) + addr[i]
    <3>1. CASE i = 0
      BY <1>4a, <3>1
    <3>2. CASE i # 0
      <4>1. i \in 1..Bytes /\ i - 1 \in 0..Bytes
        BY <1>1, <3>2
      <4>2. g[i] = st[i][g[i - 1]] /\ g[i - 1] \in Nat
        BY <1>4a, <4>1
      <4> QED BY <1>2, <3>2, <4>1, <4>2
    <3> QED BY <3>1, <3>2
  <2>2. g = [i \in 0..Bytes |-> g[i]]
    BY <1>4a
  <2> QED BY <2>1, <2>2
<1> DEFINE up == CHOOSE f : Adds(f)
<1>6. Number(addr) = up[Bytes]
  BY DEF Number
<1>7. Adds(up)
  <2> HIDE DEF Adds
  <2> QED BY <1>5
<1> HIDE DEF up
<1>8. up = [i \in 0..Bytes |-> up[i]] /\ up[0] = 0 /\ \A i \in 1..Bytes : up[i] = up[i - 1] * B + addr[i]
  <2>1. DOMAIN up = 0..Bytes /\ \A i \in 0..Bytes : up[i] = IF i = 0 THEN 0 ELSE up[i - 1] * (ByteMax + 1) + addr[i]
    BY <1>7
  <2>2. up = [i \in 0..Bytes |-> up[i]]
    BY <1>7
  <2>3. 0 \in 0..Bytes /\ \A n \in 1..Bytes : n \in 0..Bytes /\ n # 0
    BY <1>1
  <2> QED BY <2>1, <2>2, <2>3
<1> DEFINE Good == {i \in 0..Bytes : up[i] \in Nat}
<1>9. 0..Bytes \subseteq Good
  <2>1. 0 \in Good
    BY <1>1, <1>8
  <2>2. ASSUME NEW k \in 0..(Bytes - 1), k \in Good PROVE k + 1 \in Good
    <3>1. k + 1 \in 1..Bytes /\ (k + 1) - 1 = k
      BY <1>1
    <3>2. up[k + 1] = up[k] * B + addr[k + 1]
      BY <1>8, <3>1
    <3>3. addr[k + 1] \in Nat /\ up[k] \in Nat
      BY <2>2, <3>1
    <3>4. up[k] * B \in Nat
      BY <1>1, <3>3
    <3> QED BY <3>1, <3>2, <3>3, <3>4
  <2> HIDE DEF Good
  <2> QED BY <1>1, <2>1, <2>2, InductionUpTo
<1> HIDE DEF B
<1>10. Upto(addr, up)
  BY <1>8, <1>9, BytesAreBits DEF Upto, B
<1> QED BY <1>6, <1>10

(* The numbers of the first i bytes of a network's ends and of the address *)
(* itself: up to the end byte they are one, from there on they are a block *)
(* of size numbers.                                                        *)
InBlock(from, to, at, size) ==
  /\ \E q \in Nat : from = size * q
  /\ to = from + size - 1
  /\ from <= at /\ at <= to

(* At the end byte: L is the number of free values of its low bits, R that *)
(* of the values of its high bits.                                         *)
LEMMA BlockBegins ==
  ASSUME NEW n \in Nat, NEW a \in Nat, NEW L \in Nat \ {0}, NEW R \in Nat \ {0}
  PROVE  InBlock(n * (L * R) + (a - (a % L)), n * (L * R) + (a - (a % L) + (L - 1)), n * (L * R) + a, L)
<1> DEFINE q == a \div L
           m == a % L
<1>1. q \in Nat /\ m \in Nat /\ m < L /\ a = L * q + m
  OBVIOUS
<1> HIDE DEF q, m
<1>2. n * R + q \in Nat /\ n * (L * R) \in Nat /\ L * q \in Nat
  BY <1>1
<1>3. n * (L * R) = L * (n * R)
  OBVIOUS
<1>4. L * (n * R + q) = L * (n * R) + L * q
  BY <1>1
<1>5. n * (L * R) + (a - m) = L * (n * R + q)
  <2>1. a - m = L * q
    BY <1>1, <1>2
  <2> QED BY <1>3, <1>4, <2>1
<1> DEFINE x == n * (L * R)
<1>6. x \in Nat
  BY <1>2
<1>7. \E k \in Nat : x + (a - m) = L * k
  BY <1>2, <1>5
<1> HIDE DEF x
<1>8. x + (a - m + (L - 1)) = x + (a - m) + L - 1 /\ x + (a - m) <= x + a
      /\ x + a <= x + (a - m + (L - 1))
  BY <1>1, <1>6
<1>9. InBlock(x + (a - m), x + (a - m + (L - 1)), x + a, L)
  BY <1>7, <1>8 DEF InBlock
<1> QED BY <1>9 DEF x, m

(* One byte more, of B values: 0 in the first address, the largest in the  *)
(* last one.                                                               *)
LEMMA BlockGoesOn ==
  ASSUME NEW from \in Nat, NEW to \in Nat, NEW at \in Nat, NEW size \in Nat \ {0},
         InBlock(from, to, at, size), NEW B \in Nat \ {0}, NEW a \in 0..(B - 1)
  PROVE  InBlock(from * B + 0, to * B + (B - 1), at * B + a, size * B)
<1>1. PICK q \in Nat : from = size * q
  BY DEF InBlock
<1>2. from * B = (size * B) * q
  BY <1>1
<1>3. to + 1 = from + size
  BY DEF InBlock
<1>4. (to + 1) * B = to * B + B /\ (from + size) * B = from * B + size * B
  OBVIOUS
<1>5. from <= at /\ at + 1 <= to + 1
  BY DEF InBlock
<1>6. from * B <= at * B /\ (at + 1) * B <= (to + 1) * B
  <2>1. \A x, y, z \in Nat : x <= y => x * z <= y * z
    OBVIOUS
  <2>2. at + 1 \in Nat /\ to + 1 \in Nat
    OBVIOUS
  <2> QED BY <1>5, <2>1, <2>2
<1>7. (at + 1) * B = at * B + B
  OBVIOUS
<1> DEFINE f == from * B
           t == to * B
           s == size * B
           x == at * B
<1>8. f \in Nat /\ t \in Nat /\ s \in Nat /\ x \in Nat
  OBVIOUS
<1>9. t + B = f + s /\ f <= x /\ x + B <= t + B
  <2>1. (to + 1) * B = (from + size) * B
    BY <1>3
  <2> QED BY <1>4, <1>6, <1>7, <2>1
<1>10. \E k \in Nat : f = s * k
  BY <1>2
<1> HIDE DEF f, t, s, x
<1>11. /\ f + 0 = f /\ t + (B - 1) = (f + 0) + s - 1
       /\ f + 0 <= x + a /\ x + a <= t + (B - 1)
  BY <1>8, <1>9
<1>12. InBlock(f + 0, t + (B - 1), x + a, s)
  BY <1>10, <1>11 DEF InBlock
<1> QED BY <1>12 DEF f, t, s, x

(* Which bytes a prefix that ends in the middle of the network leaves, the *)
(* end byte being number k, r bits of it in the prefix.                    *)
LEMMA NetworkBytes ==
  ASSUME NEW addr \in Address, NEW p \in 0..(AllBits - 1)
  PROVE  LET k == EndByte(p) + 1
             r == p % ByteBits
             L == Pow2[ByteBits - r]
         IN  /\ k \in 1..Bytes /\ r \in 0..(ByteBits - 1) /\ p = ByteBits * (k - 1) + r
             /\ \A i \in 1..Bytes : i < k => Masked(addr, p)[i] = addr[i] /\ IPTo(addr, p)[i] = addr[i]
             /\ Masked(addr, p)[k] = addr[k] - (addr[k] % L)
             /\ IPTo(addr, p)[k] = addr[k] - (addr[k] % L) + (L - 1)
             /\ \A i \in 1..Bytes : i > k => Masked(addr, p)[i] = 0 /\ IPTo(addr, p)[i] = ByteMax
<1> DEFINE e == p \div ByteBits
           r == p % ByteBits
           L == Pow2[ByteBits - r]
<1>0. ByteBits \in Nat \ {0} /\ Bytes \in Nat \ {0} /\ p \in Nat /\ p < Bytes * ByteBits
  <2>1. AllBits = Bytes * ByteBits
    BY NetworkAssumption DEF AllBits
  <2> QED BY <2>1, NetworkAssumption, PowersOfTwo
<1>1. e \in 0..(Bytes - 1) /\ r \in 0..(ByteBits - 1) /\ p = ByteBits * e + r
  <2>1. e \in 0..(Bytes - 1)
    BY <1>0, QuotientBound
  <2>2. r \in 0..(ByteBits - 1) /\ p = ByteBits * e + r
    BY <1>0
  <2> QED BY <2>1, <2>2
<1>2. EndByte(p) = e
  BY DEF EndByte
<1>3. ASSUME NEW i \in 1..Bytes
      PROVE  LET kept == p - ByteBits * (i - 1)
             IN  /\ i - 1 < e => kept >= ByteBits
                 /\ i - 1 = e => kept = r
                 /\ i - 1 > e => kept <= 0 /\ ~(kept >= ByteBits)
  <2> DEFINE j == i - 1
  <2>1. j \in Nat /\ e \in Nat /\ ByteBits \in Nat /\ r \in Nat /\ r < ByteBits
    BY <1>0, <1>1
  <2> HIDE DEF j, e, r
  <2>2. CASE j < e
    <3>1. ByteBits * (j + 1) <= ByteBits * e
      <4>1. \A x, y, z \in Nat : x <= y => z * x <= z * y
        OBVIOUS
      <4>2. j + 1 \in Nat /\ j + 1 <= e
        BY <2>1, <2>2
      <4> QED BY <2>1, <4>1, <4>2
    <3>2. ByteBits * (j + 1) = ByteBits * j + ByteBits /\ ByteBits * j \in Nat /\ ByteBits * e \in Nat
      BY <2>1
    <3>3. p - ByteBits * j >= ByteBits
      BY <1>1, <2>1, <3>1, <3>2
    <3> QED BY <2>1, <2>2, <3>3 DEF j
  <2>3. CASE j = e
    <3>1. p - ByteBits * j = r
      <4>1. ByteBits * e \in Nat
        BY <2>1
      <4> QED BY <1>1, <2>1, <2>3, <4>1
    <3> QED BY <2>1, <2>3, <3>1 DEF j
  <2>4. CASE j > e
    <3>1. ByteBits * (e + 1) <= ByteBits * j
      <4>1. \A x, y, z \in Nat : x <= y => z * x <= z * y
        OBVIOUS
      <4>2. e + 1 \in Nat /\ e + 1 <= j
        BY <2>1, <2>4
      <4> QED BY <2>1, <4>1, <4>2
    <3>2. ByteBits * (e + 1) = ByteBits * e + ByteBits /\ ByteBits * j \in Nat /\ ByteBits * e \in Nat
      BY <2>1
    <3>3. p - ByteBits * j <= 0 /\ ~(p - ByteBits * j >= ByteBits)
      BY <1>1, <2>1, <3>1, <3>2
    <3> QED BY <2>1, <2>4, <3>3 DEF j
  <2> QED BY <2>1, <2>2, <2>3, <2>4
<1>4. addr \in [1..Bytes -> 0..ByteMax]
  BY DEF Address
<1> HIDE DEF e, r
<1>5. ASSUME NEW i \in 1..Bytes
      PROVE  /\ i - 1 < e => Masked(addr, p)[i] = addr[i] /\ IPTo(addr, p)[i] = addr[i]
             /\ i - 1 > e => Masked(addr, p)[i] = 0 /\ IPTo(addr, p)[i] = ByteMax
             /\ i - 1 = e => /\ Masked(addr, p)[i] = IF r = 0 THEN 0 ELSE LowCleared(addr[i], ByteBits - r)
                             /\ IPTo(addr, p)[i] = LowSet(addr[i], ByteBits - r)
  <2> DEFINE kept == p - ByteBits * (i - 1)
  <2>1. /\ Masked(addr, p)[i] = CASE kept >= ByteBits -> addr[i]
                                  [] kept <= 0 -> 0
                                  [] OTHER -> LowCleared(addr[i], ByteBits - kept)
        /\ IPTo(addr, p)[i] = CASE i - 1 > e -> ByteMax
                                [] i - 1 = e -> LowSet(addr[i], ByteBits - r)
                                [] OTHER -> addr[i]
    BY <1>2 DEF Masked, IPTo, r
  <2>2. /\ i - 1 < e => kept >= ByteBits
        /\ i - 1 = e => kept = r
        /\ i - 1 > e => kept <= 0 /\ ~(kept >= ByteBits)
    BY <1>3
  <2>3. kept \in Int /\ e \in Int /\ i - 1 \in Int /\ r \in Nat /\ r < ByteBits /\ ByteBits \in Nat \ {0}
    BY <1>0, <1>1
  <2> HIDE DEF kept
  <2>4. CASE i - 1 < e
    <3>1. ~(kept <= 0) /\ ~(i - 1 > e) /\ i - 1 # e
      BY <2>2, <2>3, <2>4
    <3> QED BY <2>1, <2>2, <2>3, <2>4, <3>1
  <2>5. CASE i - 1 = e
    <3>1. ~(i - 1 > e) /\ ~(i - 1 < e) /\ kept = r /\ ~(kept >= ByteBits)
      BY <2>2, <2>3, <2>5
    <3>2. kept <= 0 <=> r = 0
      BY <2>3, <3>1
    <3> QED BY <2>1, <2>5, <3>1, <3>2
  <2>6. CASE i - 1 > e
    <3>1. ~(i - 1 = e) /\ ~(i - 1 < e)
      BY <2>3, <2>6
    <3> QED BY <2>1, <2>2, <2>6, <3>1
  <2> QED BY <2>3, <2>4, <2>5, <2>6
<1> DEFINE k == e + 1
<1>6. k \in 1..Bytes /\ k - 1 = e /\ \A i \in 1..Bytes : (i < k <=> i - 1 < e) /\ (i > k <=> i - 1 > e)
  BY <1>0, <1>1
<1>7. addr[k] \in 0..ByteMax
  BY <1>4, <1>6
<1> HIDE DEF k
<1>8. Masked(addr, p)[k] = addr[k] - (addr[k] % L)
  <2>1. CASE r = 0
    <3>1. L = ByteMax + 1
      <4>1. ByteBits - r = ByteBits
        BY <1>0, <2>1
      <4> QED BY <4>1, BytesAreBits
    <3>2. addr[k] % L = addr[k]
      BY <1>7, <3>1, BytesAreBits
    <3>3. addr[k] - (addr[k] % L) = 0
      BY <1>7, <3>2, BytesAreBits
    <3> QED BY <1>5, <1>6, <2>1, <3>3
  <2>2. CASE r # 0
    BY <1>5, <1>6, <2>2 DEF LowCleared
  <2> QED BY <2>1, <2>2
<1>9. IPTo(addr, p)[k] = addr[k] - (addr[k] % L) + (L - 1)
  BY <1>5, <1>6 DEF LowSet, LowCleared
<1> HIDE DEF L
<1> QED BY <1>1, <1>2, <1>5, <1>6, <1>8, <1>9 DEF k, r, L

(* As numbers, a network's ends are the block an address of it is in.      *)
LEMMA NetworkNumbers ==
  ASSUME NEW addr \in Address, NEW p \in 0..(AllBits - 1),
         NEW uf, Upto(Masked(addr, p), uf), NEW ut, Upto(IPTo(addr, p), ut), NEW ua, Upto(addr, ua)
  PROVE  InBlock(uf[Bytes], ut[Bytes], ua[Bytes], Pow2[AllBits - p])
<1> DEFINE k == EndByte(p) + 1
           r == p % ByteBits
           low == ByteBits - r
           L == Pow2[low]
           B == Pow2[ByteBits]
           from == Masked(addr, p)
           to == IPTo(addr, p)
<1>1. /\ k \in 1..Bytes /\ r \in 0..(ByteBits - 1) /\ p = ByteBits * (k - 1) + r
      /\ \A i \in 1..Bytes : i < k => from[i] = addr[i] /\ to[i] = addr[i]
      /\ from[k] = addr[k] - (addr[k] % L) /\ to[k] = addr[k] - (addr[k] % L) + (L - 1)
      /\ \A i \in 1..Bytes : i > k => from[i] = 0 /\ to[i] = ByteMax
  BY NetworkBytes
<1>2. /\ ByteBits \in Nat \ {0} /\ Bytes \in Nat \ {0} /\ B \in Nat \ {0} /\ ByteMax = B - 1
      /\ \A i \in 1..Bytes : addr[i] \in 0..(B - 1)
  <2>1. ByteBits \in Nat \ {0} /\ Bytes \in Nat \ {0} /\ B \in Nat \ {0} /\ ByteMax = B - 1
    BY NetworkAssumption, BytesAreBits
  <2>2. \A i \in 1..Bytes : addr[i] \in 0..ByteMax
    BY DEF Address
  <2> QED BY <2>1, <2>2
<1> HIDE DEF k, r, from, to, B
<1>3. /\ uf \in [0..Bytes -> Nat] /\ ut \in [0..Bytes -> Nat] /\ ua \in [0..Bytes -> Nat]
      /\ uf[0] = 0 /\ ut[0] = 0 /\ ua[0] = 0
      /\ \A i \in 1..Bytes : /\ uf[i] = uf[i - 1] * B + from[i]
                             /\ ut[i] = ut[i - 1] * B + to[i]
                             /\ ua[i] = ua[i - 1] * B + addr[i]
  BY DEF Upto, from, to, B
<1>4. \A i \in 0..(k - 1) : uf[i] = ua[i] /\ ut[i] = ua[i]
  <2> DEFINE Good == {i \in 0..(k - 1) : uf[i] = ua[i] /\ ut[i] = ua[i]}
  <2>1. k - 1 \in Nat
    BY <1>1, <1>2
  <2>2. 0 \in Good
    BY <1>3, <2>1
  <2>3. ASSUME NEW i \in 0..((k - 1) - 1), i \in Good PROVE i + 1 \in Good
    <3>1. i + 1 \in 1..Bytes /\ i + 1 < k /\ (i + 1) - 1 = i /\ i + 1 \in 0..(k - 1)
      BY <1>1, <1>2
    <3>2. from[i + 1] = addr[i + 1] /\ to[i + 1] = addr[i + 1]
      BY <1>1, <3>1
    <3> QED BY <1>3, <2>3, <3>1, <3>2
  <2> HIDE DEF Good
  <2>4. 0..(k - 1) \subseteq Good
    BY <2>1, <2>2, <2>3, InductionUpTo
  <2> QED BY <2>4 DEF Good
<1>5. low \in 1..ByteBits /\ low \in Nat /\ low + r = ByteBits /\ r \in Nat
  BY <1>1, <1>2
<1>6. low \in 0..AllBits /\ r \in 0..AllBits /\ low + r <= AllBits
  BY <1>5, BytesAreBits, PowersOfTwo
<1> HIDE DEF low
<1>7. L \in Nat \ {0} /\ Pow2[r] \in Nat \ {0} /\ B = L * Pow2[r]
  <2>1. L \in Nat \ {0} /\ Pow2[r] \in Nat \ {0}
    BY <1>6, PowersOfTwo
  <2>2. Pow2[low + r] = Pow2[low] * Pow2[r]
    BY <1>5, <1>6, PowerOfSum
  <2> QED BY <1>5, <2>1, <2>2 DEF B
<1> HIDE DEF L
<1>8. InBlock(uf[k], ut[k], ua[k], L)
  <2> DEFINE n == ua[k - 1]
             a == addr[k]
             R == Pow2[r]
  <2>1. k - 1 \in 0..(k - 1) /\ k - 1 \in 0..Bytes
    BY <1>1, <1>2
  <2>2. n \in Nat /\ uf[k - 1] = n /\ ut[k - 1] = n /\ a \in Nat
    BY <1>1, <1>2, <1>3, <1>4, <2>1
  <2>3. /\ uf[k] = n * B + (a - (a % L)) /\ ut[k] = n * B + (a - (a % L) + (L - 1)) /\ ua[k] = n * B + a
    BY <1>1, <1>3, <2>2
  <2>4. R \in Nat \ {0} /\ B = L * R
    BY <1>7
  <2> HIDE DEF n, a, R
  <2>5. InBlock(n * (L * R) + (a - (a % L)), n * (L * R) + (a - (a % L) + (L - 1)), n * (L * R) + a, L)
    BY <1>7, <2>2, <2>4, BlockBegins
  <2> QED BY <2>3, <2>4, <2>5
<1> DEFINE m == Bytes - k
           Good == {j \in 0..m : InBlock(uf[k + j], ut[k + j], ua[k + j], Pow2[low + ByteBits * j])}
<1>9. m \in Nat /\ k \in Nat /\ AllBits = p + (low + ByteBits * m)
  <2>1. m \in Nat /\ k \in Nat
    BY <1>1, <1>2
  <2>2. AllBits = ByteBits * (k - 1) + ByteBits * (m + 1)
    <3>1. Bytes = (k - 1) + (m + 1)
      BY <1>2, <2>1
    <3>2. \A x, y, z \in Int : z * (x + y) = z * x + z * y
      OBVIOUS
    <3>3. k - 1 \in Int /\ m + 1 \in Int /\ ByteBits \in Int
      BY <1>2, <2>1
    <3> HIDE DEF m
    <3>4. ByteBits * ((k - 1) + (m + 1)) = ByteBits * (k - 1) + ByteBits * (m + 1)
      BY <3>2, <3>3
    <3> QED BY <3>1, <3>4 DEF AllBits
  <2> HIDE DEF m
  <2>3. ByteBits * (m + 1) = ByteBits * m + ByteBits /\ ByteBits * m \in Nat /\ ByteBits * (k - 1) \in Int
    BY <1>2, <2>1
  <2> QED BY <1>1, <1>2, <1>5, <2>1, <2>2, <2>3
<1>10. \A j \in 0..m : low + ByteBits * j \in 0..AllBits /\ low + ByteBits * j \in Nat
  <2> SUFFICES ASSUME NEW j \in 0..m PROVE low + ByteBits * j \in 0..AllBits /\ low + ByteBits * j \in Nat
    OBVIOUS
  <2>1. ByteBits * j <= ByteBits * m /\ ByteBits * j \in Nat /\ ByteBits * m \in Nat
    <3>1. \A x, y, z \in Nat : x <= y => z * x <= z * y
      OBVIOUS
    <3>2. j \in Nat /\ j <= m
      BY <1>9
    <3> HIDE DEF m
    <3> QED BY <1>2, <1>9, <3>1, <3>2
  <2> DEFINE x == ByteBits * j
             y == ByteBits * m
  <2>2. x <= y /\ x \in Nat /\ y \in Nat /\ AllBits = p + (low + y) /\ p \in Nat
    BY <1>9, <2>1, PowersOfTwo
  <2> HIDE DEF x, y
  <2>3. low + x \in 0..AllBits /\ low + x \in Nat
    BY <1>5, <2>2
  <2> QED BY <2>3 DEF x
<1>11. 0 \in Good
  <2>1. k + 0 = k /\ low + ByteBits * 0 = low /\ 0 \in 0..m
    BY <1>2, <1>5, <1>9
  <2> HIDE DEF m
  <2> QED BY <1>8, <2>1 DEF L
<1>12. ASSUME NEW j \in 0..(m - 1), j \in Good PROVE j + 1 \in Good
  <2> DEFINE i == k + (j + 1)
             size == Pow2[low + ByteBits * j]
  <2>1. /\ j \in 0..m /\ j + 1 \in 0..m /\ i \in 1..Bytes /\ i > k /\ i - 1 = k + j
        /\ i - 1 \in 0..Bytes
    BY <1>1, <1>2, <1>9
  <2>2. /\ uf[i] = uf[i - 1] * B + 0 /\ ut[i] = ut[i - 1] * B + (B - 1) /\ ua[i] = ua[i - 1] * B + addr[i]
        /\ addr[i] \in 0..(B - 1)
        /\ uf[i - 1] \in Nat /\ ut[i - 1] \in Nat /\ ua[i - 1] \in Nat
    BY <1>1, <1>2, <1>3, <2>1
  <2>3. InBlock(uf[i - 1], ut[i - 1], ua[i - 1], size)
    BY <1>12, <2>1
  <2>4. size \in Nat \ {0}
    BY <1>10, <2>1, PowersOfTwo
  <2>5. Pow2[low + ByteBits * (j + 1)] = size * B
    <3> DEFINE n == low + ByteBits * j
    <3>1. n + ByteBits = low + ByteBits * (j + 1) /\ n \in Nat /\ ByteBits \in Nat
      <4>1. ByteBits * (j + 1) = ByteBits * j + ByteBits /\ ByteBits * j \in Nat
        BY <1>2, <2>1
      <4> QED BY <1>2, <1>5, <4>1
    <3>2. n + ByteBits <= AllBits
      BY <1>10, <2>1, <3>1, PowersOfTwo
    <3>3. Pow2[n + ByteBits] = Pow2[n] * Pow2[ByteBits]
      <4> HIDE DEF n
      <4> QED BY <3>1, <3>2, PowerOfSum
    <3> QED BY <3>1, <3>3 DEF B
  <2> HIDE DEF i, size, m
  <2>6. InBlock(uf[i], ut[i], ua[i], size * B)
    <3> DEFINE f == uf[i - 1]
               t == ut[i - 1]
               x == ua[i - 1]
               a == addr[i]
    <3>1. f \in Nat /\ t \in Nat /\ x \in Nat /\ a \in 0..(B - 1) /\ InBlock(f, t, x, size)
      BY <2>2, <2>3
    <3>2. uf[i] = f * B + 0 /\ ut[i] = t * B + (B - 1) /\ ua[i] = x * B + a
      BY <2>2
    <3> HIDE DEF f, t, x, a
    <3>3. InBlock(f * B + 0, t * B + (B - 1), x * B + a, size * B)
      BY <1>2, <2>4, <3>1, BlockGoesOn
    <3> QED BY <3>2, <3>3
  <2> QED BY <2>1, <2>5, <2>6 DEF i
<1> HIDE DEF Good
<1>13. m \in Good
  <2> HIDE DEF m
  <2>1. 0..m \subseteq Good
    BY <1>9, <1>11, <1>12, InductionUpTo
  <2> QED BY <1>9, <2>1
<1>14. k + m = Bytes /\ low + ByteBits * m = AllBits - p
  <2>1. k + m = Bytes
    BY <1>2, <1>9
  <2>2. ByteBits * m \in Nat
    BY <1>2, <1>9
  <2> HIDE DEF m
  <2> QED BY <1>5, <1>9, <2>1, <2>2, PowersOfTwo
<1> HIDE DEF m
<1> QED BY <1>13, <1>14 DEF Good

(* A prefix of any length of any address becomes the block of addresses    *)
(* that share it, in any size of bytes and addresses, or is as long as the *)
(* address (ip_companies.go 174-183).                                      *)
THEOREM NetworkIsBlockAlways ==
  ASSUME NEW addr \in Address, NEW bitLen \in 0..AllBits, NEW bits \in 0..bitLen
  PROVE  NetworkIsBlock(addr, bitLen, bits)
<1> DEFINE p == PrefixBits(bitLen, bits)
           net == NetworkOf(addr, bitLen, bits)
           size == Pow2[bitLen - bits]
<1>1. AllBits \in Nat /\ p = AllBits - (bitLen - bits) /\ bitLen - bits \in 0..AllBits /\ p \in 0..AllBits
  BY PowersOfTwo DEF PrefixBits
<1>2. ByteBits \in Nat \ {0} /\ Bytes \in Nat \ {0} /\ AllBits = Bytes * ByteBits
  BY NetworkAssumption DEF AllBits
<1>3. CASE bits = bitLen
  <2>1. p = Bytes * ByteBits
    BY <1>1, <1>2, <1>3
  <2>2. \A x, y \in Nat \ {0} : (x * y) \div y = x
    OBVIOUS
  <2>3. EndByte(p) = Bytes
    BY <1>2, <2>1, <2>2 DEF EndByte
  <2>4. Panics(p)
    BY <1>2, <2>3 DEF Panics
  <2> QED BY <1>3, <2>4 DEF NetworkIsBlock
<1>4. CASE bits # bitLen
  <2>1. p \in 0..(AllBits - 1) /\ bitLen - bits = AllBits - p
    BY <1>1, <1>4
  <2> HIDE DEF p
  <2>2. EndByte(p) + 1 \in 1..Bytes
    BY <2>1, NetworkBytes
  <2>3. ~Panics(p)
    <3>1. EndByte(p) \in Int
      BY <1>1, <1>2 DEF EndByte
    <3> QED BY <1>2, <2>2, <3>1 DEF Panics
  <2>4. addr \in [1..Bytes -> Nat] /\ Masked(addr, p) \in [1..Bytes -> Nat] /\ IPTo(addr, p) \in [1..Bytes -> Nat]
    <3> DEFINE k == EndByte(p) + 1
               L == Pow2[ByteBits - (p % ByteBits)]
               from == Masked(addr, p)
               to == IPTo(addr, p)
    <3>1. /\ k \in 1..Bytes /\ p % ByteBits \in 0..(ByteBits - 1)
          /\ \A i \in 1..Bytes : i < k => from[i] = addr[i] /\ to[i] = addr[i]
          /\ from[k] = addr[k] - (addr[k] % L) /\ to[k] = addr[k] - (addr[k] % L) + (L - 1)
          /\ \A i \in 1..Bytes : i > k => from[i] = 0 /\ to[i] = ByteMax
      BY <2>1, NetworkBytes
    <3>2. ByteBits - (p % ByteBits) \in 0..AllBits
      <4> DEFINE r == p % ByteBits
      <4>1. r \in 0..(ByteBits - 1) /\ ByteBits \in 0..AllBits /\ AllBits \in Nat
        BY <3>1, BytesAreBits, PowersOfTwo
      <4> HIDE DEF r
      <4>2. ByteBits - r \in 0..AllBits
        BY <4>1
      <4> QED BY <4>2 DEF r
    <3>3. L \in Nat \ {0} /\ ByteMax \in Nat
      BY <3>2, PowersOfTwo, BytesAreBits
    <3>4. addr \in [1..Bytes -> Nat]
      BY <3>3 DEF Address
    <3>5. from = [i \in 1..Bytes |-> from[i]] /\ to = [i \in 1..Bytes |-> to[i]]
      BY DEF Masked, IPTo
    <3> HIDE DEF k, L, from, to
    <3>6. from[k] \in Nat /\ to[k] \in Nat
      <4>1. addr[k] \in Nat
        BY <3>1, <3>4
      <4>2. \A a \in Nat, l \in Nat \ {0} : a - (a % l) \in Nat /\ a - (a % l) + (l - 1) \in Nat
        OBVIOUS
      <4> QED BY <3>1, <3>3, <4>1, <4>2
    <3>7. ASSUME NEW i \in 1..Bytes PROVE from[i] \in Nat /\ to[i] \in Nat
      <4>1. i < k \/ i = k \/ i > k
        BY <1>2, <3>1
      <4>2. addr[i] \in Nat
        BY <3>4
      <4>3. CASE i < k
        BY <3>1, <4>2, <4>3
      <4>4. CASE i > k
        BY <3>1, <3>3, <4>4
      <4> QED BY <3>6, <4>1, <4>3, <4>4
    <3> QED BY <3>4, <3>5, <3>7 DEF from, to
  <2>5. PICK uf : Upto(Masked(addr, p), uf) /\ Number(Masked(addr, p)) = uf[Bytes]
    BY <2>4, NumberIsUpto
  <2>6. PICK ut : Upto(IPTo(addr, p), ut) /\ Number(IPTo(addr, p)) = ut[Bytes]
    BY <2>4, NumberIsUpto
  <2>7. PICK ua : Upto(addr, ua) /\ Number(addr) = ua[Bytes]
    BY <2>4, NumberIsUpto
  <2> DEFINE f == uf[Bytes]
             t == ut[Bytes]
             x == ua[Bytes]
  <2>8. InBlock(f, t, x, size)
    <3>1. InBlock(f, t, x, Pow2[AllBits - p])
      BY <2>1, <2>5, <2>6, <2>7, NetworkNumbers
    <3> QED BY <2>1, <3>1
  <2>9. f \in Nat /\ t \in Nat /\ x \in Nat /\ size \in Nat \ {0}
    <3>1. Bytes \in 0..Bytes
      BY <1>2
    <3>2. size \in Nat \ {0}
      BY <1>1, PowersOfTwo
    <3> QED BY <2>5, <2>6, <2>7, <3>1, <3>2 DEF Upto
  <2>10. net.ipFrom = Masked(addr, p) /\ net.ipTo = IPTo(addr, p)
    BY DEF NetworkOf, p
  <2>11. Number(net.ipFrom) = f /\ Number(net.ipTo) = t /\ Number(addr) = x
    BY <2>5, <2>6, <2>7, <2>10
  <2> HIDE DEF f, t, x, size, net
  <2>12. f % size = 0 /\ t = f + size - 1 /\ x \in f..t
    <3>1. PICK q \in Nat : f = size * q
      BY <2>8 DEF InBlock
    <3>2. \A m \in Nat \ {0}, n \in Nat : (m * n) % m = 0
      OBVIOUS
    <3>3. f % size = 0
      BY <2>9, <3>1, <3>2
    <3> QED BY <2>8, <2>9, <3>3 DEF InBlock
  <2> QED BY <1>4, <2>3, <2>11, <2>12 DEF NetworkIsBlock, p, net, size
<1> QED BY <1>3, <1>4

(* So it is in every state of the run.                                     *)
THEOREM PrefixIsBlockAlways == Spec => []PrefixIsBlock
<1>1. Init => PrefixIsBlock
  <2> SUFFICES ASSUME Init, About("network")
               PROVE  NetworkIsBlock(input.addr, input.bitLen, input.bits)
    BY DEF PrefixIsBlock
  <2>1. input \in Networks /\ input.bits <= input.bitLen
    BY InputKinds
  <2>2. input.addr \in Address /\ input.bitLen \in {AllBits, AllBits - ByteBits} /\ input.bits \in 0..AllBits
    BY <2>1 DEF Networks
  <2>3. input.bitLen \in 0..AllBits /\ input.bits \in 0..input.bitLen
    <3>1. AllBits \in Nat /\ ByteBits \in 0..AllBits
      BY BytesAreBits, PowersOfTwo
    <3>2. input.bitLen \in 0..AllBits
      BY <2>2, <3>1
    <3>3. input.bits \in Nat /\ input.bits <= input.bitLen
      BY <2>1, <2>2, <3>1
    <3> QED BY <3>2, <3>3
  <2> QED BY <2>2, <2>3, NetworkIsBlockAlways
<1>2. PrefixIsBlock /\ UNCHANGED input => PrefixIsBlock'
  BY DEF PrefixIsBlock, About, NetworkIsBlock
<1> QED BY <1>1, <1>2, PTL DEF Spec, Next

-----------------------------------------------------------------------------
(* Snapshots of locations (LocSnap).                                       *)

(* Degrees in 16 bits and back: the quotient needs no wrapping but at the  *)
(* upper ends, so that what is lost is its remainder.                      *)
LEMMA CodedIsClose ==
  ASSUME NEW half \in Nat \ {0}, NEW degrees \in Int,
         degrees + half \in 0..(2 * half - 1)
  PROVE  /\ Coded(degrees, half) \in 0..(LocRange - 1)
         /\ Decoded(Coded(degrees, half), half) \in Int
         /\ degrees * LocRange - Decoded(Coded(degrees, half), half) \in 0..(2 * half - 1)
<1> DEFINE d == degrees + half
           x == d * LocRange
           h == 2 * half
           q == x \div h
<1>1. LocRange \in Nat \ {0} /\ d \in Nat /\ h \in Nat \ {0} /\ d < h /\ x \in Nat
  BY LocAssumption
<1>2. q \in 0..(LocRange - 1)
  <2>1. x < h * LocRange
    <3>1. \A a, b, c \in Nat : a < b /\ c # 0 => a * c < b * c
      OBVIOUS
    <3> HIDE DEF d, h
    <3> QED BY <1>1, <3>1
  <2>2. x < LocRange * h
    BY <1>1, <2>1
  <2> HIDE DEF x, h
  <2> QED BY <1>1, <2>2, QuotientBound
<1>3. Coded(degrees, half) = q
  <2>1. Coded(degrees, half) = q % LocRange
    BY DEF Coded
  <2>2. q % LocRange = q
    <3> HIDE DEF q
    <3> QED BY <1>1, <1>2
  <2> QED BY <2>1, <2>2
<1>4. x - h * q \in 0..(h - 1)
  <2>1. \A a \in Nat, b \in Nat \ {0} : a - b * (a \div b) \in 0..(b - 1)
    OBVIOUS
  <2> HIDE DEF x, h
  <2> QED BY <1>1, <2>1
<1>5. x = degrees * LocRange + half * LocRange
  BY <1>1
<1>6. Decoded(q, half) = q * h - half * LocRange
  <2>1. q \in Int /\ q * 2 * half = q * (2 * half)
    <3> HIDE DEF q
    <3>1. q \in Int
      BY <1>1, <1>2
    <3> QED BY <3>1
  <2> QED BY <2>1 DEF Decoded
<1>7. q * h = h * q /\ h * q \in Int /\ degrees * LocRange \in Int /\ half * LocRange \in Int
  <2> HIDE DEF q
  <2> QED BY <1>1, <1>2
<1> DEFINE a == degrees * LocRange
           b == half * LocRange
           p == h * q
<1>8. a - (p - b) = x - p
  <2> HIDE DEF a, b, p, x
  <2>1. x = a + b /\ p \in Int /\ a \in Int /\ b \in Int
    BY <1>5, <1>7 DEF a, b, p
  <2> QED BY <2>1
<1>9. p - b \in Int
  <2> HIDE DEF b, p
  <2>1. p \in Int /\ b \in Int
    BY <1>7 DEF b, p
  <2> QED BY <2>1
<1>10. Decoded(q, half) = p - b
  BY <1>6, <1>7
<1>11. a - Decoded(q, half) \in 0..(h - 1)
  <2>1. x - p \in 0..(h - 1)
    BY <1>4
  <2> HIDE DEF a, b, p, x, h, q
  <2> QED BY <1>8, <1>10, <2>1
<1>12. Decoded(q, half) \in Int
  <2> HIDE DEF q, b, p
  <2> QED BY <1>9, <1>10
<1> HIDE DEF q
<1> QED BY <1>2, <1>3, <1>11, <1>12

Places == [lon : (-180)..179, lat : (-90)..89]

(* A location read from the word it was written to.                        *)
CloseLoc(loc, back) ==
  /\ loc.lon * LocRange - back.lon \in 0..(2 * 180 - 1)
  /\ loc.lat * LocRange - back.lat \in 0..(2 * 90 - 1)

(* A coordinate is read back within a step of where it was.                *)
LEMMA LocationIsClose ==
  ASSUME NEW loc \in Places
  PROVE  LocWord(loc) \in Nat /\ CloseLoc(loc, LocOf(LocWord(loc)))
<1> DEFINE x == Coded(loc.lon, 180)
           y == Coded(loc.lat, 90)
<1>1. /\ loc.lon \in Int /\ loc.lon + 180 \in 0..(2 * 180 - 1)
      /\ loc.lat \in Int /\ loc.lat + 90 \in 0..(2 * 90 - 1)
  BY DEF Places
<1>2. /\ x \in 0..(LocRange - 1) /\ y \in 0..(LocRange - 1)
      /\ loc.lon * LocRange - Decoded(x, 180) \in 0..(2 * 180 - 1)
      /\ loc.lat * LocRange - Decoded(y, 90) \in 0..(2 * 90 - 1)
  <2>1. 180 \in Nat \ {0} /\ 90 \in Nat \ {0}
    OBVIOUS
  <2>2. /\ x \in 0..(LocRange - 1)
        /\ loc.lon * LocRange - Decoded(x, 180) \in 0..(2 * 180 - 1)
    BY <1>1, <2>1, CodedIsClose, Zenon
  <2>3. /\ y \in 0..(LocRange - 1)
        /\ loc.lat * LocRange - Decoded(y, 90) \in 0..(2 * 90 - 1)
    BY <1>1, <2>1, CodedIsClose, Zenon
  <2> QED BY <2>2, <2>3
<1>3. LocWord(loc) = x + LocRange * y
  BY DEF LocWord
<1> HIDE DEF x, y
<1>4. /\ x + LocRange * y \in Nat
      /\ (x + LocRange * y) % LocRange = x
      /\ (x + LocRange * y) \div LocRange = y
  <2>1. \A n \in Nat \ {0}, a \in Nat, b \in Nat :
          a < n => (a + n * b) % n = a /\ (a + n * b) \div n = b
    OBVIOUS
  <2>2. x \in Nat /\ y \in Nat /\ x < LocRange /\ LocRange * y \in Nat
    BY <1>2, LocAssumption
  <2> QED BY <2>1, <2>2, LocAssumption
<1>5. LocOf(LocWord(loc)).lon = Decoded(x, 180) /\ LocOf(LocWord(loc)).lat = Decoded(y, 90)
  BY <1>3, <1>4 DEF LocOf
<1> QED BY <1>2, <1>3, <1>4, <1>5 DEF CloseLoc

(* A word read is a place, whatever it is.                                 *)
AnyPlace == [lon : Int, lat : Int]

(* Any word is read as some place.                                         *)
LEMMA LocOfIsPlace ==
  ASSUME NEW word \in Nat
  PROVE  LocOf(word) \in AnyPlace
<1>1. \A code \in Int, half \in {90, 180} : Decoded(code, half) \in Int
  BY LocAssumption DEF Decoded
<1>2. word % LocRange \in Int /\ word \div LocRange \in Int
  BY LocAssumption
<1> QED BY <1>1, <1>2 DEF LocOf, AnyPlace

(* Sequences one after the other: sequence k begins after place at[k - 1]. *)
Joined(whole, seqs, n, at) ==
  /\ at \in [0..n -> Nat] /\ at[0] = 0 /\ at[n] = Len(whole)
  /\ \A k \in 1..n : /\ at[k] = at[k - 1] + Len(seqs[k]) /\ at[k] <= Len(whole)
                     /\ \A i \in 1..Len(seqs[k]) : whole[at[k - 1] + i] = seqs[k][i]

(* Joined sequences hold each one's values after those of the ones before. *)
LEMMA FlattenJoins ==
  ASSUME NEW S, NEW n \in Nat, NEW seqs \in [1..n -> Seq(S)]
  PROVE  FlattenSeq(seqs) \in Seq(S) /\ \E at : Joined(FlattenSeq(seqs), seqs, n, at)
<1>1. Len(seqs) = n
  OBVIOUS
<1>2. CASE n = 0
  <2>1. seqs = <<>> /\ FlattenSeq(seqs) = <<>>
    BY <1>1, <1>2 DEF FlattenSeq
  <2> DEFINE at == [k \in 0..0 |-> 0]
  <2>2. at \in [0..n -> Nat] /\ at[0] = 0 /\ at[n] = Len(<<>>) /\ 1..n = {}
    BY <1>2
  <2>3. Joined(<<>>, seqs, n, at)
    <3> HIDE DEF at
    <3> QED BY <2>2 DEF Joined
  <2>4. <<>> \in Seq(S)
    OBVIOUS
  <2> HIDE DEF at
  <2>5. \E a : Joined(<<>>, seqs, n, a)
    BY <2>3
  <2> QED BY <2>1, <2>4, <2>5
<1>3. CASE n # 0
  <2> DEFINE st == [k \in 1..n |-> [s \in Seq(S) |-> s \o seqs[k]]]
             Goes(f) == f = [i \in 1..n |-> IF i = 1 THEN seqs[i] ELSE f[i - 1] \o seqs[i]]
  <2>1. \A k \in 1..n, s \in Seq(S) : st[k][s] = s \o seqs[k] /\ st[k][s] \in Seq(S)
    <3> SUFFICES ASSUME NEW k \in 1..n, NEW s \in Seq(S)
                 PROVE  st[k][s] = s \o seqs[k] /\ st[k][s] \in Seq(S)
      OBVIOUS
    <3>1. seqs[k] \in Seq(S)
      OBVIOUS
    <3>2. s \o seqs[k] \in Seq(S)
      BY <3>1, ConcatProperties
    <3> QED BY <3>2
  <2>2. st \in [1..n -> [Seq(S) -> Seq(S)]]
    <3>1. \A k \in 1..n, s \in Seq(S) : s \o seqs[k] \in Seq(S)
      BY <2>1
    <3> QED BY <3>1
  <2> HIDE DEF st
  <2>3. PICK g : Iterates(g, n, Seq(S), <<>>, st)
    <3>1. <<>> \in Seq(S)
      OBVIOUS
    <3> QED BY <2>2, <3>1, IterationExists
  <2>4. /\ g \in [0..n -> Seq(S)] /\ g[0] = <<>>
        /\ \A k \in 1..n : g[k] = g[k - 1] \o seqs[k]
    <3>1. g \in [0..n -> Seq(S)] /\ g[0] = <<>> /\ \A k \in 1..n : g[k] = st[k][g[k - 1]]
      BY <2>3 DEF Iterates
    <3>2. \A k \in 1..n : k - 1 \in 0..n
      OBVIOUS
    <3> QED BY <2>1, <3>1, <3>2
  <2>4a. g[1] = seqs[1]
    <3>1. 1 \in 1..n /\ 1 - 1 = 0
      BY <1>3
    <3>2. seqs[1] \in Seq(S) /\ g[1] = g[1 - 1] \o seqs[1]
      BY <2>4, <3>1
    <3>3. g[1] = <<>> \o seqs[1]
      BY <2>4, <3>1, <3>2
    <3> QED BY <3>2, <3>3, ConcatEmptySeq
  <2> DEFINE e == [i \in 1..n |-> g[i]]
  <2>5. Goes(e)
    <3>1. ASSUME NEW i \in 1..n PROVE g[i] = IF i = 1 THEN seqs[i] ELSE e[i - 1] \o seqs[i]
      <4>1. CASE i = 1
        BY <2>4a, <4>1
      <4>2. CASE i # 1
        <5>1. i - 1 \in 1..n
          BY <4>2
        <5> QED BY <2>4, <4>2, <5>1
      <4> QED BY <4>1, <4>2
    <3>2. [i \in 1..n |-> g[i]] = [i \in 1..n |-> IF i = 1 THEN seqs[i] ELSE e[i - 1] \o seqs[i]]
      <4> HIDE DEF e
      <4> QED BY <3>1
    <3> QED BY <3>2
  <2> DEFINE flatten == CHOOSE f : Goes(f)
  <2>6. FlattenSeq(seqs) = flatten[n]
    BY <1>1, <1>3 DEF FlattenSeq
  <2>7. Goes(flatten)
    <3> HIDE DEF Goes, e
    <3> QED BY <2>5
  <2> HIDE DEF flatten
  <2>8. /\ flatten[1] = seqs[1]
        /\ \A i \in 2..n : flatten[i] = flatten[i - 1] \o seqs[i]
    <3>1. \A i \in 1..n : flatten[i] = IF i = 1 THEN seqs[i] ELSE flatten[i - 1] \o seqs[i]
      BY <2>7
    <3>2. 1 \in 1..n /\ \A i \in 2..n : i \in 1..n /\ i # 1
      BY <1>3
    <3> QED BY <3>1, <3>2
  <2> DEFINE Same == {k \in 0..n : k > 0 => flatten[k] = g[k]}
  <2>9. 0..n \subseteq Same
    <3>1. 0 \in Same
      OBVIOUS
    <3>2. ASSUME NEW k \in 0..(n - 1), k \in Same PROVE k + 1 \in Same
      <4>1. CASE k = 0
        <5>1. k + 1 = 1 /\ k + 1 \in 0..n
          BY <4>1
        <5> QED BY <2>4a, <2>8, <5>1
      <4>2. CASE k # 0
        <5>1. k + 1 \in 2..n /\ k + 1 \in 1..n /\ k + 1 \in 0..n /\ (k + 1) - 1 = k /\ k > 0
          BY <4>2
        <5>2. flatten[k + 1] = flatten[k] \o seqs[k + 1]
          BY <2>8, <5>1
        <5>3. g[k + 1] = g[k] \o seqs[k + 1]
          BY <2>4, <5>1
        <5>4. flatten[k] = g[k]
          BY <3>2, <5>1
        <5> QED BY <5>1, <5>2, <5>3, <5>4
      <4> QED BY <4>1, <4>2
    <3> HIDE DEF Same
    <3> QED BY <3>1, <3>2, InductionUpTo
  <2>10. FlattenSeq(seqs) = g[n]
    BY <1>3, <2>6, <2>9
  <2> DEFINE at == [k \in 0..n |-> Len(g[k])]
  <2>11. at \in [0..n -> Nat] /\ at[0] = 0 /\ at[n] = Len(g[n])
    BY <2>4
  <2>12. ASSUME NEW k \in 1..n
         PROVE  /\ at[k - 1] \in Nat /\ at[k] = at[k - 1] + Len(seqs[k])
                /\ \A i \in 1..Len(seqs[k]) : g[k][at[k - 1] + i] = seqs[k][i]
                /\ \A i \in 1..at[k - 1] : g[k][i] = g[k - 1][i]
    <3>0. k - 1 \in 0..n /\ k \in 0..n
      OBVIOUS
    <3>1. g[k] = g[k - 1] \o seqs[k] /\ g[k - 1] \in Seq(S) /\ seqs[k] \in Seq(S) /\ k - 1 \in 0..n
      BY <2>4, <3>0
    <3>2. at[k] = Len(g[k]) /\ at[k - 1] = Len(g[k - 1])
      BY <3>0
    <3>3. /\ Len(g[k]) = Len(g[k - 1]) + Len(seqs[k])
          /\ \A i \in 1..(Len(g[k - 1]) + Len(seqs[k])) :
               g[k][i] = IF i <= Len(g[k - 1]) THEN g[k - 1][i] ELSE seqs[k][i - Len(g[k - 1])]
      BY <3>1, ConcatProperties
    <3>4. Len(g[k - 1]) \in Nat /\ Len(seqs[k]) \in Nat
      BY <3>1, LenProperties
    <3> HIDE DEF at
    <3> DEFINE m == Len(g[k - 1])
               l == Len(seqs[k])
    <3>5. \A i \in 1..l : m + i \in 1..(m + l) /\ ~(m + i <= m) /\ (m + i) - m = i
      BY <3>4
    <3>6. \A i \in 1..m : i \in 1..(m + l) /\ i <= m
      BY <3>4
    <3> QED BY <3>2, <3>3, <3>4, <3>5, <3>6
  <2> HIDE DEF at
  <2>13. ASSUME NEW k \in 0..n
         PROVE  at[k] <= at[n] /\ \A i \in 1..at[k] : g[n][i] = g[k][i]
    <3> DEFINE Kept == {j \in 0..(n - k) : at[k] <= at[k + j] /\ \A i \in 1..at[k] : g[k + j][i] = g[k][i]}
    <3>1. 0 \in Kept
      BY <2>11
    <3>2. ASSUME NEW j \in 0..((n - k) - 1), j \in Kept PROVE j + 1 \in Kept
      <4>1. k + (j + 1) \in 1..n /\ (k + (j + 1)) - 1 = k + j /\ j + 1 \in 0..(n - k) /\ k + j \in 0..n
        OBVIOUS
      <4>2. seqs[k + (j + 1)] \in Seq(S)
        BY <4>1
      <4>3. Len(seqs[k + (j + 1)]) \in Nat
        BY <4>2, LenProperties
      <4>4. at[k] \in Nat /\ at[k + j] \in Nat
        BY <2>11, <4>1
      <4>5. at[k + j] <= at[k + (j + 1)]
        BY <2>12, <4>1, <4>3, <4>4
      <4>6. at[k] <= at[k + j] /\ \A i \in 1..at[k] : g[k + j][i] = g[k][i]
        BY <3>2
      <4>7. \A i \in 1..at[k] : i \in 1..at[k + j]
        BY <4>4, <4>6
      <4>8. \A i \in 1..at[k] : g[k + (j + 1)][i] = g[k + j][i]
        <5>1. \A i \in 1..at[(k + (j + 1)) - 1] : g[k + (j + 1)][i] = g[(k + (j + 1)) - 1][i]
          BY <2>12, <4>1
        <5>2. (k + (j + 1)) - 1 = k + j
          BY <4>1
        <5>3. \A i \in 1..at[k + j] : g[k + (j + 1)][i] = g[k + j][i]
          BY <5>1, <5>2
        <5> QED BY <4>7, <5>3
      <4>9. at[k + (j + 1)] \in Nat
        BY <2>11, <4>1
      <4>10. at[k] <= at[k + (j + 1)]
        BY <4>4, <4>5, <4>6, <4>9
      <4>11. \A i \in 1..at[k] : g[k + (j + 1)][i] = g[k][i]
        BY <4>6, <4>8
      <4> QED BY <4>1, <4>10, <4>11
    <3> HIDE DEF Kept
    <3>3. n - k \in Nat
      OBVIOUS
    <3>4. 0..(n - k) \subseteq Kept
      BY <3>1, <3>2, <3>3, InductionUpTo
    <3>5. n - k \in Kept /\ k + (n - k) = n
      BY <3>3, <3>4
    <3> QED BY <3>5 DEF Kept
  <2>14. ASSUME NEW k \in 1..n
         PROVE  /\ at[k] = at[k - 1] + Len(seqs[k]) /\ at[k] <= Len(g[n])
                /\ \A i \in 1..Len(seqs[k]) : g[n][at[k - 1] + i] = seqs[k][i]
    <3>1. at[k] = at[k - 1] + Len(seqs[k]) /\ at[k - 1] \in Nat /\ k \in 0..n
      BY <2>12
    <3>2. Len(seqs[k]) \in Nat
      <4>1. seqs[k] \in Seq(S)
        OBVIOUS
      <4> QED BY <4>1, LenProperties
    <3>3. \A i \in 1..Len(seqs[k]) : at[k - 1] + i \in 1..at[k]
      BY <3>1, <3>2
    <3> QED BY <2>11, <2>12, <2>13, <3>1, <3>3
  <2>15. Joined(g[n], seqs, n, at)
    BY <2>11, <2>14 DEF Joined
  <2> QED BY <2>4, <2>10, <2>15
<1> QED BY <1>2, <1>3

(* What the reader prints from a word on, and how it ends.                 *)
ReadSnap == [stamp : Nat, locs : Seq(AnyPlace)]
Printed == [read : Seq(ReadSnap), end : {"eof", "short", "panic"}]
AtEnd == [read |-> <<>>, end |-> "eof"]

\* A whole snapshot of n locations, stamped, at word pos.
WholeAt(file, pos, stamp, n) ==
  /\ pos + 6 + n <= Len(file)
  /\ file[pos + 1] = Ones /\ file[pos + 2] = Ones
  /\ file[pos + 3] = stamp /\ file[pos + 5] = n /\ file[pos + 6] = 0

\* What is read of it.
SnapAt(file, pos, stamp, n) ==
  [stamp |-> stamp, locs |-> [i \in 1..n |-> LocOf(file[pos + 6 + i])]]

Before(snap, later) == [read |-> <<snap>> \o later.read, end |-> later.end]

\* What is printed from each word on.
Reads(file, from) ==
  /\ from \in [0..Len(file) -> Printed]
  /\ from[Len(file)] = AtEnd
  /\ \A pos \in 0..Len(file), stamp \in Nat, n \in Nat :
       WholeAt(file, pos, stamp, n) =>
         /\ SnapAt(file, pos, stamp, n) \in ReadSnap
         /\ from[pos] = Before(SnapAt(file, pos, stamp, n), from[pos + 6 + n])

(* One definition of the recursion by what comes later in the file: the    *)
(* reader's position only grows.                                           *)
LEMMA ReaderReads ==
  ASSUME NEW file \in Seq(Nat)
  PROVE  \E from : Reads(file, from) /\ PrintLocsSnapshot(file) = from[0]
<1> DEFINE L == Len(file)
           Word(pos, i) == file[pos + i + 1]
           Marked(pos) == Word(pos, 0) = Ones /\ Word(pos, 1) = Ones
           Count(pos) == Word(pos, 4) + LocRange * LocRange * Word(pos, 5)
           Snapshot(pos) == [stamp |-> Word(pos, 2),
                             locs |-> [i \in 1..Count(pos) |-> LocOf(Word(pos, 5 + i))]]
           Body(f, pos) ==
             LET rest == Len(file) - pos
             IN  CASE rest = 0 -> [read |-> <<>>, end |-> "eof"]
                   [] rest \in 1..5 -> [read |-> <<>>, end |-> "short"]
                   [] rest >= 6 /\ ~Marked(pos) -> f[pos + 2]
                   [] rest >= 6 /\ Marked(pos) /\ rest < 6 + Count(pos) ->
                        [read |-> <<>>, end |-> "panic"]
                   [] OTHER ->
                        LET later == f[pos + 6 + Count(pos)]
                        IN  [later EXCEPT !.read = <<Snapshot(pos)>> \o @]
           Goes(f) == f = [pos \in 0..Len(file) |-> Body(f, pos)]
<1>1. L \in Nat /\ \A p \in 1..L : file[p] \in Nat
  OBVIOUS
<1>2. ASSUME NEW pos \in 0..L, L - pos >= 6 PROVE Count(pos) \in Nat /\ Word(pos, 2) \in Nat
  <2>1. pos + 4 + 1 \in 1..L /\ pos + 5 + 1 \in 1..L /\ pos + 2 + 1 \in 1..L
    BY <1>1, <1>2
  <2>2. Word(pos, 4) \in Nat /\ Word(pos, 5) \in Nat /\ Word(pos, 2) \in Nat
    BY <1>1, <2>1
  <2>3. LocRange * LocRange \in Nat
    BY LocAssumption
  <2>4. \A x, y, z \in Nat : x + y * z \in Nat
    OBVIOUS
  <2> HIDE DEF Word
  <2> QED BY <2>2, <2>3, <2>4
<1>3. ASSUME NEW pos \in 0..L, L - pos >= 6, L - pos >= 6 + Count(pos)
      PROVE  Snapshot(pos) \in ReadSnap
  <2>1. Count(pos) \in Nat /\ Word(pos, 2) \in Nat
    BY <1>2, <1>3
  <2>2. ASSUME NEW i \in 1..Count(pos) PROVE LocOf(Word(pos, 5 + i)) \in AnyPlace
    <3> DEFINE c == Count(pos)
    <3>1. pos + (5 + i) + 1 \in 1..L
      <4>1. c \in Nat /\ L - pos >= 6 + c /\ i \in 1..c
        BY <1>3, <2>1
      <4> HIDE DEF c, L
      <4> QED BY <1>1, <4>1
    <3>2. Word(pos, 5 + i) \in Nat
      BY <1>1, <3>1
    <3> QED BY <3>2, LocOfIsPlace
  <2> HIDE DEF Word, Count
  <2>3. [i \in 1..Count(pos) |-> LocOf(Word(pos, 5 + i))] \in Seq(AnyPlace)
    BY <2>1, <2>2
  <2> QED BY <2>1, <2>3 DEF ReadSnap
<1>3a. ASSUME NEW f, NEW pos \in 0..L, L - pos >= 6, Marked(pos), L - pos >= 6 + Count(pos)
       PROVE  Body(f, pos) = [f[pos + 6 + Count(pos)] EXCEPT !.read = <<Snapshot(pos)>> \o @]
  <2> HIDE DEF Marked, Count, Snapshot
  <2> DEFINE rest == L - pos
             c == Count(pos)
  <2>1. /\ ~(rest = 0) /\ ~(rest \in 1..5) /\ ~(rest >= 6 /\ ~Marked(pos))
        /\ ~(rest >= 6 /\ Marked(pos) /\ rest < 6 + Count(pos))
    <3> HIDE DEF c
    <3>1. rest \in Nat /\ c \in Nat /\ rest >= 6 + c
      BY <1>1, <1>2, <1>3a DEF c
    <3> HIDE DEF rest
    <3>2. ~(rest = 0) /\ ~(rest \in 1..5) /\ ~(rest < 6 + c)
      BY <3>1
    <3> QED BY <1>3a, <3>2 DEF c
  <2>2. Body(f, pos) =
          CASE rest = 0 -> [read |-> <<>>, end |-> "eof"]
            [] rest \in 1..5 -> [read |-> <<>>, end |-> "short"]
            [] rest >= 6 /\ ~Marked(pos) -> f[pos + 2]
            [] rest >= 6 /\ Marked(pos) /\ rest < 6 + Count(pos) -> [read |-> <<>>, end |-> "panic"]
            [] OTHER -> [f[pos + 6 + Count(pos)] EXCEPT !.read = <<Snapshot(pos)>> \o @]
    OBVIOUS
  <2> HIDE DEF rest, Body
  <2> QED BY <2>1, <2>2
<1> DEFINE F == [0..L -> Printed]
<1>4. ASSUME NEW f \in F, NEW pos \in 0..L
      PROVE  /\ L - pos = 0 => Body(f, pos) = AtEnd
             /\ L - pos >= 6 /\ Marked(pos) /\ L - pos >= 6 + Count(pos) =>
                  Body(f, pos) = [f[pos + 6 + Count(pos)] EXCEPT !.read = <<Snapshot(pos)>> \o @]
             /\ Body(f, pos) \in Printed
  <2>0. /\ [read |-> <<>>, end |-> "eof"] \in Printed
        /\ [read |-> <<>>, end |-> "short"] \in Printed
        /\ [read |-> <<>>, end |-> "panic"] \in Printed
    BY DEF Printed
  <2> HIDE DEF Marked, Count, Snapshot
  <2>1. CASE L - pos = 0
    <3>1. Body(f, pos) = AtEnd
      BY <2>1 DEF AtEnd
    <3> HIDE DEF Body
    <3> QED BY <2>0, <2>1, <3>1 DEF AtEnd
  <2>2. CASE L - pos \in 1..5
    <3>1. Body(f, pos) = [read |-> <<>>, end |-> "short"]
      BY <2>2
    <3>2. ~(L - pos = 0) /\ ~(L - pos >= 6)
      BY <1>1, <2>2
    <3> HIDE DEF Body
    <3> QED BY <2>0, <3>1, <3>2
  <2>3. CASE L - pos >= 6 /\ ~Marked(pos)
    <3>1. Body(f, pos) = f[pos + 2]
      BY <1>1, <2>3
    <3>2. pos + 2 \in 0..L /\ ~(L - pos = 0)
      BY <1>1, <2>3
    <3>3. f[pos + 2] \in Printed
      BY <3>2
    <3> HIDE DEF Body
    <3> QED BY <2>3, <3>1, <3>2, <3>3
  <2>4. CASE L - pos >= 6 /\ Marked(pos) /\ L - pos < 6 + Count(pos)
    <3>1. Body(f, pos) = [read |-> <<>>, end |-> "panic"]
      BY <1>1, <2>4
    <3>2. ~(L - pos = 0) /\ ~(L - pos >= 6 + Count(pos))
      <4>1. Count(pos) \in Nat
        BY <1>2, <2>4
      <4> QED BY <1>1, <2>4, <4>1
    <3> HIDE DEF Body
    <3> QED BY <2>0, <3>1, <3>2
  <2>5. CASE L - pos >= 6 /\ Marked(pos) /\ L - pos >= 6 + Count(pos)
    <3>1. Count(pos) \in Nat
      BY <1>2, <2>5
    <3>2. pos + 6 + Count(pos) \in 0..L /\ ~(L - pos = 0)
      BY <1>1, <2>5, <3>1
    <3>3. Body(f, pos) = [f[pos + 6 + Count(pos)] EXCEPT !.read = <<Snapshot(pos)>> \o @]
      BY <1>3a, <2>5
    <3> DEFINE later == f[pos + 6 + Count(pos)]
               snap == Snapshot(pos)
    <3>4. later \in Printed /\ snap \in ReadSnap
      BY <1>3, <2>5, <3>2
    <3>5. [later EXCEPT !.read = <<snap>> \o @] \in Printed
      <4> HIDE DEF later, snap
      <4>1. <<snap>> \in Seq(ReadSnap) /\ later.read \in Seq(ReadSnap)
        BY <3>4 DEF Printed
      <4>2. <<snap>> \o later.read \in Seq(ReadSnap)
        BY <4>1, ConcatProperties
      <4> QED BY <3>4, <4>2 DEF Printed
    <3> HIDE DEF Body
    <3> QED BY <3>2, <3>3, <3>5
  <2>6. L - pos = 0 \/ L - pos \in 1..5 \/ L - pos >= 6
    BY <1>1
  <2>7. L - pos >= 6 => L - pos < 6 + Count(pos) \/ L - pos >= 6 + Count(pos)
    BY <1>1, <1>2
  <2> HIDE DEF Body
  <2> QED BY <2>1, <2>2, <2>3, <2>4, <2>5, <2>6, <2>7
<1>5. ASSUME NEW f, NEW g, NEW pos \in 0..L, \A p \in 0..L : p > pos => f[p] = g[p]
      PROVE  Body(f, pos) = Body(g, pos)
  <2> HIDE DEF Marked, Count, Snapshot
  <2>1. CASE L - pos >= 6 /\ ~Marked(pos)
    <3>1. f[pos + 2] = g[pos + 2]
      <4>1. pos + 2 \in 0..L /\ pos + 2 > pos
        BY <1>1, <2>1
      <4> QED BY <1>5, <4>1
    <3>2. Body(f, pos) = f[pos + 2] /\ Body(g, pos) = g[pos + 2]
      BY <1>1, <2>1
    <3> HIDE DEF Body
    <3> QED BY <3>1, <3>2
  <2>2. CASE L - pos >= 6 /\ Marked(pos) /\ L - pos >= 6 + Count(pos)
    <3>1. f[pos + 6 + Count(pos)] = g[pos + 6 + Count(pos)]
      <4>1. Count(pos) \in Nat
        BY <1>2, <2>2
      <4>2. pos + 6 + Count(pos) \in 0..L /\ pos + 6 + Count(pos) > pos
        BY <1>1, <2>2, <4>1
      <4> QED BY <1>5, <4>2
    <3>2. /\ Body(f, pos) = [f[pos + 6 + Count(pos)] EXCEPT !.read = <<Snapshot(pos)>> \o @]
          /\ Body(g, pos) = [g[pos + 6 + Count(pos)] EXCEPT !.read = <<Snapshot(pos)>> \o @]
      BY <1>3a, <2>2
    <3> HIDE DEF Body
    <3> QED BY <3>1, <3>2
  <2>3. CASE L - pos = 0
    <3>1. Body(f, pos) = AtEnd /\ Body(g, pos) = AtEnd
      BY <2>3 DEF AtEnd
    <3> HIDE DEF Body
    <3> QED BY <3>1
  <2>3a. CASE L - pos \in 1..5
    <3> DEFINE short == [read |-> <<>>, end |-> "short"]
    <3>1. Body(f, pos) = short
      BY <2>3a
    <3>2. Body(g, pos) = short
      BY <2>3a
    <3> HIDE DEF Body, short
    <3> QED BY <3>1, <3>2
  <2>4. CASE L - pos >= 6 /\ Marked(pos) /\ L - pos < 6 + Count(pos)
    <3> DEFINE panic == [read |-> <<>>, end |-> "panic"]
    <3>1. Body(f, pos) = panic
      BY <1>1, <2>4
    <3>2. Body(g, pos) = panic
      BY <1>1, <2>4
    <3> HIDE DEF Body, panic
    <3> QED BY <3>1, <3>2
  <2>5. L - pos = 0 \/ L - pos \in 1..5 \/ L - pos >= 6
    BY <1>1
  <2>6. L - pos >= 6 => L - pos < 6 + Count(pos) \/ L - pos >= 6 + Count(pos)
    BY <1>1, <1>2
  <2> HIDE DEF Body
  <2> QED BY <2>1, <2>2, <2>3, <2>3a, <2>4, <2>5, <2>6
<1> HIDE DEF Body, Marked, Count, Snapshot
<1> DEFINE Done(f, k) == \A pos \in 0..L : L - pos <= k => f[pos] = Body(f, pos)
           Good == {k \in 0..L : \E f \in F : Done(f, k)}
<1>6. ASSUME NEW f \in F, NEW p \in 0..L, \A pos \in 0..L : pos > p => f[pos] = Body(f, pos)
      PROVE  \E h \in F : \A pos \in 0..L : pos >= p => h[pos] = Body(h, pos)
  <2> DEFINE b == Body(f, p)
             h == [f EXCEPT ![p] = b]
  <2>1. b \in Printed
    BY <1>4
  <2> HIDE DEF b
  <2>2. h \in F /\ h[p] = b /\ \A pos \in 0..L : pos > p => h[pos] = f[pos]
    BY <1>1, <2>1
  <2> HIDE DEF h
  <2>3. ASSUME NEW pos \in 0..L, pos >= p PROVE Body(h, pos) = Body(f, pos)
    <3>1. \A r \in 0..L : r > pos => h[r] = f[r]
      BY <1>1, <2>2, <2>3
    <3> HIDE DEF F, L
    <3> QED BY <1>5, <2>2, <3>1
  <2>4. h[p] = Body(h, p)
    BY <1>1, <2>2, <2>3 DEF b
  <2>5. \A pos \in 0..L : pos > p => h[pos] = Body(h, pos)
    <3> SUFFICES ASSUME NEW pos \in 0..L, pos > p PROVE h[pos] = Body(h, pos)
      OBVIOUS
    <3>1. pos >= p
      BY <1>1
    <3> QED BY <1>6, <2>2, <2>3, <3>1
  <2>6. \A pos \in 0..L : pos >= p => h[pos] = Body(h, pos)
    BY <1>1, <2>4, <2>5
  <2> QED BY <2>2, <2>6
<1>7. 0..L \subseteq Good
  <2> DEFINE dull == [pos \in 0..L |-> AtEnd]
  <2>1. dull \in F
    BY DEF Printed, AtEnd
  <2> HIDE DEF dull
  <2>2. 0 \in Good
    <3>1. \A pos \in 0..L : pos > L => dull[pos] = Body(dull, pos)
      BY <1>1
    <3>2. L \in 0..L
      BY <1>1
    <3>3. PICK h \in F : \A pos \in 0..L : pos >= L => h[pos] = Body(h, pos)
      BY <1>6, <2>1, <3>1, <3>2
    <3>4. Done(h, 0)
      BY <1>1, <3>3
    <3> HIDE DEF Done, F
    <3> QED BY <1>1, <3>4
  <2>3. ASSUME NEW k \in 0..(L - 1), k \in Good PROVE k + 1 \in Good
    <3>1. PICK f \in F : Done(f, k)
      BY <2>3
    <3> DEFINE p == L - (k + 1)
    <3>2. p \in 0..L /\ \A pos \in 0..L : pos > p => L - pos <= k
      BY <1>1
    <3>3. \A pos \in 0..L : L - pos <= k + 1 => pos >= p
      BY <1>1
    <3>4. \A pos \in 0..L : pos > p => f[pos] = Body(f, pos)
      BY <3>1, <3>2
    <3> HIDE DEF p
    <3>5. PICK h \in F : \A pos \in 0..L : pos >= p => h[pos] = Body(h, pos)
      BY <1>6, <3>2, <3>4
    <3>6. Done(h, k + 1)
      BY <3>3, <3>5
    <3> HIDE DEF Done, F
    <3> QED BY <1>1, <3>6
  <2> HIDE DEF Good
  <2> QED BY <1>1, <2>2, <2>3, InductionUpTo
<1>8. PICK g \in F : Done(g, L)
  <2>1. L \in Good
    BY <1>1, <1>7
  <2> QED BY <2>1
<1>9. Goes(g)
  <2>1. \A pos \in 0..Len(file) : g[pos] = Body(g, pos)
    BY <1>1, <1>8
  <2>2. g = [pos \in 0..Len(file) |-> g[pos]]
    OBVIOUS
  <2> QED BY <2>1, <2>2
<1> DEFINE from == CHOOSE f : Goes(f)
<1>10. PrintLocsSnapshot(file) = from[0]
  BY DEF PrintLocsSnapshot, Body, Marked, Count, Snapshot, Word
<1>11. Goes(from)
  <2> HIDE DEF Goes
  <2> QED BY <1>9
<1> HIDE DEF from
<1>12. from = [pos \in 0..L |-> from[pos]] /\ \A pos \in 0..L : from[pos] = Body(from, pos)
  <2>1. \A pos \in 0..L : from[pos] = Body(from, pos)
    BY <1>11
  <2>2. from = [pos \in 0..L |-> from[pos]]
    BY <1>11
  <2> QED BY <2>1, <2>2
<1> DEFINE Same == {k \in 0..L : \A pos \in 0..L : L - pos <= k => from[pos] = g[pos]}
<1>13. ASSUME NEW p \in 0..L, \A pos \in 0..L : pos > p => from[pos] = g[pos]
       PROVE  from[p] = g[p]
  <2>1. Body(from, p) = Body(g, p)
    <3> HIDE DEF F, L
    <3> QED BY <1>5, <1>13
  <2>2. from[p] = Body(from, p)
    BY <1>12
  <2>3. g[p] = Body(g, p)
    BY <1>1, <1>8
  <2> QED BY <2>1, <2>2, <2>3
<1>14. 0..L \subseteq Same
  <2>1. 0 \in Same
    <3>1. \A pos \in 0..L : ~(pos > L) /\ (L - pos <= 0 => pos = L)
      BY <1>1
    <3>2. L \in 0..L
      BY <1>1
    <3>3. from[L] = g[L]
      BY <1>13, <3>1, <3>2
    <3> QED BY <1>1, <3>1, <3>3
  <2>2. ASSUME NEW k \in 0..(L - 1), k \in Same PROVE k + 1 \in Same
    <3> DEFINE p == L - (k + 1)
    <3>1. p \in 0..L /\ \A pos \in 0..L : (pos > p => L - pos <= k) /\ (L - pos <= k + 1 => pos > p \/ pos = p)
      BY <1>1
    <3>2. \A pos \in 0..L : pos > p => from[pos] = g[pos]
      BY <2>2, <3>1
    <3> HIDE DEF p
    <3>3. from[p] = g[p]
      BY <1>13, <3>1, <3>2
    <3> QED BY <1>1, <3>1, <3>2, <3>3
  <2> HIDE DEF Same
  <2> QED BY <1>1, <2>1, <2>2, InductionUpTo
<1>15. \A pos \in 0..L : from[pos] = g[pos] /\ from[pos] = Body(from, pos)
  <2>1. L \in Same /\ \A pos \in 0..L : L - pos <= L
    BY <1>1, <1>14
  <2> QED BY <1>12, <2>1
<1>16. from \in F
  <2>1. \A pos \in 0..L : from[pos] \in Printed
    BY <1>15
  <2> QED BY <1>12, <2>1
<1>17. from[L] = AtEnd
  <2>1. L \in 0..L /\ L - L = 0
    BY <1>1
  <2>2. Body(from, L) = AtEnd
    BY <1>4, <1>16, <2>1
  <2> QED BY <1>15, <2>1, <2>2
<1>18. ASSUME NEW pos \in 0..L, NEW stamp \in Nat, NEW n \in Nat, WholeAt(file, pos, stamp, n)
       PROVE  /\ SnapAt(file, pos, stamp, n) \in ReadSnap
              /\ from[pos] = Before(SnapAt(file, pos, stamp, n), from[pos + 6 + n])
  <2> DEFINE snap == SnapAt(file, pos, stamp, n)
  <2>1. /\ pos + 0 + 1 = pos + 1 /\ pos + 1 + 1 = pos + 2 /\ pos + 2 + 1 = pos + 3
        /\ pos + 4 + 1 = pos + 5 /\ pos + 5 + 1 = pos + 6
    BY <1>1
  <2>2. /\ Word(pos, 0) = Ones /\ Word(pos, 1) = Ones /\ Word(pos, 2) = stamp
        /\ Word(pos, 4) = n /\ Word(pos, 5) = 0
    BY <1>18, <2>1 DEF WholeAt
  <2>3. Marked(pos)
    BY <2>2 DEF Marked
  <2>4. Count(pos) = n
    <3>1. \A x, y \in Nat : x + y * 0 = x
      OBVIOUS
    <3>2. LocRange * LocRange \in Nat
      BY LocAssumption
    <3> QED BY <2>2, <3>1, <3>2 DEF Count
  <2>5. L - pos >= 6 /\ L - pos >= 6 + Count(pos)
    BY <1>1, <1>18, <2>4 DEF WholeAt
  <2>6. Snapshot(pos) = snap
    <3>1. \A i \in 1..n : pos + (5 + i) + 1 = pos + 6 + i
      BY <1>1
    <3>2. \A i \in 1..n : Word(pos, 5 + i) = file[pos + 6 + i]
      BY <3>1
    <3>3. [i \in 1..n |-> LocOf(Word(pos, 5 + i))] = [i \in 1..n |-> LocOf(file[pos + 6 + i])]
      <4> HIDE DEF Word
      <4> QED BY <3>2
    <3> QED BY <2>2, <2>4, <3>3 DEF Snapshot, SnapAt
  <2>7. Snapshot(pos) \in ReadSnap
    BY <1>3, <2>5
  <2>8. Body(from, pos) = [from[pos + 6 + Count(pos)] EXCEPT !.read = <<Snapshot(pos)>> \o @]
    BY <1>3a, <2>3, <2>5
  <2> HIDE DEF snap
  <2>9. from[pos] = Before(snap, from[pos + 6 + n])
    <3> DEFINE later == from[pos + 6 + n]
    <3>1. pos + 6 + n \in 0..L
      BY <1>1, <1>18 DEF WholeAt
    <3>2. later \in Printed
      BY <1>16, <3>1
    <3>3. from[pos] = [later EXCEPT !.read = <<snap>> \o @]
      BY <1>15, <2>4, <2>6, <2>8
    <3> HIDE DEF later
    <3>4. [later EXCEPT !.read = <<snap>> \o @] = [read |-> <<snap>> \o later.read, end |-> later.end]
      <4> DEFINE longer == <<snap>> \o later.read
      <4>1. \A l \in Printed : \A q : [l EXCEPT !.read = q] = [read |-> q, end |-> l.end]
        BY DEF Printed
      <4> HIDE DEF longer
      <4>2. [later EXCEPT !.read = longer] = [read |-> longer, end |-> later.end]
        BY <3>2, <4>1
      <4> QED BY <4>2 DEF longer
    <3> QED BY <3>3, <3>4 DEF Before, later
  <2> QED BY <2>6, <2>7, <2>9 DEF snap
<1>19. Reads(file, from)
  BY <1>16, <1>17, <1>18 DEF Reads
<1> QED BY <1>10, <1>19

Saved == [stamp : Nat, locs : Seq(Places)]

(* The words of a saved snapshot, where the reader looks for them.         *)
LEMMA SavedWords ==
  ASSUME NEW stamp \in Nat, NEW locs \in Seq(Places)
  PROVE  LET w == SnapshotWords(stamp, locs)
         IN  /\ Len(locs) \in Nat /\ w \in Seq(Nat) /\ Len(w) = 6 + Len(locs)
             /\ w[1] = Ones /\ w[2] = Ones /\ w[3] = stamp /\ w[5] = Len(locs) /\ w[6] = 0
             /\ \A i \in 1..Len(locs) : w[6 + i] = LocWord(locs[i])
<1> DEFINE head == <<Ones, Ones, stamp, 0, Len(locs), 0>>
           body == [i \in DOMAIN locs |-> LocWord(locs[i])]
           n == Len(locs)
<1>1. n \in Nat /\ DOMAIN locs = 1..n /\ \A i \in 1..n : locs[i] \in Places
  OBVIOUS
<1>2. Ones \in Nat
  <2>1. \A x \in Nat \ {0} : x * x - 1 \in Nat
    OBVIOUS
  <2> QED BY <2>1, LocAssumption DEF Ones
<1>3. /\ head \in Seq(Nat) /\ Len(head) = 6
      /\ head[1] = Ones /\ head[2] = Ones /\ head[3] = stamp /\ head[5] = n /\ head[6] = 0
  BY <1>1, <1>2
<1>4. body \in Seq(Nat) /\ Len(body) = n /\ \A i \in 1..n : body[i] = LocWord(locs[i])
  <2>1. \A i \in 1..n : LocWord(locs[i]) \in Nat
    BY <1>1, LocationIsClose
  <2> QED BY <1>1, <2>1
<1>5. SnapshotWords(stamp, locs) = head \o body
  BY DEF SnapshotWords
<1> HIDE DEF head, body
<1>6. /\ head \o body \in Seq(Nat) /\ Len(head \o body) = 6 + n
      /\ \A i \in 1..(6 + n) : (head \o body)[i] = IF i <= 6 THEN head[i] ELSE body[i - 6]
  <2>1. /\ head \o body \in Seq(Nat) /\ Len(head \o body) = Len(head) + Len(body)
        /\ \A i \in 1..(Len(head) + Len(body)) :
             (head \o body)[i] = IF i <= Len(head) THEN head[i] ELSE body[i - Len(head)]
    <3>1. head \in Seq(Nat) /\ body \in Seq(Nat)
      BY <1>3, <1>4
    <3> QED BY <3>1, ConcatProperties
  <2>2. Len(head) = 6 /\ Len(body) = n
    BY <1>3, <1>4
  <2> HIDE DEF n
  <2> QED BY <2>1, <2>2
<1> HIDE DEF n
<1>7. /\ 1 \in 1..(6 + n) /\ 2 \in 1..(6 + n) /\ 3 \in 1..(6 + n) /\ 5 \in 1..(6 + n) /\ 6 \in 1..(6 + n)
      /\ \A i \in 1..n : 6 + i \in 1..(6 + n) /\ ~(6 + i <= 6) /\ (6 + i) - 6 = i
  BY <1>1
<1>8. /\ (head \o body)[1] = Ones /\ (head \o body)[2] = Ones /\ (head \o body)[3] = stamp
      /\ (head \o body)[5] = n /\ (head \o body)[6] = 0
  <2>1. \A i \in 1..(6 + n) : i <= 6 => (head \o body)[i] = head[i]
    BY <1>6
  <2>2. /\ (head \o body)[1] = head[1] /\ (head \o body)[2] = head[2] /\ (head \o body)[3] = head[3]
        /\ (head \o body)[5] = head[5] /\ (head \o body)[6] = head[6]
    <3>1. 1 <= 6 /\ 2 <= 6 /\ 3 <= 6 /\ 5 <= 6 /\ 6 <= 6
      OBVIOUS
    <3> QED BY <1>7, <2>1, <3>1, Zenon
  <2> QED BY <1>3, <2>2, Zenon
<1>9. \A i \in 1..n : (head \o body)[6 + i] = LocWord(locs[i])
  BY <1>4, <1>6, <1>7
<1> QED BY <1>1, <1>5, <1>6, <1>8, <1>9 DEF n

(* Whatever was saved before a torn append is read back in order, each     *)
(* location at most one step off, and all of it when none was torn: for any*)
(* snapshots and any torn length.                                          *)
THEOREM SnapshotsReadAlways ==
  ASSUME NEW n \in Nat, NEW snapshots \in [1..n -> Saved], NEW torn \in 0..n, NEW words \in Nat,
         torn # 0 => words <= 6 + Len(snapshots[torn].locs)
  PROVE  SnapshotsRead(snapshots, torn, words)
<1> DEFINE w(k) == SnapshotWords(snapshots[k].stamp, snapshots[k].locs)
           parts == [k \in DOMAIN snapshots |-> IF k = torn THEN SubSeq(w(k), 1, words) ELSE w(k)]
           kept == IF torn = 0 THEN n ELSE torn - 1
           len(k) == Len(snapshots[k].locs)
<1>1. \A k \in 1..n : snapshots[k].stamp \in Nat /\ snapshots[k].locs \in Seq(Places)
  BY DEF Saved
<1>2. ASSUME NEW k \in 1..n
      PROVE  /\ len(k) \in Nat /\ w(k) \in Seq(Nat) /\ Len(w(k)) = 6 + len(k)
             /\ w(k)[1] = Ones /\ w(k)[2] = Ones /\ w(k)[3] = snapshots[k].stamp
             /\ w(k)[5] = len(k) /\ w(k)[6] = 0
             /\ \A i \in 1..len(k) : w(k)[6 + i] = LocWord(snapshots[k].locs[i])
  <2> DEFINE stamp == snapshots[k].stamp
             locs == snapshots[k].locs
  <2>1. stamp \in Nat /\ locs \in Seq(Places)
    BY <1>1
  <2> HIDE DEF stamp, locs
  <2>2. LET v == SnapshotWords(stamp, locs)
        IN  /\ Len(locs) \in Nat /\ v \in Seq(Nat) /\ Len(v) = 6 + Len(locs)
            /\ v[1] = Ones /\ v[2] = Ones /\ v[3] = stamp /\ v[5] = Len(locs) /\ v[6] = 0
            /\ \A i \in 1..Len(locs) : v[6 + i] = LocWord(locs[i])
    BY <2>1, SavedWords
  <2> QED BY <2>2 DEF stamp, locs
<1>3. kept \in 0..n /\ (torn = 0 => kept = n) /\ \A k \in 1..kept : k \in 1..n /\ k # torn
  OBVIOUS
<1>4. DOMAIN snapshots = 1..n /\ Len(snapshots) = n
  OBVIOUS
<1> HIDE DEF w, len
<1>5. parts \in [1..n -> Seq(Nat)] /\ \A k \in 1..n : k # torn => parts[k] = w(k)
  <2>1. ASSUME NEW k \in 1..n, k = torn PROVE SubSeq(w(k), 1, words) \in Seq(Nat)
    <3>1. words <= 6 + len(k)
      BY <2>1 DEF len
    <3>2. \A i \in 1..words : w(k)[i] \in Nat
      <4> SUFFICES ASSUME NEW i \in 1..words PROVE w(k)[i] \in Nat
        OBVIOUS
      <4>1. i \in 1..Len(w(k)) /\ w(k) \in Seq(Nat)
        BY <1>2, <3>1
      <4> QED BY <4>1, ElementOfSeq
    <3>3. 1 \in Int /\ words \in Int
      OBVIOUS
    <3> QED BY <3>2, <3>3, SubSeqProperties
  <2> QED BY <1>2, <1>4, <2>1
<1> DEFINE file == FlattenSeq(parts)
<1>6. SavedFile(snapshots, torn, words) = file
  BY DEF SavedFile, w
<1> HIDE DEF parts
<1>7. file \in Seq(Nat) /\ \E at : Joined(file, parts, n, at)
  BY <1>5, FlattenJoins
<1> HIDE DEF file
<1>8. PICK at : Joined(file, parts, n, at)
  BY <1>7
<1>9. PICK from : Reads(file, from) /\ PrintLocsSnapshot(file) = from[0]
  BY <1>7, ReaderReads
<1>10. at \in [0..n -> Nat] /\ at[0] = 0 /\ at[n] = Len(file) /\ Len(file) \in Nat
  BY <1>7, <1>8 DEF Joined
<1> DEFINE snap(k) == [stamp |-> snapshots[k].stamp,
                       locs |-> [i \in 1..len(k) |-> LocOf(LocWord(snapshots[k].locs[i]))]]
<1>11. ASSUME NEW k \in 1..kept
       PROVE  /\ snap(k) \in ReadSnap
              /\ from[at[k - 1]] = Before(snap(k), from[at[k]])
  <2> DEFINE pos == at[k - 1]
  <2>1. k \in 1..n /\ k # torn /\ k - 1 \in 0..n /\ k \in 0..n
    BY <1>3
  <2>2. /\ at[k] = pos + Len(parts[k]) /\ at[k] <= Len(file)
        /\ \A i \in 1..Len(parts[k]) : file[pos + i] = parts[k][i]
    BY <1>8, <2>1 DEF Joined
  <2>3. parts[k] = w(k)
    BY <1>5, <2>1
  <2>4. /\ len(k) \in Nat /\ Len(w(k)) = 6 + len(k)
        /\ w(k)[1] = Ones /\ w(k)[2] = Ones /\ w(k)[3] = snapshots[k].stamp
        /\ w(k)[5] = len(k) /\ w(k)[6] = 0
        /\ \A i \in 1..len(k) : w(k)[6 + i] = LocWord(snapshots[k].locs[i])
    BY <1>2, <2>1
  <2>5. pos \in Nat
    BY <1>10, <2>1
  <2> HIDE DEF pos
  <2>6. \A i \in 1..(6 + len(k)) : file[pos + i] = w(k)[i]
    BY <2>2, <2>3, <2>4
  <2>7. /\ 1 \in 1..(6 + len(k)) /\ 2 \in 1..(6 + len(k)) /\ 3 \in 1..(6 + len(k))
        /\ 5 \in 1..(6 + len(k)) /\ 6 \in 1..(6 + len(k))
        /\ \A i \in 1..len(k) : 6 + i \in 1..(6 + len(k)) /\ pos + (6 + i) = pos + 6 + i
    BY <2>4, <2>5
  <2>8. at[k] = pos + 6 + len(k) /\ pos \in 0..Len(file)
    BY <1>10, <2>2, <2>3, <2>4, <2>5
  <2>9. WholeAt(file, pos, snapshots[k].stamp, len(k))
    <3>1. /\ file[pos + 1] = Ones /\ file[pos + 2] = Ones
          /\ file[pos + 3] = snapshots[k].stamp /\ file[pos + 5] = len(k) /\ file[pos + 6] = 0
      BY <2>4, <2>6, <2>7
    <3> QED BY <2>2, <2>8, <3>1 DEF WholeAt
  <2>10. \A i \in 1..len(k) : file[pos + 6 + i] = LocWord(snapshots[k].locs[i])
    BY <2>4, <2>6, <2>7
  <2>11. snapshots[k].stamp \in Nat
    BY <1>1, <2>1
  <2> DEFINE read == SnapAt(file, pos, snapshots[k].stamp, len(k))
  <2>12. read \in ReadSnap /\ from[pos] = Before(read, from[pos + 6 + len(k)])
    <3> DEFINE stamp == snapshots[k].stamp
               c == len(k)
    <3>1. stamp \in Nat /\ c \in Nat /\ WholeAt(file, pos, stamp, c) /\ pos \in 0..Len(file)
      BY <2>4, <2>8, <2>9, <2>11
    <3> HIDE DEF stamp, c
    <3>2. \A p \in 0..Len(file), t \in Nat, m \in Nat :
            WholeAt(file, p, t, m) =>
              /\ SnapAt(file, p, t, m) \in ReadSnap
              /\ from[p] = Before(SnapAt(file, p, t, m), from[p + 6 + m])
      BY <1>9 DEF Reads
    <3>3. /\ SnapAt(file, pos, stamp, c) \in ReadSnap
          /\ from[pos] = Before(SnapAt(file, pos, stamp, c), from[pos + 6 + c])
      BY <3>1, <3>2, Zenon
    <3> QED BY <3>3 DEF stamp, c
  <2>13. read = snap(k)
    <3>1. [i \in 1..len(k) |-> LocOf(file[pos + 6 + i])]
            = [i \in 1..len(k) |-> LocOf(LocWord(snapshots[k].locs[i]))]
      BY <2>10
    <3> QED BY <3>1 DEF SnapAt
  <2> HIDE DEF read, snap
  <2> QED BY <2>8, <2>12, <2>13 DEF pos
<1> HIDE DEF kept
<1>12. \A k \in 0..n : at[k] \in 0..Len(file)
  <2> SUFFICES ASSUME NEW k \in 0..n PROVE at[k] \in 0..Len(file)
    OBVIOUS
  <2>1. CASE k = 0
    BY <1>10, <2>1
  <2>2. CASE k # 0
    <3>1. k \in 1..n
      BY <2>2
    <3> QED BY <1>8, <1>10, <3>1 DEF Joined
  <2> QED BY <2>1, <2>2
<1>13. \A k \in 0..n : from[at[k]] \in Printed
  BY <1>9, <1>12 DEF Reads
<1> HIDE DEF snap
<1> DEFINE Read(j) == LET r == from[at[kept - j]]
                      IN  /\ Len(r.read) >= j
                          /\ \A i \in 1..j : r.read[i] = snap((kept - j) + i)
                          /\ torn = 0 => Len(r.read) = j /\ r.end = "eof"
           Good == {j \in 0..kept : Read(j)}
<1>14. 0..kept \subseteq Good
  <2>1. 0 \in Good
    <3>1. kept - 0 = kept /\ 0 \in 0..kept
      BY <1>3
    <3>2. Len(from[at[kept]].read) \in Nat
      <4>1. from[at[kept]] \in Printed
        BY <1>3, <1>13
      <4> QED BY <4>1 DEF Printed
    <3>3. ASSUME torn = 0 PROVE Len(from[at[kept]].read) = 0 /\ from[at[kept]].end = "eof"
      <4>1. from[at[kept]] = AtEnd
        BY <1>3, <1>9, <1>10, <3>3 DEF Reads
      <4> QED BY <4>1 DEF AtEnd
    <3> QED BY <3>1, <3>2, <3>3
  <2>2. ASSUME NEW j \in 0..(kept - 1), j \in Good PROVE j + 1 \in Good
    <3> DEFINE k == kept - j
               r == from[at[k]]
               s == from[at[k - 1]]
    <3>1. k \in 1..kept /\ kept - (j + 1) = k - 1 /\ j + 1 \in 0..kept /\ k \in 0..n
      BY <1>3
    <3>2. snap(k) \in ReadSnap /\ s = Before(snap(k), r)
      BY <1>11, <3>1
    <3>3. r \in Printed
      BY <1>13, <3>1
    <3>4. /\ Len(r.read) >= j /\ \A i \in 1..j : r.read[i] = snap(k + i)
          /\ torn = 0 => Len(r.read) = j /\ r.end = "eof"
      BY <2>2
    <3> HIDE DEF r, s
    <3>5. s.read = <<snap(k)>> \o r.read /\ s.end = r.end
      BY <3>2 DEF Before
    <3>6. <<snap(k)>> \in Seq(ReadSnap) /\ Len(<<snap(k)>>) = 1 /\ <<snap(k)>>[1] = snap(k) /\ r.read \in Seq(ReadSnap)
      BY <3>2, <3>3 DEF Printed
    <3>7. /\ Len(s.read) = 1 + Len(r.read)
          /\ \A i \in 1..(1 + Len(r.read)) : s.read[i] = IF i <= 1 THEN snap(k) ELSE r.read[i - 1]
      <4>1. /\ Len(<<snap(k)>> \o r.read) = 1 + Len(r.read)
            /\ \A i \in 1..(1 + Len(r.read)) :
                 (<<snap(k)>> \o r.read)[i] = IF i <= 1 THEN <<snap(k)>>[i] ELSE r.read[i - 1]
        BY <3>6, ConcatProperties
      <4>2. \A i \in 1..(1 + Len(r.read)) : i <= 1 => i = 1
        OBVIOUS
      <4> QED BY <3>5, <3>6, <4>1, <4>2
    <3>8. Len(r.read) \in Nat
      BY <3>6, LenProperties
    <3>9. \A i \in 1..(j + 1) : s.read[i] = snap((k - 1) + i)
      <4> SUFFICES ASSUME NEW i \in 1..(j + 1) PROVE s.read[i] = snap((k - 1) + i)
        OBVIOUS
      <4>1. CASE i = 1
        <5>1. 1 \in 1..(1 + Len(r.read)) /\ 1 <= 1 /\ (k - 1) + 1 = k
          BY <1>3, <3>8
        <5> QED BY <3>7, <4>1, <5>1
      <4>2. CASE i # 1
        <5>1. i - 1 \in 1..j /\ i \in 1..(1 + Len(r.read)) /\ ~(i <= 1) /\ k + (i - 1) = (k - 1) + i
          BY <1>3, <3>4, <3>8, <4>2
        <5> HIDE DEF k
        <5>2. s.read[i] = r.read[i - 1]
          BY <3>7, <5>1
        <5>3. r.read[i - 1] = snap(k + (i - 1))
          BY <3>4, <5>1
        <5> QED BY <5>1, <5>2, <5>3
      <4> QED BY <4>1, <4>2
    <3>10. Len(s.read) >= j + 1 /\ (torn = 0 => Len(s.read) = j + 1 /\ s.end = "eof")
      BY <3>4, <3>5, <3>7, <3>8
    <3>11. Read(j + 1)
      BY <3>1, <3>9, <3>10 DEF s
    <3> HIDE DEF Read
    <3> QED BY <3>1, <3>11
  <2> HIDE DEF Good
  <2>3. kept \in Nat
    BY <1>3
  <2> QED BY <2>1, <2>2, <2>3, InductionUpTo
<1> DEFINE result == PrintLocsSnapshot(file)
<1>15. /\ Len(result.read) >= kept
       /\ \A k \in 1..kept : result.read[k] = snap(k)
       /\ torn = 0 => Len(result.read) = kept /\ result.end = "eof"
  <2>1. kept \in Good /\ kept - kept = 0 /\ \A k \in 1..kept : 0 + k = k
    BY <1>3, <1>14
  <2>2. result = from[at[0]]
    BY <1>9, <1>10
  <2> HIDE DEF result
  <2>3. Read(kept)
    BY <2>1
  <2> QED BY <2>1, <2>2, <2>3
<1>16. ASSUME NEW k \in 1..kept
       PROVE  /\ snap(k).stamp = snapshots[k].stamp /\ Len(snap(k).locs) = Len(snapshots[k].locs)
              /\ \A i \in DOMAIN snapshots[k].locs : CloseLoc(snapshots[k].locs[i], snap(k).locs[i])
  <2>1. k \in 1..n
    BY <1>3
  <2>2. snapshots[k].locs \in Seq(Places) /\ len(k) \in Nat
    BY <1>1, <1>2, <2>1
  <2>3. snap(k).stamp = snapshots[k].stamp
    BY DEF snap
  <2>4. snap(k).locs = [i \in 1..len(k) |-> LocOf(LocWord(snapshots[k].locs[i]))]
    BY DEF snap
  <2>5. Len(snap(k).locs) = len(k)
    BY <2>2, <2>4
  <2>6. ASSUME NEW i \in DOMAIN snapshots[k].locs PROVE CloseLoc(snapshots[k].locs[i], snap(k).locs[i])
    <3>1. i \in 1..len(k) /\ snapshots[k].locs[i] \in Places
      BY <2>2 DEF len
    <3>2. snap(k).locs[i] = LocOf(LocWord(snapshots[k].locs[i]))
      BY <2>4, <3>1
    <3> QED BY <3>1, <3>2, LocationIsClose
  <2> QED BY <2>3, <2>5, <2>6 DEF len
<1> HIDE DEF result
<1>17. kept = IF torn = 0 THEN Len(snapshots) ELSE torn - 1
  BY <1>4 DEF kept
<1>18. ASSUME NEW k \in 1..kept
       PROVE  LET saved == snapshots[k] read == result.read[k]
              IN  /\ read.stamp = saved.stamp /\ Len(read.locs) = Len(saved.locs)
                  /\ \A i \in DOMAIN saved.locs : CloseLoc(saved.locs[i], read.locs[i])
  <2>1. result.read[k] = snap(k)
    BY <1>15
  <2> QED BY <1>16, <2>1
<1>19. SnapshotsRead(snapshots, torn, words) =
         /\ Len(result.read) >= kept
         /\ \A k \in 1..kept :
              LET saved == snapshots[k] read == result.read[k]
              IN  /\ read.stamp = saved.stamp /\ Len(read.locs) = Len(saved.locs)
                  /\ \A i \in DOMAIN saved.locs : CloseLoc(saved.locs[i], read.locs[i])
         /\ torn = 0 => Len(result.read) = kept /\ result.end = "eof"
  BY <1>6, <1>17 DEF SnapshotsRead, CloseLoc, result
<1> QED BY <1>15, <1>18, <1>19

(* So it is in every file of the run, for any range of the codes.          *)
THEOREM SnapshotsSurviveAlways == Spec => []SnapshotsSurvive
<1>1. Init => SnapshotsSurvive
  <2> SUFFICES ASSUME Init, About("file")
               PROVE  SnapshotsRead([k \in 1..2 |-> [stamp |-> k, locs |-> input.locs[k]]],
                                    input.torn, input.words)
    BY DEF SnapshotsSurvive
  <2> DEFINE snapshots == [k \in 1..2 |-> [stamp |-> k, locs |-> input.locs[k]]]
  <2>1. /\ input \in Files
        /\ IF input.torn = 0 THEN input.words = 0 ELSE input.words < 6 + Len(input.locs[input.torn])
    BY InputKinds
  <2>2. Locs \subseteq Places
    BY DEF Locs, Places
  <2>3. ASSUME NEW l \in LocLists PROVE l \in Seq(Places)
    <3>1. PICK n \in 0..2 : l \in [1..n -> Locs]
      BY DEF LocLists
    <3>2. l \in [1..n -> Places] /\ n \in Nat
      BY <2>2, <3>1
    <3> HIDE DEF Places
    <3> QED BY <3>2
  <2>4. input.torn \in 0..2 /\ input.words \in Nat /\ input.locs \in [1..2 -> LocLists]
    BY <2>1 DEF Files
  <2>5. snapshots \in [1..2 -> Saved]
    BY <2>3, <2>4 DEF Saved
  <2>6. input.torn # 0 => input.words <= 6 + Len(snapshots[input.torn].locs)
    <3> SUFFICES ASSUME input.torn # 0 PROVE input.words <= 6 + Len(snapshots[input.torn].locs)
      OBVIOUS
    <3>1. input.torn \in 1..2
      BY <2>4
    <3>2. snapshots[input.torn].locs = input.locs[input.torn]
      BY <3>1
    <3>3. input.locs[input.torn] \in Seq(Places)
      BY <2>3, <2>4, <3>1
    <3>4. Len(input.locs[input.torn]) \in Nat
      BY <3>3, LenProperties
    <3> QED BY <2>1, <2>4, <3>2, <3>4
  <2>7. 2 \in Nat
    OBVIOUS
  <2> HIDE DEF snapshots
  <2>8. SnapshotsRead(snapshots, input.torn, input.words)
    BY <2>4, <2>5, <2>6, <2>7, SnapshotsReadAlways
  <2> QED BY <2>8 DEF snapshots
<1>2. SnapshotsSurvive /\ UNCHANGED input => SnapshotsSurvive'
  BY DEF SnapshotsSurvive, About
<1> QED BY <1>1, <1>2, PTL DEF Spec, Next

-----------------------------------------------------------------------------
(* Statistics of nodes (NodeStats).                                        *)

(* A column's total is the sum of its numbers.                             *)
LEMMA TotalIsSum == \A counts : Total(counts) = SumBy(counts, DOMAIN counts)
BY DEF Total, SumBy

(* Groups count what is in them, and all of it.                            *)
CountsAll(S, key, counts) ==
  /\ IsFiniteSet(DOMAIN counts)
  /\ DOMAIN counts = {key[i] : i \in S}
  /\ \A k \in DOMAIN counts : counts[k] = Cardinality({i \in S : key[i] = k}) /\ counts[k] \in Nat \ {0}
  /\ Total(counts) = Cardinality(S)

(* Groups that share no node count every node once.                        *)
LEMMA GroupsCountAll ==
  ASSUME NEW S, IsFiniteSet(S), NEW key
  PROVE  CountsAll(S, key, GroupCounts(S, key))
<1> DEFINE counts == GroupCounts(S, key)
           K == {key[i] : i \in S}
           In(k) == {i \in S : key[i] = k}
<1>1. DOMAIN counts = K /\ \A k \in K : counts[k] = Cardinality(In(k))
  BY DEF GroupCounts
<1>2. IsFiniteSet(K)
  BY ImageAtMost
<1>3. ASSUME NEW k \in K PROVE Cardinality(In(k)) \in Nat \ {0}
  <2>1. IsFiniteSet(In(k)) /\ In(k) # {}
    BY FS_Subset
  <2> HIDE DEF In
  <2> QED BY <2>1, FS_CardinalityType, FS_EmptySet
<1>4. SumBy(counts, K) = Cardinality(S)
  <2> DEFINE of == [k \in K |-> In(k)]
  <2>1. \A i \in S : key[i] \in K
    OBVIOUS
  <2>2. \A k \in K : counts[k] = Cardinality(of[k])
    BY <1>1
  <2>3. \A k \in K : \A i : i \in of[k] <=> i \in S /\ key[i] = k
    OBVIOUS
  <2> HIDE DEF counts, K, of
  <2> QED BY <1>2, <2>1, <2>2, <2>3, GroupsAddUp
<1>5. Total(counts) = Cardinality(S)
  <2> HIDE DEF counts, K
  <2> QED BY <1>1, <1>4, TotalIsSum
<1> HIDE DEF counts, In
<1> QED BY <1>1, <1>2, <1>3, <1>5 DEF counts, In, CountsAll

(* Groups by their size: the sizes are counted so that they add up to the  *)
(* groups, and times how often they occur to all that is in them.          *)
SizesAgree(S, groups, sizes) ==
  /\ Total(sizes) = Cardinality(DOMAIN groups)
  /\ Total([s \in DOMAIN sizes |-> s * sizes[s]]) = Cardinality(S)
  /\ \A s \in DOMAIN sizes : sizes[s] = Cardinality({g \in DOMAIN groups : groups[g] = s})

(* Groups of the groups by size count every group once.                    *)
LEMMA SizesCountAll ==
  ASSUME NEW S, IsFiniteSet(S), NEW key
  PROVE  LET groups == GroupCounts(S, key)
         IN  SizesAgree(S, groups, GroupCounts(DOMAIN groups, groups))
<1> DEFINE groups == GroupCounts(S, key)
           G == DOMAIN groups
           sizes == GroupCounts(G, groups)
           K == DOMAIN sizes
           weight == [s \in K |-> s * sizes[s]]
           of == [s \in K |-> {g \in G : groups[g] = s}]
<1>1. IsFiniteSet(G) /\ (\A g \in G : groups[g] \in Nat \ {0}) /\ Total(groups) = Cardinality(S)
  <2>1. CountsAll(S, key, groups)
    BY GroupsCountAll
  <2> HIDE DEF groups
  <2> QED BY <2>1 DEF CountsAll
<1> HIDE DEF groups
<1>2. /\ IsFiniteSet(K) /\ K = {groups[g] : g \in G} /\ Total(sizes) = Cardinality(G)
      /\ \A s \in K : sizes[s] = Cardinality({g \in G : groups[g] = s}) /\ sizes[s] \in Nat \ {0}
  <2> HIDE DEF G
  <2> DEFINE counts == GroupCounts(G, groups)
  <2>1. /\ IsFiniteSet(DOMAIN counts) /\ DOMAIN counts = {groups[g] : g \in G}
        /\ Total(counts) = Cardinality(G)
        /\ \A s \in DOMAIN counts : counts[s] = Cardinality({g \in G : groups[g] = s}) /\ counts[s] \in Nat \ {0}
    <3>1. CountsAll(G, groups, counts)
      BY <1>1, GroupsCountAll
    <3> HIDE DEF counts
    <3> QED BY <3>1 DEF CountsAll
  <2> QED BY <2>1
<1>3. \A g \in G : groups[g] \in K /\ groups[g] \in Int
  BY <1>1, <1>2
<1>4. \A s \in K : s \in Nat
  BY <1>1, <1>2
<1>5. \A s \in K : \A g : g \in of[s] <=> g \in G /\ groups[g] = s
  OBVIOUS
<1>6. \A s \in K : of[s] \in SUBSET G /\ sizes[s] = Cardinality(of[s])
  BY <1>2
<1>7. \A s \in K : weight[s] = s * sizes[s] /\ DOMAIN weight = K
  OBVIOUS
<1> HIDE DEF of, weight, sizes, K, G
<1>8. ASSUME NEW s \in K PROVE weight[s] = SumBy(groups, of[s])
  <2>1. IsFiniteSet(of[s]) /\ s \in Nat /\ \A g \in of[s] : groups[g] = s
    BY <1>1, <1>4, <1>5, <1>6, FS_Subset
  <2>2. SumBy(groups, of[s]) = s * Cardinality(of[s])
    BY <2>1, SumOfOnes
  <2> QED BY <1>6, <1>7, <2>2
<1>9. SumBy(weight, K) = SumBy(groups, G)
  BY <1>1, <1>2, <1>3, <1>5, <1>8, SumOfGroups
<1>10. DOMAIN weight = K
  BY DEF weight
<1>11. Total(weight) = Cardinality(S)
  BY <1>1, <1>9, <1>10, TotalIsSum DEF G
<1> QED BY <1>2, <1>11 DEF weight, sizes, K, G, groups, SizesAgree

(* The smaller of two numbers is one of them and no more than either.      *)
LEMMA MinOfTwo ==
  ASSUME NEW a \in Int, NEW b \in Int
  PROVE  Min({a, b}) \in {a, b} /\ Min({a, b}) <= a /\ Min({a, b}) <= b
<1>1. \E x \in {a, b} : \A y \in {a, b} : x <= y
  OBVIOUS
<1> QED BY <1>1 DEF Min

(* The greatest of some numbers is one of them and no less than any.       *)
LEMMA MaxOfSome ==
  ASSUME NEW S \in SUBSET Nat, IsFiniteSet(S), S # {}
  PROVE  Max(S) \in S /\ \A x \in S : Max(S) >= x
<1>1. \E x \in S : \A y \in S : x >= y
  <2>1. PICK x \in S : \A y \in S : y <= x
    BY HasGreatest
  <2> QED BY <2>1
<1> QED BY <1>1 DEF Max

(* Who was reached within a time, and within a longer one.                 *)
LEMMA ActiveRows ==
  ASSUME NEW nodes, NEW hours \in Int, NEW longer \in Int, hours <= longer, IsFiniteSet(DOMAIN nodes),
         \A i \in DOMAIN nodes : nodes[i].tcp \in Int /\ nodes[i].quic \in Int
  PROVE  LET within == ActiveWithin(nodes, hours)
             tcp == {i \in DOMAIN nodes : nodes[i].tcp < hours}
             quic == {i \in DOMAIN nodes : nodes[i].quic < hours}
         IN  /\ IsFiniteSet(within) /\ Cardinality(within) \in Nat
             /\ Cardinality(within) <= Cardinality(ActiveWithin(nodes, longer))
             /\ Cardinality(tcp) <= Cardinality(within) /\ Cardinality(quic) <= Cardinality(within)
             /\ Cardinality(within) <= Cardinality(tcp) + Cardinality(quic)
<1> DEFINE within == ActiveWithin(nodes, hours)
           later == ActiveWithin(nodes, longer)
           tcp == {i \in DOMAIN nodes : nodes[i].tcp < hours}
           quic == {i \in DOMAIN nodes : nodes[i].quic < hours}
<1>1. ASSUME NEW i \in DOMAIN nodes
      PROVE  /\ Age(nodes, i) \in {nodes[i].tcp, nodes[i].quic}
             /\ Age(nodes, i) <= nodes[i].tcp /\ Age(nodes, i) <= nodes[i].quic /\ Age(nodes, i) \in Int
  BY MinOfTwo DEF Age
<1>2. ASSUME NEW i \in within PROVE i \in later /\ (i \in tcp \/ i \in quic)
  BY <1>1 DEF ActiveWithin
<1>3. tcp \subseteq within /\ quic \subseteq within
  BY <1>1 DEF ActiveWithin
<1>4. IsFiniteSet(within) /\ IsFiniteSet(later)
  BY FS_Subset DEF ActiveWithin
<1>5. within \subseteq later /\ within = tcp \cup quic
  BY <1>2, <1>3
<1> HIDE DEF within, later, tcp, quic
<1>6. IsFiniteSet(tcp) /\ IsFiniteSet(quic) /\ Cardinality(tcp) <= Cardinality(within) /\ Cardinality(quic) <= Cardinality(within)
  BY <1>3, <1>4, FS_Subset
<1>7. Cardinality(within) <= Cardinality(later)
  BY <1>4, <1>5, FS_Subset
<1>8. Cardinality(within) <= Cardinality(tcp) + Cardinality(quic)
  <2>1. Cardinality(tcp \cup quic) = Cardinality(tcp) + Cardinality(quic) - Cardinality(tcp \cap quic)
    BY <1>6, FS_Union
  <2>2. IsFiniteSet(tcp \cap quic)
    BY <1>6, FS_Subset
  <2>3. Cardinality(tcp \cap quic) \in Nat /\ Cardinality(tcp) \in Nat /\ Cardinality(quic) \in Nat
    BY <1>6, <2>2, FS_CardinalityType
  <2> QED BY <1>5, <2>1, <2>3
<1>9. Cardinality(within) \in Nat
  BY <1>4, FS_CardinalityType
<1> QED BY <1>4, <1>6, <1>7, <1>8, <1>9 DEF within, later, tcp, quic

(* Subnets per country: a subnet of nodes of two countries counts in both. *)
Pairs(nodes, rows) == {<<nodes[i].country, nodes[i].net>> : i \in rows}
PairsOf(nodes, rows, c) == {p \in Pairs(nodes, rows) : p[1] = c}
OfCountry(nodes, rows, c) == {i \in rows : nodes[i].country = c}

(* A country counts its subnets, at most one for each node, and the        *)
(* countries together count each subnet.                                   *)
LEMMA SubnetsPerCountry ==
  ASSUME NEW nodes, NEW rows, IsFiniteSet(rows)
  PROVE  LET counts == SubnetCountries(nodes, rows)
         IN  /\ DOMAIN counts = {nodes[i].country : i \in rows}
             /\ IsFiniteSet(Pairs(nodes, rows))
             /\ \A c \in DOMAIN counts :
                  /\ counts[c] = Cardinality(PairsOf(nodes, rows, c))
                  /\ counts[c] \in 1..Cardinality(OfCountry(nodes, rows, c))
             /\ Cardinality({nodes[i].net : i \in rows}) <= Total(counts)
<1> DEFINE counts == SubnetCountries(nodes, rows)
           P == Pairs(nodes, rows)
           K == {p[1] : p \in P}
           nets == {nodes[i].net : i \in rows}
           pair == [i \in rows |-> <<nodes[i].country, nodes[i].net>>]
           of == [c \in K |-> PairsOf(nodes, rows, c)]
           country == [p \in P |-> p[1]]
           net == [p \in P |-> p[2]]
<1>1. DOMAIN counts = K /\ \A c \in K : counts[c] = Cardinality(PairsOf(nodes, rows, c))
  BY DEF SubnetCountries, Pairs, PairsOf
<1>2. K = {nodes[i].country : i \in rows}
  <2>1. ASSUME NEW i \in rows PROVE nodes[i].country \in K
    <3>1. <<nodes[i].country, nodes[i].net>> \in P
      BY DEF Pairs
    <3> HIDE DEF P
    <3> QED BY <3>1
  <2>2. \A c \in K : \E i \in rows : c = nodes[i].country
    BY DEF Pairs
  <2> HIDE DEF K
  <2> QED BY <2>1, <2>2
<1>3. IsFiniteSet(P)
  <2>1. (\A i \in rows : pair[i] \in P) /\ \A p \in P : \E i \in rows : pair[i] = p
    BY DEF Pairs
  <2> HIDE DEF pair, P
  <2> QED BY <2>1, ImageAtMost
<1>4. IsFiniteSet(K)
  <2>1. (\A p \in P : country[p] \in K) /\ \A c \in K : \E p \in P : country[p] = c
    OBVIOUS
  <2> HIDE DEF country, P, K
  <2> QED BY <1>3, <2>1, ImageAtMost
<1>5. Cardinality(nets) <= Cardinality(P)
  <2>1. (\A p \in P : net[p] \in nets) /\ \A n \in nets : \E p \in P : net[p] = n
    <3>1. ASSUME NEW n \in nets PROVE \E p \in P : net[p] = n
      <4>1. PICK i \in rows : n = nodes[i].net
        OBVIOUS
      <4>2. pair[i] \in P /\ pair[i][2] = n
        BY <4>1 DEF Pairs
      <4> QED BY <4>2
    <3>2. \A p \in P : net[p] \in nets
      BY DEF Pairs
    <3> QED BY <3>1, <3>2
  <2> HIDE DEF net, P, nets
  <2> QED BY <1>3, <2>1, ImageAtMost
<1>6. SumBy(counts, K) = Cardinality(P)
  <2>1. \A p \in P : country[p] \in K
    OBVIOUS
  <2>2. \A c \in K : counts[c] = Cardinality(of[c])
    BY <1>1
  <2>3. \A c \in K : \A p : p \in of[c] <=> p \in P /\ country[p] = c
    BY DEF PairsOf
  <2> HIDE DEF counts, K, P, of, country
  <2> QED BY <1>3, <1>4, <2>1, <2>2, <2>3, GroupsAddUp
<1>7. ASSUME NEW c \in K
      PROVE  counts[c] \in 1..Cardinality(OfCountry(nodes, rows, c))
  <2> DEFINE R == OfCountry(nodes, rows, c)
             Q == PairsOf(nodes, rows, c)
  <2>1. IsFiniteSet(R)
    BY FS_Subset DEF OfCountry
  <2>2. (\A i \in R : pair[i] \in Q) /\ \A p \in Q : \E i \in R : pair[i] = p
    BY DEF OfCountry, PairsOf, Pairs
  <2>3. Q # {}
    BY DEF PairsOf, Pairs
  <2> HIDE DEF R, Q, pair
  <2>4. IsFiniteSet(Q) /\ Cardinality(Q) \in Nat /\ Cardinality(Q) <= Cardinality(R)
    BY <2>1, <2>2, ImageAtMost
  <2>5. Cardinality(Q) # 0 /\ Cardinality(R) \in Nat
    BY <2>1, <2>3, <2>4, FS_EmptySet, FS_CardinalityType
  <2>6. counts[c] = Cardinality(Q)
    BY <1>1 DEF Q
  <2> HIDE DEF counts
  <2> QED BY <2>4, <2>5, <2>6 DEF R
<1>8. Total(counts) = Cardinality(P)
  <2> HIDE DEF counts, P, K
  <2> QED BY <1>1, <1>6, TotalIsSum
<1> HIDE DEF counts, P, K
<1> QED BY <1>1, <1>2, <1>3, <1>5, <1>7, <1>8 DEF counts, P

(* The largest systems of a type together: some, and no more than there    *)
(* are.                                                                    *)
LEMMA TopsAreSome ==
  ASSUME NEW S, IsFiniteSet(S), S # {}, NEW key
  PROVE  TopTotal(GroupCounts(S, key)) \in 1..Cardinality(S)
<1> DEFINE counts == GroupCounts(S, key)
           K == DOMAIN counts
           Few == {G \in SUBSET K : Cardinality(G) <= TopASNs}
           sums == {SumBy(counts, G) : G \in Few}
<1>1. /\ IsFiniteSet(K) /\ K = {key[i] : i \in S} /\ (\A k \in K : counts[k] \in Nat \ {0})
      /\ Total(counts) = Cardinality(S)
  <2>1. CountsAll(S, key, counts)
    BY GroupsCountAll
  <2> HIDE DEF counts
  <2> QED BY <2>1 DEF CountsAll
<1>2. TopTotal(counts) = Max(sums)
  BY DEF SumBy, TopTotal
<1> HIDE DEF counts, K
<1>3. Cardinality(S) \in Nat /\ SumBy(counts, K) = Cardinality(S)
  BY <1>1, TotalIsSum, FS_CardinalityType DEF K
<1>4. ASSUME NEW G \in Few PROVE SumBy(counts, G) \in 0..Cardinality(S)
  <2>1. G \in SUBSET K /\ IsFiniteSet(G)
    BY <1>1, FS_Subset
  <2>2. SumBy(counts, G) \in Nat
    BY <1>1, <2>1, SumIsNat
  <2>3. SumBy(counts, G) <= SumBy(counts, K)
    BY <1>1, <2>1, SumOfPart
  <2> QED BY <1>3, <2>2, <2>3
<1>5. PICK k : k \in K
  BY <1>1
<1>6. {k} \in Few /\ SumBy(counts, {k}) >= 1
  <2>1. IsFiniteSet({k}) /\ Cardinality({k}) = 1 /\ {k} \in SUBSET K
    BY <1>5, FS_Singleton
  <2>2. 1 <= TopASNs
    BY StatsAssumption
  <2>3. SumBy(counts, {k}) = counts[k] + SumBy(counts, {k} \ {k})
    <3>1. \A x \in {k} : counts[x] \in Int
      BY <1>1, <1>5
    <3>2. k \in {k}
      OBVIOUS
    <3> QED BY <2>1, <3>1, <3>2, SumTakeOut
  <2>4. {k} \ {k} = {} /\ SumBy(counts, {}) = 0
    BY SumEmpty
  <2>5. SumBy(counts, {k}) = counts[k] + 0
    BY <2>3, <2>4
  <2>6. counts[k] \in Nat \ {0}
    BY <1>1, <1>5
  <2> QED BY <2>1, <2>2, <2>5, <2>6
<1>7. sums \in SUBSET Nat /\ sums # {} /\ IsFiniteSet(sums) /\ \A x \in sums : x \in 0..Cardinality(S)
  <2>1. sums \subseteq 0..Cardinality(S)
    BY <1>4
  <2>2. sums # {}
    BY <1>6
  <2>3. IsFiniteSet(0..Cardinality(S))
    BY <1>3, FS_Interval
  <2> HIDE DEF sums
  <2>4. IsFiniteSet(sums)
    BY <2>1, <2>3, FS_Subset
  <2> QED BY <1>3, <2>1, <2>2, <2>4
<1>8. SumBy(counts, {k}) \in sums
  BY <1>6
<1> HIDE DEF sums, Few
<1>9. Max(sums) \in sums /\ \A x \in sums : Max(sums) >= x
  BY <1>7, MaxOfSome
<1>10. Max(sums) \in 1..Cardinality(S)
  <2>1. SumBy(counts, {k}) \in Nat /\ Max(sums) >= SumBy(counts, {k})
    BY <1>7, <1>8, <1>9
  <2>2. Max(sums) \in 0..Cardinality(S)
    BY <1>7, <1>9
  <2> QED BY <1>3, <1>6, <2>1, <2>2
<1> QED BY <1>2, <1>10 DEF counts

(* A node's offer to a satellite is one row, whatever their ages.          *)
OfferTable(offers) ==
  /\ IsFiniteSet(offers) /\ \A o \in offers : o.age \in Int
  /\ \A o, p \in offers : o.node = p.node /\ o.sat = p.sat => o = p

(* A satellite counts at most the nodes with fresh offers, and the         *)
(* satellites together count each of them.                                 *)
LEMMA OffersPerSat ==
  ASSUME NEW offers, OfferTable(offers), NEW h \in Int
  PROVE  LET nodes == {o.node : o \in FreshOffers(offers, h)}
             sats == {o.sat : o \in FreshOffers(offers, h)}
             per == [s \in sats |-> Cardinality({o \in FreshOffers(offers, h) : o.sat = s})]
         IN  /\ \A s : Cardinality({o \in FreshOffers(offers, h) : o.sat = s}) <= Cardinality(nodes)
             /\ Cardinality(nodes) <= Total(per)
<1> DEFINE fresh == FreshOffers(offers, h)
           nodes == {o.node : o \in fresh}
           sats == {o.sat : o \in fresh}
           Of(s) == {o \in fresh : o.sat = s}
           per == [s \in sats |-> Cardinality(Of(s))]
           node == [o \in fresh |-> o.node]
           sat == [o \in fresh |-> o.sat]
           of == [s \in sats |-> Of(s)]
<1>1. IsFiniteSet(fresh)
  BY FS_Subset DEF OfferTable, FreshOffers
<1>2. \A o, p \in fresh : o.node = p.node /\ o.sat = p.sat => o = p
  BY DEF OfferTable, FreshOffers
<1> HIDE DEF fresh
<1>3. IsFiniteSet(nodes) /\ Cardinality(nodes) \in Nat /\ Cardinality(nodes) <= Cardinality(fresh)
  <2>1. (\A o \in fresh : node[o] \in nodes) /\ \A n \in nodes : \E o \in fresh : node[o] = n
    OBVIOUS
  <2> HIDE DEF node, nodes
  <2> QED BY <1>1, <2>1, ImageAtMost
<1>4. IsFiniteSet(sats)
  <2>1. (\A o \in fresh : sat[o] \in sats) /\ \A s \in sats : \E o \in fresh : sat[o] = s
    OBVIOUS
  <2> HIDE DEF sat, sats
  <2> QED BY <1>1, <2>1, ImageAtMost
<1>5. ASSUME NEW s PROVE Cardinality(Of(s)) <= Cardinality(nodes)
  <2> DEFINE f == [o \in Of(s) |-> o.node]
  <2>1. f \in Injection(Of(s), nodes)
    <3>1. f \in [Of(s) -> nodes]
      OBVIOUS
    <3>2. \A o, p \in Of(s) : f[o] = f[p] => o = p
      BY <1>2
    <3> HIDE DEF f, nodes, Of
    <3> QED BY <3>1, <3>2 DEF Injection, IsInjective
  <2> HIDE DEF f, nodes, Of
  <2> QED BY <1>3, <2>1, FS_Injection
<1>6. SumBy(per, sats) = Cardinality(fresh)
  <2>1. \A o \in fresh : sat[o] \in sats
    OBVIOUS
  <2>2. \A s \in sats : per[s] = Cardinality(of[s])
    OBVIOUS
  <2>3. \A s \in sats : \A o : o \in of[s] <=> o \in fresh /\ sat[o] = s
    OBVIOUS
  <2> HIDE DEF per, of, sat, sats
  <2> QED BY <1>1, <1>4, <2>1, <2>2, <2>3, GroupsAddUp
<1>7. DOMAIN per = sats
  OBVIOUS
<1>8. Total(per) = Cardinality(fresh)
  <2> HIDE DEF per, sats
  <2> QED BY <1>6, <1>7, TotalIsSum
<1> HIDE DEF per, nodes, Of
<1>9. Cardinality(nodes) <= Total(per)
  BY <1>3, <1>8
<1> QED BY <1>5, <1>9 DEF per, nodes, Of, fresh

(* The columns of a row agree for any tables whose ages are numbers.       *)
THEOREM ColumnsAgreeAlways ==
  ASSUME NEW Rows, NEW nodes \in Seq(Rows), NEW asTypes, NEW offers, OfferTable(offers),
         \A i \in DOMAIN nodes : nodes[i].tcp \in Int /\ nodes[i].quic \in Int
  PROVE  ColumnsAgree(saveNodeStats(nodes, asTypes, offers))
<1> DEFINE D == DOMAIN nodes
           active == Active(nodes)
           isps == OfISPs(nodes, asTypes)
           types == [i \in D |-> TypeOfIP(asTypes, nodes[i].asn)]
           country == Column(nodes, "country")
           net == Column(nodes, "net")
           sizes == Subnets(nodes, active)
           row == saveNodeStats(nodes, asTypes, offers)
<1>1. IsFiniteSet(D)
  <2>1. D = 1..Len(nodes) /\ Len(nodes) \in Int
    OBVIOUS
  <2> QED BY <2>1, FS_Interval
<1>2. HoursPerDay \in Int /\ HoursPerDay \in HoursOfActive /\ HoursPerDay \in HoursOfOffers
  BY StatsAssumption
<1>3. active \subseteq D /\ isps \subseteq active /\ IsFiniteSet(active) /\ IsFiniteSet(isps)
  <2>1. active \subseteq D /\ isps \subseteq active
    BY DEF Active, ActiveWithin, OfISPs
  <2>2. IsFiniteSet(active)
    BY <1>1, <2>1, FS_Subset
  <2> QED BY <2>1, <2>2, FS_Subset
<1>4. \A i \in active : country[i] = nodes[i].country /\ net[i] = nodes[i].net
  BY <1>3 DEF Column
\* The row, column by column.
<1>5. /\ row.active_count_hours = [h \in HoursOfActive |-> Cardinality(ActiveWithin(nodes, h))]
      /\ row.tcp = Cardinality({i \in D : nodes[i].tcp < HoursPerDay})
      /\ row.quic = Cardinality({i \in D : nodes[i].quic < HoursPerDay})
      /\ row.all_sat_offers = [h \in HoursOfOffers |-> Cardinality({o.node : o \in FreshOffers(offers, h)})]
      /\ row.per_sat_offers = [s \in SatsOffering(offers) |->
           [h \in HoursOfOffers |-> Cardinality({o \in FreshOffers(offers, h) : o.sat = s})]]
      /\ row.countries = GroupCounts(active, country)
      /\ row.countries_isp = GroupCounts(isps, country)
      /\ row.subnet_countries = SubnetCountries(nodes, active)
      /\ row.subnet_countries_isp = SubnetCountries(nodes, isps)
      /\ row.subnets_count = Cardinality({nodes[i].net : i \in active})
      /\ row.subnets_top = [n \in {n \in DOMAIN sizes : sizes[n] >= TopSize} |-> sizes[n]]
      /\ row.subnet_sizes = GroupCounts(DOMAIN sizes, sizes)
      /\ row.ip_types = GroupCounts(active, types)
      /\ row.ip_types_asn_tops = AsnTops(nodes, types)
  BY DEF saveNodeStats, SubnetSizes
<1> HIDE DEF row
<1>6. row.active_count_hours[HoursPerDay] = Cardinality(active)
  BY <1>2, <1>5 DEF Active
<1> HIDE DEF D, active, isps, types, country, net, sizes
<1> DEFINE
     Hours == \A a, b \in HoursOfActive : a < b => row.active_count_hours[a] <= row.active_count_hours[b]
     Transports == /\ Cardinality(active) <= row.tcp + row.quic
                   /\ row.tcp <= Cardinality(active) /\ row.quic <= Cardinality(active)
     Sizes == LET counted == row.subnet_sizes
              IN  /\ Total([s \in DOMAIN counted |-> s * counted[s]]) = Cardinality(active)
                  /\ Total(counted) = row.subnets_count
                  /\ \A s \in DOMAIN counted : s >= TopSize =>
                       counted[s] = Cardinality({n \in DOMAIN row.subnets_top : row.subnets_top[n] = s})
     Groups == /\ Total(row.countries) = Cardinality(active) /\ Total(row.ip_types) = Cardinality(active)
               /\ Total(row.countries_isp) = CountAt(row.ip_types, "isp")
     Countries == \A c \in DOMAIN row.countries :
                    /\ CountAt(row.countries_isp, c) <= row.countries[c]
                    /\ CountAt(row.subnet_countries_isp, c) <= CountAt(row.subnet_countries, c)
                    /\ row.subnet_countries[c] \in 1..row.countries[c]
     Tops == /\ DOMAIN row.ip_types_asn_tops = DOMAIN row.ip_types
             /\ \A t \in DOMAIN row.ip_types : row.ip_types_asn_tops[t] \in 1..row.ip_types[t]
     PerSat == /\ \A s \in DOMAIN row.per_sat_offers, h \in HoursOfOffers :
                    row.per_sat_offers[s][h] <= row.all_sat_offers[h]
               /\ row.all_sat_offers[HoursPerDay]
                    <= Total([s \in DOMAIN row.per_sat_offers |-> row.per_sat_offers[s][HoursPerDay]])
<1>7. Hours
  <2> SUFFICES ASSUME NEW a \in HoursOfActive, NEW b \in HoursOfActive, a < b
               PROVE  row.active_count_hours[a] <= row.active_count_hours[b]
    OBVIOUS
  <2>1. a \in Int /\ b \in Int /\ a <= b
    BY StatsAssumption
  <2>2. Cardinality(ActiveWithin(nodes, a)) <= Cardinality(ActiveWithin(nodes, b))
    BY <1>1, <2>1, ActiveRows DEF D
  <2> QED BY <1>5, <2>2
<1>8. Transports
  <2>1. HoursPerDay <= HoursPerDay
    BY <1>2
  <2>2. /\ Cardinality({i \in D : nodes[i].tcp < HoursPerDay}) <= Cardinality(active)
        /\ Cardinality({i \in D : nodes[i].quic < HoursPerDay}) <= Cardinality(active)
        /\ Cardinality(active) <= Cardinality({i \in D : nodes[i].tcp < HoursPerDay})
                                    + Cardinality({i \in D : nodes[i].quic < HoursPerDay})
    BY <1>1, <1>2, <2>1, ActiveRows DEF D, active, Active
  <2> QED BY <1>5, <2>2
<1>9. CountsAll(active, country, row.countries) /\ CountsAll(active, types, row.ip_types)
      /\ CountsAll(isps, country, row.countries_isp)
  BY <1>3, <1>5, GroupsCountAll
<1>10. isps = {i \in active : types[i] = "isp"}
  BY <1>3 DEF isps, OfISPs, active, types, D
<1>11. Groups
  <2>1. /\ Total(row.countries) = Cardinality(active) /\ Total(row.ip_types) = Cardinality(active)
        /\ Total(row.countries_isp) = Cardinality(isps)
    BY <1>9 DEF CountsAll
  <2>2. CASE "isp" \in DOMAIN row.ip_types
    BY <1>9, <1>10, <2>1, <2>2 DEF CountsAll, CountAt
  <2>3. CASE "isp" \notin DOMAIN row.ip_types
    <3>1. isps = {}
      BY <1>9, <1>10, <2>3 DEF CountsAll
    <3> QED BY <2>1, <2>3, <3>1, FS_EmptySet DEF CountAt
  <2> QED BY <2>1, <2>2, <2>3
<1>12. Sizes
  <2> DEFINE counted == row.subnet_sizes
  <2>1. sizes = GroupCounts(active, net)
    BY DEF sizes, Subnets, net
  <2>2. SizesAgree(active, sizes, counted)
    BY <1>3, <1>5, <2>1, SizesCountAll
  <2>3. DOMAIN sizes = {net[i] : i \in active}
    BY <2>1 DEF GroupCounts
  <2>4. DOMAIN sizes = {nodes[i].net : i \in active}
    BY <1>4, <2>3
  <2>5. row.subnets_count = Cardinality(DOMAIN sizes)
    BY <1>5, <2>4
  <2>6. ASSUME NEW s, s >= TopSize
        PROVE  {g \in DOMAIN sizes : sizes[g] = s} = {n \in DOMAIN row.subnets_top : row.subnets_top[n] = s}
    BY <1>5, <2>6
  <2>7. ASSUME NEW s \in DOMAIN counted, s >= TopSize
        PROVE  counted[s] = Cardinality({n \in DOMAIN row.subnets_top : row.subnets_top[n] = s})
    <3>1. counted[s] = Cardinality({g \in DOMAIN sizes : sizes[g] = s})
      BY <2>2 DEF SizesAgree
    <3> HIDE DEF counted
    <3> QED BY <2>6, <2>7, <3>1
  <2>8. /\ Total(counted) = row.subnets_count
        /\ Total([s \in DOMAIN counted |-> s * counted[s]]) = Cardinality(active)
    BY <2>2, <2>5 DEF SizesAgree
  <2> QED BY <2>7, <2>8
<1>13. ASSUME NEW c \in DOMAIN row.countries
       PROVE  /\ row.countries[c] = Cardinality(OfCountry(nodes, active, c))
              /\ c \in {nodes[i].country : i \in active}
  <2>1. /\ row.countries[c] = Cardinality({i \in active : country[i] = c})
        /\ c \in {country[i] : i \in active}
    BY <1>9 DEF CountsAll
  <2>2. {i \in active : country[i] = c} = OfCountry(nodes, active, c)
    BY <1>4 DEF OfCountry
  <2>3. PICK i \in active : c = country[i]
    BY <2>1
  <2>4. c = nodes[i].country
    BY <1>4, <2>3
  <2> QED BY <2>1, <2>2, <2>4
<1>14. Countries /\ row.subnets_count <= Total(row.subnet_countries)
  <2> DEFINE sc == SubnetCountries(nodes, active)
             si == SubnetCountries(nodes, isps)
  <2>1. /\ DOMAIN sc = {nodes[i].country : i \in active}
        /\ \A c \in DOMAIN sc : /\ sc[c] = Cardinality(PairsOf(nodes, active, c))
                                /\ sc[c] \in 1..Cardinality(OfCountry(nodes, active, c))
        /\ IsFiniteSet(Pairs(nodes, active))
        /\ Cardinality({nodes[i].net : i \in active}) <= Total(sc)
    BY <1>3, SubnetsPerCountry
  <2>2. \A c \in DOMAIN si : si[c] = Cardinality(PairsOf(nodes, isps, c))
    BY <1>3, SubnetsPerCountry
  <2>3. row.subnet_countries = sc /\ row.subnet_countries_isp = si
    BY <1>5
  <2> HIDE DEF sc, si
  <2>4. ASSUME NEW c \in DOMAIN row.countries
        PROVE  /\ CountAt(row.countries_isp, c) <= row.countries[c]
               /\ CountAt(si, c) <= CountAt(sc, c)
               /\ sc[c] \in 1..row.countries[c]
    <3>1. c \in DOMAIN sc /\ sc[c] \in 1..row.countries[c]
      BY <1>13, <2>1, <2>4
    <3>2. CountAt(row.countries_isp, c) <= row.countries[c]
      <4>1. row.countries[c] = Cardinality({i \in active : country[i] = c}) /\ row.countries[c] \in Nat
        BY <1>9 DEF CountsAll
      <4>2. CASE c \in DOMAIN row.countries_isp
        <5>1. row.countries_isp[c] = Cardinality({i \in isps : country[i] = c})
          BY <1>9, <4>2 DEF CountsAll
        <5> DEFINE few == {i \in isps : country[i] = c}
                   many == {i \in active : country[i] = c}
        <5>2. few \subseteq many /\ IsFiniteSet(many)
          BY <1>3, FS_Subset
        <5> HIDE DEF few, many
        <5>3. Cardinality(few) <= Cardinality(many)
          BY <5>2, FS_Subset
        <5> QED BY <4>1, <4>2, <5>1, <5>3 DEF CountAt, few, many
      <4>3. CASE c \notin DOMAIN row.countries_isp
        BY <4>1, <4>3 DEF CountAt
      <4> QED BY <4>2, <4>3
    <3>3. CountAt(si, c) <= CountAt(sc, c)
      <4>1. CountAt(sc, c) = Cardinality(PairsOf(nodes, active, c)) /\ CountAt(sc, c) \in Nat
        BY <2>1, <3>1 DEF CountAt
      <4>2. CASE c \in DOMAIN si
        <5> DEFINE few == PairsOf(nodes, isps, c)
                   many == PairsOf(nodes, active, c)
        <5>1. few \subseteq many
          BY <1>3 DEF PairsOf, Pairs
        <5>2. many \subseteq Pairs(nodes, active)
          BY DEF PairsOf
        <5> HIDE DEF few, many
        <5>3. IsFiniteSet(many)
          BY <2>1, <5>2, FS_Subset
        <5>4. Cardinality(few) <= Cardinality(many)
          BY <5>1, <5>3, FS_Subset
        <5> QED BY <2>2, <4>1, <4>2, <5>4 DEF CountAt, few, many
      <4>3. CASE c \notin DOMAIN si
        BY <4>1, <4>3 DEF CountAt
      <4> QED BY <4>2, <4>3
    <3> QED BY <3>1, <3>2, <3>3
  <2>5. row.subnets_count <= Total(sc)
    BY <1>5, <2>1
  <2> QED BY <2>3, <2>4, <2>5
<1>15. Tops
  <2>1. /\ DOMAIN row.ip_types = {types[i] : i \in active}
        /\ \A t \in DOMAIN row.ip_types : row.ip_types[t] = Cardinality({i \in active : types[i] = t})
    BY <1>9 DEF CountsAll
  <2>2. DOMAIN row.ip_types_asn_tops = {types[i] : i \in active}
    BY <1>5 DEF AsnTops, active
  <2>3. ASSUME NEW t \in DOMAIN row.ip_types PROVE row.ip_types_asn_tops[t] \in 1..row.ip_types[t]
    <3> DEFINE S == {i \in active : types[i] = t}
               asn == Column(nodes, "asn")
               top == TopTotal(GroupCounts(S, asn))
    <3>1. row.ip_types_asn_tops[t] = top
      BY <1>5, <2>1, <2>3 DEF AsnTops, active
    <3>2. IsFiniteSet(S) /\ S # {}
      BY <1>3, <2>1, <2>3, FS_Subset
    <3>3. row.ip_types[t] = Cardinality(S)
      BY <2>1, <2>3
    <3> HIDE DEF S, asn
    <3>4. top \in 1..Cardinality(S)
      BY <3>2, TopsAreSome
    <3> HIDE DEF top
    <3> QED BY <3>1, <3>3, <3>4
  <2> QED BY <2>1, <2>2, <2>3
<1>16. PerSat
  <2>1. ASSUME NEW s \in DOMAIN row.per_sat_offers, NEW h \in HoursOfOffers
        PROVE  row.per_sat_offers[s][h] <= row.all_sat_offers[h]
    <3>1. h \in Int
      BY StatsAssumption
    <3>2. Cardinality({o \in FreshOffers(offers, h) : o.sat = s})
            <= Cardinality({o.node : o \in FreshOffers(offers, h)})
      BY <3>1, OffersPerSat
    <3> QED BY <1>5, <3>2
  <2> DEFINE fresh == FreshOffers(offers, HoursPerDay)
             per == [s \in {o.sat : o \in fresh} |-> Cardinality({o \in fresh : o.sat = s})]
  <2>2. Cardinality({o.node : o \in fresh}) <= Total(per)
    BY <1>2, OffersPerSat
  <2>3. [s \in DOMAIN row.per_sat_offers |-> row.per_sat_offers[s][HoursPerDay]] = per
    <3>1. DOMAIN row.per_sat_offers = {o.sat : o \in fresh}
      BY <1>5 DEF SatsOffering
    <3>2. \A s \in DOMAIN row.per_sat_offers :
            row.per_sat_offers[s][HoursPerDay] = Cardinality({o \in fresh : o.sat = s})
      BY <1>2, <1>5
    <3> HIDE DEF fresh
    <3> QED BY <3>1, <3>2
  <2>4. row.all_sat_offers[HoursPerDay] = Cardinality({o.node : o \in fresh})
    BY <1>2, <1>5
  <2> HIDE DEF per, fresh
  <2> QED BY <2>1, <2>2, <2>3, <2>4
<1>17. ColumnsAgree(row)
  BY <1>6, <1>7, <1>8, <1>11, <1>12, <1>14, <1>15, <1>16 DEF ColumnsAgree
<1> QED BY <1>17 DEF row

(* So it is in every table of the run, for any number of nodes.            *)
THEOREM StatsAgreeAlways == Spec => []StatsAgree
<1>1. Init => StatsAgree
  <2> SUFFICES ASSUME Init, About("table")
               PROVE  ColumnsAgree(saveNodeStats(input.nodes, input.types, input.offers))
    BY DEF StatsAgree
  <2>1. input \in Tables
    BY InputKinds
  <2>2. PICK n \in Nat : input.nodes \in Sorted(n)
    <3>1. MaxNodes \in Nat /\ 0 \in Nat /\ \A n \in 0..(MaxNodes - 1) : n \in Nat
      BY BoundsAssumption
    <3>2. \/ input.nodes \in Sorted(MaxNodes)
          \/ input.nodes \in UNION {Sorted(n) : n \in 0..(MaxNodes - 1)}
          \/ input.nodes \in Sorted(0)
      BY <2>1 DEF Tables, TablesOf
    <3> QED BY <3>1, <3>2
  <2>3. input.offers = {} \/ input.offers \in Offers
    BY <2>1 DEF Tables, TablesOf
  <2>4. \A r \in NodeRows : r.tcp \in Int /\ r.quic \in Int
    BY DEF NodeRows
  <2>5. input.nodes \in Seq(NodeRows) /\ \A i \in DOMAIN input.nodes : input.nodes[i] \in NodeRows
    <3>1. input.nodes \in [1..n -> NodeRows]
      BY <2>2 DEF Sorted
    <3> HIDE DEF NodeRows
    <3> QED BY <3>1
  <2>6. OfferTable(input.offers)
    <3>1. CASE input.offers = {}
      BY <3>1, FS_EmptySet DEF OfferTable
    <3>2. CASE input.offers \in Offers
      <4>1. PICK a, b : /\ input.offers = {a, b}
                        /\ a.age \in Int /\ b.age \in Int /\ (a.node # b.node \/ a.sat # b.sat)
        <5> DEFINE a1 == [node |-> 1, sat |-> 1, age |-> 0]
                   b1 == [node |-> 1, sat |-> 2, age |-> 2]
                   a2 == [node |-> 1, sat |-> 1, age |-> 30]
                   b2 == [node |-> 2, sat |-> 1, age |-> 0]
        <5>1. input.offers = {a1, b1} \/ input.offers = {a2, b2}
          BY <3>2 DEF Offers
        <5>2. a1.age \in Int /\ b1.age \in Int /\ a1.sat # b1.sat
          OBVIOUS
        <5>3. a2.age \in Int /\ b2.age \in Int /\ a2.node # b2.node
          OBVIOUS
        <5> HIDE DEF a1, b1, a2, b2
        <5> QED BY <5>1, <5>2, <5>3
      <4>2. IsFiniteSet({a, b})
        <5>1. IsFiniteSet({a} \cup {b}) /\ {a} \cup {b} = {a, b}
          BY FS_Singleton, FS_AddElement
        <5> QED BY <5>1
      <4> QED BY <4>1, <4>2 DEF OfferTable
    <3> QED BY <2>3, <3>1, <3>2
  <2> QED BY <2>4, <2>5, <2>6, ColumnsAgreeAlways
<1>2. StatsAgree /\ UNCHANGED input => StatsAgree'
  BY DEF StatsAgree, About
<1> QED BY <1>1, <1>2, PTL DEF Spec, Next
(* The greatest of some numbers up to n, and of all of them.               *)
LEMMA MaxUpTo ==
  ASSUME NEW n \in Nat
  PROVE  /\ \A s \in SUBSET (1..n) : s # {} => Max(s) \in s /\ \A x \in s : Max(s) >= x
         /\ \A k \in 1..n : /\ 1..k \in SUBSET (1..n) /\ 1..k # {} /\ Max(1..k) = k
                            /\ (1..k) \ {k} = 1..(k - 1)
<1>1. ASSUME NEW s \in SUBSET (1..n), s # {}
      PROVE  Max(s) \in s /\ \A x \in s : Max(s) >= x
  <2>1. s \in SUBSET Nat /\ IsFiniteSet(s)
    <3>1. IsFiniteSet(1..n) /\ 1..n \subseteq Nat
      BY FS_Interval
    <3> QED BY <3>1, FS_Subset
  <2>2. \E x \in s : \A y \in s : x >= y
    BY <1>1, <2>1, HasGreatest
  <2> QED BY <2>2 DEF Max
<1>2. ASSUME NEW k \in 1..n
      PROVE  1..k \in SUBSET (1..n) /\ 1..k # {} /\ Max(1..k) = k /\ (1..k) \ {k} = 1..(k - 1)
  <2>1. 1..k \in SUBSET (1..n) /\ 1..k # {} /\ k \in 1..k
    OBVIOUS
  <2>2. Max(1..k) \in 1..k /\ Max(1..k) >= k
    BY <1>1, <2>1
  <2>3. Max(1..k) = k
    BY <2>2
  <2>4. (1..k) \ {k} = 1..(k - 1)
    OBVIOUS
  <2> QED BY <2>1, <2>3, <2>4
<1> QED BY <1>1, <1>2

(* The function a fold from the left of n values is chosen to be: st[i] is *)
(* what the i-th value does to what is folded so far, which is in A[i].    *)
FoldsUp(n, base, st, it) ==
  it = [s \in SUBSET (1..n) |-> IF s = {} THEN base ELSE st[Max(s)][it[s \ {Max(s)}]]]
Stepwise(n, A, base, st) ==
  /\ base \in A[0]
  /\ \A k \in 1..n : A[k - 1] \subseteq A[k] /\ st[k] \in [A[k - 1] -> A[k]]

(* There is such a function when every step is defined where it is taken.  *)
LEMMA FoldExists ==
  ASSUME NEW n \in Nat, NEW A, NEW base, NEW st, Stepwise(n, A, base, st)
  PROVE  \E it : /\ FoldsUp(n, base, st, it)
                 /\ \A s \in SUBSET (1..n) : s # {} => it[s \ {Max(s)}] \in A[Max(s) - 1]
<1> DEFINE Typed(k, it) == \A j \in 0..k : \A s \in SUBSET (1..j) : it[s] \in A[j]
           Good == {k \in 0..n : \E it : FoldsUp(k, base, st, it) /\ Typed(k, it)}
<1>0. /\ base \in A[0]
      /\ \A k \in 1..n : \A a \in A[k - 1] : a \in A[k] /\ st[k][a] \in A[k]
  BY DEF Stepwise
<1>1. 0 \in Good
  <2> DEFINE it == [s \in SUBSET (1..0) |-> base]
  <2>1. SUBSET (1..0) = {{}}
    OBVIOUS
  <2>2. FoldsUp(0, base, st, it)
    BY <2>1 DEF FoldsUp
  <2>3. Typed(0, it)
    <3> SUFFICES ASSUME NEW j \in 0..0, NEW s \in SUBSET (1..j) PROVE it[s] \in A[j]
      OBVIOUS
    <3>1. j = 0 /\ s = {}
      OBVIOUS
    <3>2. it[{}] = base
      BY <2>1
    <3> HIDE DEF it
    <3> QED BY <1>0, <3>1, <3>2
  <2> HIDE DEF it, Typed
  <2>4. \E f : FoldsUp(0, base, st, f) /\ Typed(0, f)
    BY <2>2, <2>3
  <2>5. 0 \in 0..n
    OBVIOUS
  <2> QED BY <2>4, <2>5, Zenon
<1>2. ASSUME NEW k \in 0..(n - 1), k \in Good PROVE k + 1 \in Good
  <2>1. PICK it : FoldsUp(k, base, st, it) /\ Typed(k, it)
    BY <1>2
  <2> DEFINE more == [s \in SUBSET (1..(k + 1)) |->
                       IF k + 1 \in s THEN st[k + 1][it[s \ {k + 1}]] ELSE it[s]]
  <2>2. k \in Nat /\ k + 1 \in Nat /\ k + 1 \in 1..n /\ k + 1 \in 0..n /\ (k + 1) - 1 = k /\ k \in 0..k
    OBVIOUS
  <2>3. \A s \in SUBSET (1..(k + 1)) : s \ {k + 1} \in SUBSET (1..k)
    OBVIOUS
  <2>4. \A s \in SUBSET (1..(k + 1)) : k + 1 \notin s => s \in SUBSET (1..k)
    OBVIOUS
  <2>5. Typed(k + 1, more)
    <3> SUFFICES ASSUME NEW j \in 0..(k + 1), NEW s \in SUBSET (1..j) PROVE more[s] \in A[j]
      OBVIOUS
    <3>1. s \in SUBSET (1..(k + 1))
      OBVIOUS
    <3>2. CASE j = k + 1
      <4>1. it[s \ {k + 1}] \in A[k]
        BY <2>1, <2>2, <2>3, <3>1
      <4>2. k + 1 \notin s => it[s] \in A[k]
        BY <2>1, <2>2, <2>4, <3>1
      <4>3. \A a \in A[k] : a \in A[k + 1] /\ st[k + 1][a] \in A[k + 1]
        BY <1>0, <2>2
      <4>4. more[s] = IF k + 1 \in s THEN st[k + 1][it[s \ {k + 1}]] ELSE it[s]
        BY <3>1
      <4> HIDE DEF more, Typed
      <4> QED BY <3>2, <4>1, <4>2, <4>3, <4>4
    <3>3. CASE j # k + 1
      <4>1. j \in 0..k /\ k + 1 \notin s
        BY <3>3
      <4>2. it[s] \in A[j]
        BY <2>1, <4>1
      <4>3. more[s] = it[s]
        BY <3>1, <4>1
      <4> QED BY <4>2, <4>3
    <3> QED BY <3>2, <3>3
  <2> HIDE DEF Typed
  <2>6. ASSUME NEW s \in SUBSET (1..(k + 1)), s # {}, k + 1 \in s
        PROVE  more[s] = st[Max(s)][more[s \ {Max(s)}]]
    <3>1. more[s] = st[k + 1][it[s \ {k + 1}]]
      BY <2>6
    <3>2. s \ {k + 1} \in SUBSET (1..(k + 1)) /\ k + 1 \notin s \ {k + 1}
      OBVIOUS
    <3>3. more[s \ {k + 1}] = it[s \ {k + 1}]
      BY <3>2
    <3> HIDE DEF more
    <3>4. Max(s) \in s /\ Max(s) >= k + 1
      BY <2>2, <2>6, MaxUpTo
    <3>5. Max(s) \in 1..(k + 1)
      BY <3>4
    <3>6. Max(s) = k + 1
      BY <2>2, <3>4, <3>5
    <3> QED BY <3>1, <3>3, <3>6
  <2>7. ASSUME NEW s \in SUBSET (1..(k + 1)), s # {}, k + 1 \notin s
        PROVE  more[s] = st[Max(s)][more[s \ {Max(s)}]]
    <3>1. s \in SUBSET (1..k) /\ s \ {Max(s)} \in SUBSET (1..k)
      BY <2>4, <2>7
    <3>2. it[s] = st[Max(s)][it[s \ {Max(s)}]]
      BY <2>1, <2>7, <3>1 DEF FoldsUp
    <3>3. s \ {Max(s)} \in SUBSET (1..(k + 1)) /\ k + 1 \notin s \ {Max(s)}
      BY <2>7
    <3>4. more[s] = it[s] /\ more[s \ {Max(s)}] = it[s \ {Max(s)}]
      BY <2>7, <3>3
    <3> HIDE DEF more
    <3> QED BY <3>2, <3>4
  <2>8. more[{}] = base
    <3>1. {} \in SUBSET (1..k) /\ {} \in SUBSET (1..(k + 1)) /\ k + 1 \notin {}
      OBVIOUS
    <3>2. it[{}] = base
      BY <2>1, <3>1 DEF FoldsUp
    <3> QED BY <3>1, <3>2
  <2>9. more = [s \in SUBSET (1..(k + 1)) |-> more[s]]
    OBVIOUS
  <2> HIDE DEF more
  <2>10. FoldsUp(k + 1, base, st, more)
    BY <2>6, <2>7, <2>8, <2>9 DEF FoldsUp
  <2>11. \E f : FoldsUp(k + 1, base, st, f) /\ Typed(k + 1, f)
    BY <2>5, <2>10
  <2> QED BY <2>2, <2>11
<1>3. 0..n \subseteq Good
  <2> HIDE DEF Good
  <2> QED BY <1>1, <1>2, InductionUpTo
<1>4. n \in Good
  <2> HIDE DEF Good
  <2> QED BY <1>3
<1>5. PICK it : FoldsUp(n, base, st, it) /\ Typed(n, it)
  BY <1>4
<1>6. ASSUME NEW s \in SUBSET (1..n), s # {} PROVE it[s \ {Max(s)}] \in A[Max(s) - 1]
  <2>1. Max(s) \in s /\ \A x \in s : Max(s) >= x
    BY <1>6, MaxUpTo
  <2>2. Max(s) \in 1..n
    BY <2>1
  <2> DEFINE m == Max(s)
  <2> HIDE DEF m
  <2>3. m \in 1..n /\ \A x \in s : m >= x
    BY <2>1, <2>2 DEF m
  <2>4. m - 1 \in 0..n
    BY <2>3
  <2>5. ASSUME NEW x \in s \ {m} PROVE x \in 1..(m - 1)
    <3>1. x \in 1..n /\ m >= x /\ x # m
      BY <2>3
    <3> QED BY <2>3, <3>1
  <2>6. s \ {m} \in SUBSET (1..(m - 1))
    BY <2>5
  <2>7. it[s \ {m}] \in A[m - 1]
    BY <1>5, <2>4, <2>6
  <2> QED BY <2>7 DEF m
<1> HIDE DEF Typed
<1> QED BY <1>5, <1>6

(* What it is on the numbers up to k, one k after another.                 *)
Follows(g, n, A, base, st) ==
  g[0] = base /\ (\A k \in 0..n : g[k] \in A[k]) /\ \A k \in 1..n : g[k] = st[k][g[k - 1]]

(* A function with that equation takes the steps one after another.        *)
LEMMA FoldFollows ==
  ASSUME NEW n \in Nat, NEW A, NEW base, NEW st, Stepwise(n, A, base, st),
         NEW it, it[{}] = base,
         \A k \in 1..n : it[1..(k - 1)] \in A[k - 1] => it[1..k] = st[k][it[1..(k - 1)]]
  PROVE  Follows([k \in 0..n |-> it[1..k]], n, A, base, st)
<1> DEFINE g == [k \in 0..n |-> it[1..k]]
           Good == {k \in 0..n : g[k] \in A[k]}
<1>0. /\ base \in A[0]
      /\ \A k \in 1..n : \A a \in A[k - 1] : a \in A[k] /\ st[k][a] \in A[k]
  BY DEF Stepwise
<1>1. 1..0 = {} /\ g[0] = base
  OBVIOUS
<1>2. \A k \in 1..n : k \in 0..n /\ k - 1 \in 0..n /\ g[k] = it[1..k] /\ g[k - 1] = it[1..(k - 1)]
  OBVIOUS
<1>3. 0..n \subseteq Good
  <2>1. 0 \in Good
    BY <1>0, <1>1
  <2>2. ASSUME NEW k \in 0..(n - 1), k \in Good PROVE k + 1 \in Good
    <3>1. k + 1 \in 1..n /\ (k + 1) - 1 = k /\ k + 1 \in 0..n
      OBVIOUS
    <3>2. g[k] \in A[k]
      BY <2>2
    <3> HIDE DEF g
    <3>3. g[k + 1] = st[k + 1][g[k]]
      BY <1>2, <3>1, <3>2
    <3>4. g[k + 1] \in A[k + 1]
      BY <1>0, <3>1, <3>2, <3>3
    <3> QED BY <3>1, <3>4
  <2> HIDE DEF Good
  <2> QED BY <2>1, <2>2, InductionUpTo
<1>4. \A k \in 0..n : g[k] \in A[k]
  BY <1>3
<1> HIDE DEF g, Good
<1>5. \A k \in 1..n : g[k] = st[k][g[k - 1]]
  BY <1>2, <1>4
<1>6. Follows(g, n, A, base, st)
  BY <1>1, <1>4, <1>5 DEF Follows
<1> QED BY <1>6 DEF g
(* A list of n of the members of S, each once.                             *)
Arranged(list, n, S) ==
  /\ list \in [1..n -> S]
  /\ \A i, j \in 1..n : list[i] = list[j] => i = j
  /\ \A x \in S : \E i \in 1..n : list[i] = x

(* What swapping two items of a list leaves it.                            *)
Exchanged(new, list, i, j, n) ==
  \A k \in 1..n : new[k] = IF k = i THEN list[j] ELSE IF k = j THEN list[i] ELSE list[k]

(* A swap of two places keeps the items.                                   *)
LEMMA SwapArranges ==
  ASSUME NEW n \in Nat, NEW S, NEW list, Arranged(list, n, S), NEW i \in 1..n, NEW j \in 1..n
  PROVE  Arranged(Swapped(list, i, j), n, S) /\ Exchanged(Swapped(list, i, j), list, i, j, n)
<1> DEFINE new == Swapped(list, i, j)
<1>1. list \in [1..n -> S]
  BY DEF Arranged
<1>2. \A k \in 1..n : new[k] = IF k = i THEN list[j] ELSE IF k = j THEN list[i] ELSE list[k]
  BY <1>1 DEF Swapped
<1>3. new \in [1..n -> S]
  BY <1>1 DEF Swapped
<1> HIDE DEF new
<1>4. \A k, l \in 1..n : new[k] = new[l] => k = l
  BY <1>2 DEF Arranged
<1>5. ASSUME NEW x \in S PROVE \E k \in 1..n : new[k] = x
  <2>1. PICK k \in 1..n : list[k] = x
    BY DEF Arranged
  <2>2. CASE k = i
    BY <1>2, <2>1, <2>2
  <2>3. CASE k = j
    BY <1>2, <2>1, <2>3
  <2>4. CASE k # i /\ k # j
    BY <1>2, <2>1, <2>4
  <2> QED BY <2>2, <2>3, <2>4
<1>6. Arranged(new, n, S)
  BY <1>3, <1>4, <1>5 DEF Arranged
<1>7. Exchanged(new, list, i, j, n)
  BY <1>2 DEF Exchanged
<1> QED BY <1>6, <1>7 DEF new

(* What partition's loop does to an item, and what it has after some.      *)
PartStep(pivot, acc, j) ==
  IF acc.list[j].count >= pivot.count
  THEN [list |-> Swapped(acc.list, acc.i, j), i |-> acc.i + 1]
  ELSE acc
PartStates(n, S, left, m) == [k \in 0..m |-> [list : [1..n -> S], i : left..(left + k)]]
PartSteps(n, S, left, m, pivot) ==
  [k \in 1..m |-> [acc \in PartStates(n, S, left, m)[k - 1] |-> PartStep(pivot, acc, left + k - 1)]]

(* A partition's loop is so many steps, one for each place it looks at.    *)
LEMMA PartitionFolds ==
  ASSUME NEW n \in Nat, NEW S, NEW list \in [1..n -> S], NEW left \in 1..n, NEW right \in left..n
  PROVE  LET m == right - left
         IN  \E g : /\ Follows(g, m, PartStates(n, S, left, m), [list |-> list, i |-> left],
                               PartSteps(n, S, left, m, list[right]))
                    /\ partition(list, left, right) =
                         [list |-> Swapped(g[m].list, g[m].i, right), i |-> g[m].i]
<1> DEFINE m == right - left
           pivot == list[right]
           base == [list |-> list, i |-> left]
           A == PartStates(n, S, left, m)
           st == PartSteps(n, S, left, m, pivot)
           Step(acc, j) == IF acc.list[j].count >= pivot.count
                           THEN [list |-> Swapped(acc.list, acc.i, j), i |-> acc.i + 1]
                           ELSE acc
           seq == [k \in 1..(right - left) |-> left + k - 1]
           Eq(f) == f = [s \in SUBSET (1..m) |-> IF s = {} THEN base
                                                 ELSE Step(f[s \ {Max(s)}], seq[Max(s)])]
<1>1. m \in Nat /\ 1..m = 1..(right - left)
  OBVIOUS
<1>2. Stepwise(m, A, base, st)
  <2>1. base \in A[0]
    <3>1. 0 \in 0..m
      BY <1>1
    <3> QED BY <3>1 DEF PartStates
  <2>2. ASSUME NEW k \in 1..m
        PROVE  A[k - 1] \subseteq A[k] /\ st[k] \in [A[k - 1] -> A[k]]
    <3>1. k \in 0..m /\ k - 1 \in 0..m /\ left + k - 1 \in 1..n /\ left + (k - 1) = left + k - 1
      BY <1>1
    <3>2. /\ A[k - 1] = [list : [1..n -> S], i : left..(left + k - 1)]
          /\ A[k] = [list : [1..n -> S], i : left..(left + k)]
      BY <3>1 DEF PartStates
    <3>3. \A x \in left..(left + k - 1) : x \in left..(left + k) /\ x + 1 \in left..(left + k) /\ x \in 1..n
      BY <3>1
    <3>4. st[k] = [acc \in A[k - 1] |-> PartStep(pivot, acc, left + k - 1)]
      BY DEF PartSteps
    <3> HIDE DEF st, A
    <3>5. ASSUME NEW acc \in A[k - 1] PROVE acc \in A[k] /\ PartStep(pivot, acc, left + k - 1) \in A[k]
      <4>1. acc \in [list : [1..n -> S], i : left..(left + k - 1)]
        BY <3>2
      <4> HIDE DEF m, base, Step, seq, Eq
      <4>2. acc.list \in [1..n -> S] /\ acc.i \in left..(left + k - 1) /\ acc \in A[k]
        BY <3>2, <3>3, <4>1
      <4>3. Swapped(acc.list, acc.i, left + k - 1) \in [1..n -> S]
        BY <3>1, <3>3, <4>2 DEF Swapped
      <4>4. [list |-> Swapped(acc.list, acc.i, left + k - 1), i |-> acc.i + 1] \in A[k]
        BY <3>2, <3>3, <4>2, <4>3
      <4> QED BY <4>2, <4>4 DEF PartStep
    <3> QED BY <3>4, <3>5
  <2> HIDE DEF base, A, st, m
  <2> QED BY <2>1, <2>2 DEF Stepwise
<1>3. \A k \in 1..m : \A acc \in A[k - 1] : st[k][acc] = Step(acc, seq[k])
  BY <1>1 DEF PartSteps, PartStep
<1>4. partition(list, left, right) =
        LET last == (CHOOSE f : Eq(f))[1..m]
        IN  [list |-> Swapped(last.list, last.i, right), i |-> last.i]
  BY DEF partition, FoldLeft, MapThenFoldSet
<1> HIDE DEF m, base, A, st, Step, seq
<1>5. PICK it0 : /\ FoldsUp(m, base, st, it0)
                 /\ \A s \in SUBSET (1..m) : s # {} => it0[s \ {Max(s)}] \in A[Max(s) - 1]
  BY <1>1, <1>2, FoldExists
<1>6. \A s \in SUBSET (1..m) : s # {} => Max(s) \in 1..m
  BY <1>1, MaxUpTo
<1>7. Eq(it0)
  <2>1. \A s \in SUBSET (1..m) : it0[s] = IF s = {} THEN base ELSE Step(it0[s \ {Max(s)}], seq[Max(s)])
    <3> SUFFICES ASSUME NEW s \in SUBSET (1..m)
                 PROVE  it0[s] = IF s = {} THEN base ELSE Step(it0[s \ {Max(s)}], seq[Max(s)])
      OBVIOUS
    <3>1. it0[s] = IF s = {} THEN base ELSE st[Max(s)][it0[s \ {Max(s)}]]
      BY <1>5 DEF FoldsUp
    <3>2. s # {} => st[Max(s)][it0[s \ {Max(s)}]] = Step(it0[s \ {Max(s)}], seq[Max(s)])
      BY <1>3, <1>5, <1>6
    <3> QED BY <3>1, <3>2
  <2>2. it0 = [s \in SUBSET (1..m) |-> it0[s]]
    BY <1>5 DEF FoldsUp
  <2> QED BY <2>1, <2>2
<1> DEFINE it == CHOOSE f : Eq(f)
<1>8. Eq(it)
  <2> HIDE DEF Eq
  <2> QED BY <1>7
<1> HIDE DEF it
<1>9. it[{}] = base
  BY <1>8
<1>10. \A k \in 1..m : it[1..(k - 1)] \in A[k - 1] => it[1..k] = st[k][it[1..(k - 1)]]
  <2> SUFFICES ASSUME NEW k \in 1..m, it[1..(k - 1)] \in A[k - 1] PROVE it[1..k] = st[k][it[1..(k - 1)]]
    OBVIOUS
  <2>1. 1..k \in SUBSET (1..m) /\ 1..k # {} /\ Max(1..k) = k /\ (1..k) \ {k} = 1..(k - 1)
    BY <1>1, MaxUpTo
  <2>2. it[1..k] = Step(it[(1..k) \ {Max(1..k)}], seq[Max(1..k)])
    BY <1>8, <2>1
  <2>3. it[1..k] = Step(it[1..(k - 1)], seq[k])
    BY <2>1, <2>2
  <2> QED BY <1>3, <2>3
<1> HIDE DEF Eq
<1> DEFINE g == [k \in 0..m |-> it[1..k]]
<1>11. Follows(g, m, A, base, st)
  BY <1>1, <1>2, <1>9, <1>10, FoldFollows
<1>12. g[m] = it[1..m]
  BY <1>1
<1>13. partition(list, left, right) = [list |-> Swapped(g[m].list, g[m].i, right), i |-> g[m].i]
  BY <1>4, <1>12 DEF it
<1> HIDE DEF g
<1> QED BY <1>11, <1>13 DEF m, A, base, st, pivot
(* Items have moved between left and right only.                           *)
Within(new, list, left, right, n) ==
  \A k \in 1..n : IF k \in left..right THEN \E l \in left..right : new[k] = list[l]
                  ELSE new[k] = list[k]

(* A swap inside a part changes nothing outside of it.                     *)
LEMMA SwapWithin ==
  ASSUME NEW n \in Nat, NEW S, NEW list, NEW new, Arranged(new, n, S),
         NEW left \in 1..n, NEW right \in left..n, Within(new, list, left, right, n),
         NEW i \in left..right, NEW j \in left..right
  PROVE  Within(Swapped(new, i, j), list, left, right, n)
<1>1. i \in 1..n /\ j \in 1..n
  OBVIOUS
<1> DEFINE next == Swapped(new, i, j)
<1>2. \A k \in 1..n : next[k] = IF k = i THEN new[j] ELSE IF k = j THEN new[i] ELSE new[k]
  BY <1>1, SwapArranges DEF Exchanged
<1> HIDE DEF next
<1>3. \A k \in 1..n : IF k \in left..right THEN \E l \in left..right : next[k] = list[l]
                      ELSE next[k] = list[k]
  <2> SUFFICES ASSUME NEW k \in 1..n
               PROVE  IF k \in left..right THEN \E l \in left..right : next[k] = list[l]
                      ELSE next[k] = list[k]
    OBVIOUS
  <2>1. (\E l \in left..right : new[i] = list[l]) /\ (\E l \in left..right : new[j] = list[l])
    BY <1>1 DEF Within
  <2>2. IF k \in left..right THEN \E l \in left..right : new[k] = list[l] ELSE new[k] = list[k]
    BY DEF Within
  <2> QED BY <1>2, <2>1, <2>2
<1> QED BY <1>3 DEF Within, next

(* What partition does to a list of distinct items: at is where the items  *)
(* that are not less than that of the end are to its left.                 *)
Splits(new, at, list, left, right, n, S) ==
  /\ Arranged(new, n, S) /\ at \in left..right /\ Within(new, list, left, right, n)
  /\ \A k \in left..(at - 1) : new[k].count >= new[at].count
  /\ \A k \in (at + 1)..right : new[at].count >= new[k].count

(* A partition leaves the part's items in it, the larger or equal ones on  *)
(* the pivot's left and the smaller ones on its right.                     *)
LEMMA PartitionSplits ==
  ASSUME NEW n \in Nat, NEW S, \A x \in S : x.count \in Int,
         NEW list, Arranged(list, n, S), NEW left \in 1..n, NEW right \in left..n
  PROVE  LET split == partition(list, left, right)
         IN  Splits(split.list, split.i, list, left, right, n, S)
<1> DEFINE m == right - left
           pivot == list[right]
           A == PartStates(n, S, left, m)
           st == PartSteps(n, S, left, m, pivot)
           Inv(acc, k) ==
             /\ Arranged(acc.list, n, S) /\ acc.i \in left..(left + k) /\ acc.list[right] = pivot
             /\ Within(acc.list, list, left, right, n)
             /\ \A q \in left..(acc.i - 1) : acc.list[q].count >= pivot.count
             /\ \A q \in acc.i..(left + k - 1) : pivot.count >= acc.list[q].count
<1>1. list \in [1..n -> S] /\ m \in Nat
  BY DEF Arranged
<1>2. PICK g : /\ Follows(g, m, A, [list |-> list, i |-> left], st)
               /\ partition(list, left, right) =
                    [list |-> Swapped(g[m].list, g[m].i, right), i |-> g[m].i]
  <2>1. list \in [1..n -> S]
    BY <1>1
  <2> QED BY <2>1, PartitionFolds, Zenon
<1>3. /\ g[0] = [list |-> list, i |-> left]
      /\ \A k \in 1..m : g[k] = PartStep(pivot, g[k - 1], left + k - 1)
  <2>1. /\ g[0] = [list |-> list, i |-> left] /\ \A k \in 0..m : g[k] \in A[k]
        /\ \A k \in 1..m : g[k] = st[k][g[k - 1]]
    BY <1>2, Zenon DEF Follows
  <2>2. \A k \in 1..m : k - 1 \in 0..m
    BY <1>1
  <2>3. \A k \in 1..m : \A acc \in A[k - 1] : st[k][acc] = PartStep(pivot, acc, left + k - 1)
    BY Zenon DEF PartSteps
  <2> HIDE DEF A, st, pivot, m
  <2> QED BY <2>1, <2>2, <2>3
<1>4. pivot \in S /\ right \in 1..n
  BY <1>1
<1> HIDE DEF pivot, A, st
<1>5. ASSUME NEW k \in 0..(m - 1), NEW acc, Inv(acc, k)
      PROVE  Inv(PartStep(pivot, acc, left + k), k + 1)
  <2> DEFINE j == left + k
             i == acc.i
             new == Swapped(acc.list, i, j)
  <2>1. /\ j \in left..(right - 1) /\ i \in left..j /\ i \in 1..n /\ j \in 1..n
        /\ i \in left..right /\ j \in left..right /\ right # i /\ right # j
    <3>1. j \in left..(right - 1)
      BY <1>1
    <3> QED BY <1>5, <3>1
  <2>2. \A q \in 1..n : acc.list[q].count \in Int
    BY <1>5 DEF Arranged
  <2>3. CASE acc.list[j].count >= pivot.count
    <3>1. PartStep(pivot, acc, j) = [list |-> new, i |-> i + 1]
      BY <2>3 DEF PartStep
    <3>2. \A q \in 1..n : new[q] = IF q = i THEN acc.list[j] ELSE IF q = j THEN acc.list[i] ELSE acc.list[q]
      <4>1. Arranged(acc.list, n, S) /\ i \in 1..n /\ j \in 1..n
        BY <1>5, <2>1
      <4>2. Exchanged(new, acc.list, i, j, n)
        BY <4>1, SwapArranges
      <4> HIDE DEF i, j, new
      <4> QED BY <4>2 DEF Exchanged
    <3>3. Arranged(new, n, S)
      BY <1>5, <2>1, SwapArranges
    <3>4. Within(new, list, left, right, n)
      BY <1>5, <2>1, SwapWithin
    <3>5. new[right] = pivot
      BY <1>4, <1>5, <2>1, <3>2
    <3>6. i + 1 \in left..(left + (k + 1))
      BY <2>1
    <3>7. ASSUME NEW q \in left..((i + 1) - 1) PROVE new[q].count >= pivot.count
      <4>1. q \in 1..n /\ (q = i \/ (q \in left..(i - 1) /\ q # j))
        BY <2>1
      <4>2. CASE q = i
        BY <2>3, <3>2, <4>1, <4>2
      <4>3. CASE q \in left..(i - 1) /\ q # j
        <5>1. q # i
          BY <2>1, <4>3
        <5>2. new[q] = acc.list[q]
          BY <3>2, <4>1, <4>3, <5>1
        <5> QED BY <1>5, <4>3, <5>2
      <4> QED BY <4>1, <4>2, <4>3
    <3>8. ASSUME NEW q \in (i + 1)..(left + (k + 1) - 1) PROVE pivot.count >= new[q].count
      <4>1. q \in 1..n /\ q # i /\ (q = j \/ (q # j /\ q \in i..(left + k - 1)))
        BY <2>1
      <4>2. q = j => i \in i..(left + k - 1)
        BY <2>1
      <4> HIDE DEF j, i, new
      <4>3. new[q] = IF q = j THEN acc.list[i] ELSE acc.list[q]
        BY <3>2, <4>1
      <4>4. \A x \in i..(left + k - 1) : pivot.count >= acc.list[x].count
        BY <1>5 DEF i
      <4> QED BY <4>1, <4>2, <4>3, <4>4
    <3> HIDE DEF new, j, i
    <3>9. Inv([list |-> new, i |-> i + 1], k + 1)
      BY <3>3, <3>4, <3>5, <3>6, <3>7, <3>8
    <3> QED BY <3>1, <3>9 DEF j
  <2>4. CASE ~(acc.list[j].count >= pivot.count)
    <3>1. PartStep(pivot, acc, j) = acc
      BY <2>4 DEF PartStep
    <3>2. pivot.count \in Int /\ acc.list[j].count \in Int
      BY <1>4, <2>1, <2>2
    <3>3. pivot.count >= acc.list[j].count
      <4> HIDE DEF j
      <4> QED BY <2>4, <3>2
    <3>4. i \in left..(left + (k + 1))
      BY <2>1
    <3>5. ASSUME NEW q \in i..(left + (k + 1) - 1) PROVE pivot.count >= acc.list[q].count
      <4>1. q = j \/ q \in i..(left + k - 1)
        BY <2>1
      <4> QED BY <1>5, <3>3, <4>1
    <3>6. Inv(acc, k + 1)
      BY <1>5, <3>4, <3>5
    <3> HIDE DEF Inv
    <3> QED BY <3>1, <3>6
  <2> QED BY <2>3, <2>4
<1>6. Inv(g[0], 0)
  <2>1. Within(list, list, left, right, n)
    BY DEF Within
  <2>2. Inv([list |-> list, i |-> left], 0)
    BY <2>1 DEF pivot
  <2> HIDE DEF Inv
  <2> QED BY <1>3, <2>2
<1> HIDE DEF Inv
<1>7. Inv(g[m], m)
  <2> DEFINE Good == {k \in 0..m : Inv(g[k], k)}
  <2>1. 0 \in Good
    BY <1>1, <1>6
  <2>2. ASSUME NEW k \in 0..(m - 1), k \in Good PROVE k + 1 \in Good
    <3>1. k + 1 \in 1..m /\ k + 1 \in 0..m /\ (k + 1) - 1 = k /\ left + (k + 1) - 1 = left + k
      BY <1>1
    <3>2. g[k + 1] = PartStep(pivot, g[k], left + k)
      <4> HIDE DEF m
      <4> QED BY <1>3, <3>1
    <3>3. Inv(g[k], k)
      BY <2>2
    <3> HIDE DEF m
    <3> QED BY <1>5, <3>1, <3>2, <3>3
  <2>3. 0..m \subseteq Good
    <3> HIDE DEF Good, m
    <3> QED BY <1>1, <2>1, <2>2, InductionUpTo
  <2>4. m \in 0..m
    BY <1>1
  <2> QED BY <2>3, <2>4
<1> DEFINE last == g[m].list
           at == g[m].i
           new == Swapped(last, at, right)
<1>8. /\ Arranged(last, n, S) /\ at \in left..right /\ last[right] = pivot
      /\ Within(last, list, left, right, n)
      /\ \A q \in left..(at - 1) : last[q].count >= pivot.count
      /\ \A q \in at..(right - 1) : pivot.count >= last[q].count
  <2>1. left + m = right /\ left + m - 1 = right - 1
    OBVIOUS
  <2> HIDE DEF m
  <2> QED BY <1>7, <2>1 DEF Inv
<1>9. partition(list, left, right) = [list |-> new, i |-> at]
  BY <1>2
<1> HIDE DEF last, at, m
<1>10. at \in 1..n /\ right \in left..right
  BY <1>8
<1>11. /\ Arranged(new, n, S)
       /\ \A k \in 1..n : new[k] = IF k = at THEN last[right] ELSE IF k = right THEN last[at] ELSE last[k]
  <2>1. right \in 1..n
    BY <1>4
  <2>2. Arranged(new, n, S) /\ Exchanged(new, last, at, right, n)
    BY <1>8, <1>10, <2>1, SwapArranges
  <2> HIDE DEF new
  <2> QED BY <2>2 DEF Exchanged
<1>12. Within(new, list, left, right, n)
  BY <1>8, <1>10, SwapWithin
<1> HIDE DEF new
<1>13. new[at] = pivot
  BY <1>8, <1>10, <1>11
<1>14. ASSUME NEW k \in left..(at - 1) PROVE new[k].count >= new[at].count
  <2>1. k \in 1..n /\ k # at /\ k # right
    BY <1>8
  <2>2. new[k] = last[k]
    BY <1>11, <2>1
  <2> QED BY <1>8, <1>13, <2>2
<1>15. ASSUME NEW k \in (at + 1)..right PROVE new[at].count >= new[k].count
  <2>1. k \in 1..n /\ k # at /\ (k = right => at \in at..(right - 1)) /\ (k # right => k \in at..(right - 1))
    BY <1>8
  <2>2. new[k] = IF k = right THEN last[at] ELSE last[k]
    BY <1>11, <2>1
  <2> QED BY <1>8, <1>13, <2>1, <2>2
<1>16. Splits(new, at, list, left, right, n, S)
  BY <1>8, <1>11, <1>12, <1>14, <1>15 DEF Splits
<1> QED BY <1>9, <1>16
(* partition of any list is a list of the same values.                     *)
LEMMA PartitionType ==
  ASSUME NEW n \in Nat, NEW S, NEW list \in [1..n -> S], NEW left \in 1..n, NEW right \in left..n
  PROVE  partition(list, left, right) \in [list : [1..n -> S], i : left..right]
<1> DEFINE m == right - left
           A == PartStates(n, S, left, m)
           st == PartSteps(n, S, left, m, list[right])
<1>1. PICK g : /\ Follows(g, m, A, [list |-> list, i |-> left], st)
               /\ partition(list, left, right) =
                    [list |-> Swapped(g[m].list, g[m].i, right), i |-> g[m].i]
  BY PartitionFolds, Zenon
<1>2. m \in Nat /\ m \in 0..m /\ left + m = right
  OBVIOUS
<1>3. g[m] \in A[m]
  BY <1>1, <1>2 DEF Follows
<1>4. A[m] = [list : [1..n -> S], i : left..right]
  <2>1. A[m] = [list : [1..n -> S], i : left..(left + m)]
    <3> HIDE DEF m
    <3> QED BY <1>2 DEF PartStates
  <2> QED BY <1>2, <2>1
<1> DEFINE last == g[m].list
           at == g[m].i
<1> HIDE DEF A, st
<1>5. last \in [1..n -> S] /\ at \in left..right
  BY <1>3, <1>4
<1> HIDE DEF last, at
<1>6. Swapped(last, at, right) \in [1..n -> S]
  BY <1>5 DEF Swapped
<1>7. partition(list, left, right) = [list |-> Swapped(last, at, right), i |-> at]
  BY <1>1 DEF last, at
<1> QED BY <1>5, <1>6, <1>7

(* What moveLeftNLargest does with a part, f being how it does smaller ones.*)
MovedBy(f, p) ==
  LET split == partition(p.list, p.left, p.right)
      before == split.i - p.left
  IN  CASE p.n > p.right - p.left + 1 -> p.list
        [] p.n <= p.right - p.left + 1 /\ before = p.n - 1 -> split.list
        [] p.n <= p.right - p.left + 1 /\ before > p.n - 1 -> f[Part(split.list, p.left, split.i - 1, p.n)]
        [] OTHER -> f[Part(split.list, split.i + 1, p.right, p.n - (before + 1))]
PartSize(p) == p.right - p.left + 1

(* The parts of a list of n items.                                         *)
PartsOf(n, S) == [list : [1..n -> S], left : 1..(n + 1), right : 0..n, n : Nat \ {0}]

(* The part that is moved next lies in the part before and is smaller.     *)
LEMMA MovedParts ==
  ASSUME NEW n \in Nat, NEW S, NEW p \in PartsOf(n, S), p.n <= PartSize(p)
  PROVE  LET split == partition(p.list, p.left, p.right)
             low == Part(split.list, p.left, split.i - 1, p.n)
             high == Part(split.list, split.i + 1, p.right, p.n - (split.i - p.left + 1))
         IN  /\ p.left \in 1..n /\ p.right \in p.left..n
             /\ split.list \in [1..n -> S] /\ split.i \in p.left..p.right
             /\ split.i - p.left > p.n - 1 => low \in PartsOf(n, S) /\ PartSize(low) < PartSize(p)
             /\ split.i - p.left < p.n - 1 => high \in PartsOf(n, S) /\ PartSize(high) < PartSize(p)
<1> DEFINE split == partition(p.list, p.left, p.right)
           l == p.left
           r == p.right
           m == p.n
           at == split.i
           low == Part(split.list, l, at - 1, m)
           high == Part(split.list, at + 1, r, m - (at - l + 1))
<1>1. p.list \in [1..n -> S] /\ l \in 1..(n + 1) /\ r \in 0..n /\ m \in Nat \ {0} /\ m <= r - l + 1
  BY DEF PartsOf, PartSize
<1>2. l \in 1..n /\ r \in l..n
  <2> HIDE DEF l, r, m
  <2> QED BY <1>1
<1>3. split \in [list : [1..n -> S], i : l..r]
  BY <1>1, <1>2, PartitionType
<1>4. split.list \in [1..n -> S] /\ at \in l..r
  BY <1>3
<1>5. PartSize(low) = at - 1 - l + 1 /\ PartSize(high) = r - (at + 1) + 1 /\ PartSize(p) = r - l + 1
  BY DEF PartSize, Part
<1> HIDE DEF split, l, r, m, at
<1>6. ASSUME at - l > m - 1 PROVE low \in PartsOf(n, S) /\ PartSize(low) < PartSize(p)
  <2>1. at - 1 \in 0..n /\ l \in 1..(n + 1) /\ at - 1 - l + 1 < r - l + 1
    BY <1>2, <1>4
  <2> QED BY <1>1, <1>4, <1>5, <2>1 DEF PartsOf, Part
<1>7. ASSUME at - l < m - 1 PROVE high \in PartsOf(n, S) /\ PartSize(high) < PartSize(p)
  <2>1. at + 1 \in 1..(n + 1) /\ r \in 0..n /\ r - (at + 1) + 1 < r - l + 1 /\ m - (at - l + 1) \in Nat \ {0}
    BY <1>1, <1>2, <1>4, <1>7
  <2> QED BY <1>1, <1>4, <1>5, <2>1 DEF PartsOf, Part
<1> QED BY <1>2, <1>4, <1>6, <1>7 DEF split, l, r, m, at

(* The four ways it goes on.                                               *)
LEMMA MovedCases ==
  ASSUME NEW n \in Nat, NEW S, NEW p \in PartsOf(n, S), NEW f
  PROVE  LET split == partition(p.list, p.left, p.right)
             low == Part(split.list, p.left, split.i - 1, p.n)
             high == Part(split.list, split.i + 1, p.right, p.n - (split.i - p.left + 1))
         IN  /\ PartSize(p) \in Int /\ p.n \in Nat
             /\ p.n > PartSize(p) => MovedBy(f, p) = p.list
             /\ p.n <= PartSize(p) /\ split.i - p.left = p.n - 1 => MovedBy(f, p) = split.list
             /\ p.n <= PartSize(p) /\ split.i - p.left > p.n - 1 => MovedBy(f, p) = f[low]
             /\ p.n <= PartSize(p) /\ split.i - p.left < p.n - 1 => MovedBy(f, p) = f[high]
<1> DEFINE split == partition(p.list, p.left, p.right)
           before == split.i - p.left
           m == p.n
           size == p.right - p.left + 1
           low == f[Part(split.list, p.left, split.i - 1, m)]
           high == f[Part(split.list, split.i + 1, p.right, m - (before + 1))]
<1>1. size \in Int /\ m \in Nat /\ PartSize(p) = size
  BY DEF PartsOf, PartSize
<1>2. MovedBy(f, p) = CASE m > size -> p.list
                        [] m <= size /\ before = m - 1 -> split.list
                        [] m <= size /\ before > m - 1 -> low
                        [] OTHER -> high
  BY DEF MovedBy
<1>3. m <= size => before \in Int
  <2>1. m <= size => p.left \in Int /\ split.i \in Int
    BY <1>1, MovedParts
  <2> QED BY <2>1
<1> HIDE DEF low, high, size, m, before, split
<1>4. CASE m > size
  <2>1. ~(m <= size)
    BY <1>1, <1>4
  <2>2. MovedBy(f, p) = p.list
    BY <1>2, <1>4, <2>1
  <2> QED BY <1>1, <2>1, <2>2 DEF m
<1>5. CASE m <= size /\ before = m - 1
  <2>1. ~(m > size) /\ ~(before > m - 1) /\ ~(before < m - 1)
    BY <1>1, <1>3, <1>5
  <2>2. MovedBy(f, p) = split.list
    BY <1>2, <1>5, <2>1
  <2> QED BY <1>1, <2>1, <2>2 DEF m, before, split
<1>6. CASE m <= size /\ before > m - 1
  <2>1. ~(m > size) /\ ~(before = m - 1) /\ ~(before < m - 1)
    BY <1>1, <1>3, <1>6
  <2>2. MovedBy(f, p) = low
    BY <1>2, <1>6, <2>1
  <2> QED BY <1>1, <2>1, <2>2 DEF m, before, split, low
<1>7. CASE m <= size /\ before < m - 1
  <2>1. ~(m > size) /\ ~(before = m - 1) /\ ~(before > m - 1)
    BY <1>1, <1>3, <1>7
  <2>2. MovedBy(f, p) = high
    BY <1>2, <2>1
  <2> QED BY <1>1, <2>1, <2>2 DEF m, before, split, high
<1>8. m > size \/ (m <= size /\ (before = m - 1 \/ before > m - 1 \/ before < m - 1))
  BY <1>1, <1>3
<1> QED BY <1>4, <1>5, <1>6, <1>7, <1>8
(* There is such a function, and it is how the list is ordered in the end. *)
LEMMA MovesExists ==
  ASSUME NEW n \in Nat, NEW S
  PROVE  \E f : f = [p \in PartsOf(n, S) |-> MovedBy(f, p)]
<1> DEFINE P == PartsOf(n, S)
           UpToSize(k, f) == f = [p \in P |-> f[p]] /\ \A p \in P : PartSize(p) <= k => f[p] = MovedBy(f, p)
           Good == {k \in 0..n : \E f : UpToSize(k, f)}
<1>1. \A p \in P : PartSize(p) \in Int /\ PartSize(p) <= n /\ p.n \in Nat \ {0}
  <2> SUFFICES ASSUME NEW p \in P PROVE PartSize(p) \in Int /\ PartSize(p) <= n /\ p.n \in Nat \ {0}
    OBVIOUS
  <2>1. p.left \in 1..(n + 1) /\ p.right \in 0..n /\ p.n \in Nat \ {0}
    BY DEF PartsOf
  <2>2. \A l \in 1..(n + 1), r \in 0..n : r - l + 1 \in Int /\ r - l + 1 <= n
    OBVIOUS
  <2> QED BY <2>1, <2>2 DEF PartSize
<1>2. ASSUME NEW k \in 0..n, NEW f, NEW h, NEW p \in P, PartSize(p) <= k + 1,
             \A q \in P : PartSize(q) <= k => f[q] = h[q]
      PROVE  MovedBy(f, p) = MovedBy(h, p)
  <2> DEFINE split == partition(p.list, p.left, p.right)
             before == split.i - p.left
             low == Part(split.list, p.left, split.i - 1, p.n)
             high == Part(split.list, split.i + 1, p.right, p.n - (before + 1))
  <2>1. CASE p.n > PartSize(p)
    BY <2>1, MovedCases
  <2>2. CASE p.n <= PartSize(p) /\ before = p.n - 1
    BY <2>2, MovedCases
  <2>3. CASE p.n <= PartSize(p) /\ before > p.n - 1
    <3>1. low \in P /\ PartSize(low) < PartSize(p)
      BY <2>3, MovedParts
    <3>2. MovedBy(f, p) = f[low] /\ MovedBy(h, p) = h[low]
      BY <2>3, MovedCases
    <3> HIDE DEF low
    <3>3. PartSize(low) <= k
      BY <1>1, <1>2, <3>1
    <3> QED BY <1>2, <3>1, <3>2, <3>3
  <2>4. CASE p.n <= PartSize(p) /\ before < p.n - 1
    <3>1. high \in P /\ PartSize(high) < PartSize(p)
      BY <2>4, MovedParts
    <3>2. MovedBy(f, p) = f[high] /\ MovedBy(h, p) = h[high]
      BY <2>4, MovedCases
    <3> HIDE DEF high
    <3>3. PartSize(high) <= k
      BY <1>1, <1>2, <3>1
    <3> QED BY <1>2, <3>1, <3>2, <3>3
  <2>5. p.n <= PartSize(p) => before \in Int
    <3>1. p.n <= PartSize(p) => p.left \in Int /\ split.i \in Int
      BY MovedParts
    <3> QED BY <3>1
  <2> HIDE DEF before
  <2>6. p.n > PartSize(p) \/ (p.n <= PartSize(p) /\ (before = p.n - 1 \/ before > p.n - 1 \/ before < p.n - 1))
    BY <1>1, <2>5
  <2> QED BY <2>1, <2>2, <2>3, <2>4, <2>6
<1>3. 0 \in Good
  <2> DEFINE f == [p \in P |-> p.list]
  <2>1. ASSUME NEW p \in P, PartSize(p) <= 0 PROVE f[p] = MovedBy(f, p)
    <3>1. p.n > PartSize(p)
      BY <1>1, <2>1
    <3> QED BY <3>1, MovedCases
  <2>2. f = [p \in P |-> f[p]]
    OBVIOUS
  <2> HIDE DEF f
  <2>3. UpToSize(0, f)
    BY <2>1, <2>2
  <2>4. 0 \in 0..n
    OBVIOUS
  <2> HIDE DEF UpToSize
  <2> QED BY <2>3, <2>4
<1>4. ASSUME NEW k \in 0..(n - 1), k \in Good PROVE k + 1 \in Good
  <2>1. PICK f : UpToSize(k, f)
    BY <1>4
  <2> DEFINE h == [p \in P |-> MovedBy(f, p)]
  <2>2. \A p \in P : PartSize(p) <= k => f[p] = h[p]
    BY <2>1
  <2>3. h = [p \in P |-> h[p]] /\ \A p \in P : h[p] = MovedBy(f, p)
    OBVIOUS
  <2>4. k \in 0..n /\ k + 1 \in 0..n
    OBVIOUS
  <2> HIDE DEF h
  <2>5. \A p \in P : PartSize(p) <= k + 1 => MovedBy(f, p) = MovedBy(h, p)
    <3> HIDE DEF P
    <3> QED BY <1>2, <2>2, <2>4
  <2>6. UpToSize(k + 1, h)
    BY <2>3, <2>5
  <2> HIDE DEF UpToSize
  <2> QED BY <2>4, <2>6
<1>5. n \in Good
  <2>1. 0..n \subseteq Good
    <3> HIDE DEF Good
    <3> QED BY <1>3, <1>4, InductionUpTo
  <2>2. n \in 0..n
    OBVIOUS
  <2> HIDE DEF Good
  <2> QED BY <2>1, <2>2
<1>6. PICK f : UpToSize(n, f)
  BY <1>5
<1>7. f = [p \in P |-> MovedBy(f, p)]
  <2>1. \A p \in P : f[p] = MovedBy(f, p)
    BY <1>1, <1>6
  <2>2. f = [p \in P |-> f[p]]
    BY <1>6
  <2> HIDE DEF P
  <2> QED BY <2>1, <2>2
<1> QED BY <1>7

(* The chosen function is one with that equation.                          *)
LEMMA MovedIs ==
  ASSUME NEW T, NEW all \in Seq(T), NEW n, n = Len(all), NEW S, S = Range(all)
  PROVE  LET f == moveLeftNLargest(all)
         IN  n \in Nat /\ all \in [1..n -> S] /\ f = [p \in PartsOf(n, S) |-> MovedBy(f, p)]
<1>1. n \in Nat /\ DOMAIN all = 1..n /\ all \in [1..n -> S]
  BY DEF Range
<1>2. Parts(all) = PartsOf(n, S)
  BY <1>1 DEF Parts, PartsOf
<1> DEFINE Eq(f) == f = [p \in PartsOf(n, S) |-> MovedBy(f, p)]
<1>3. moveLeftNLargest(all) = CHOOSE f : Eq(f)
  BY <1>2 DEF moveLeftNLargest, MovedBy
<1>4. \E f : Eq(f)
  BY <1>1, MovesExists
<1> HIDE DEF Eq
<1>5. Eq(moveLeftNLargest(all))
  BY <1>3, <1>4
<1> QED BY <1>1, <1>5 DEF Eq
(* The first k items are not less than the rest.                           *)
Above(list, k, n) == \A i \in 1..k, j \in (k + 1)..n : list[i].count >= list[j].count

(* What moves between two of such places stays so.                         *)
LEMMA AboveStays ==
  ASSUME NEW n \in Nat, NEW new, NEW list, NEW left \in 1..n, NEW right \in left..n,
         Within(new, list, left, right, n), NEW k \in 0..n, k < left \/ k >= right, Above(list, k, n)
  PROVE  Above(new, k, n)
<1> SUFFICES ASSUME NEW i \in 1..k, NEW j \in (k + 1)..n PROVE new[i].count >= new[j].count
  BY DEF Above
<1>1. i \in 1..n /\ j \in 1..n
  OBVIOUS
<1>2. PICK a \in 1..k : new[i] = list[a]
  <2>1. CASE i \in left..right
    <3>1. PICK a \in left..right : new[i] = list[a]
      BY <1>1, <2>1 DEF Within
    <3>2. a \in 1..k
      BY <2>1
    <3> QED BY <3>1, <3>2
  <2>2. CASE i \notin left..right
    BY <1>1, <2>2 DEF Within
  <2> QED BY <2>1, <2>2
<1>3. PICK b \in (k + 1)..n : new[j] = list[b]
  <2>1. CASE j \in left..right
    <3>1. PICK b \in left..right : new[j] = list[b]
      BY <1>1, <2>1 DEF Within
    <3>2. b \in (k + 1)..n
      BY <2>1
    <3> QED BY <3>1, <3>2
  <2>2. CASE j \notin left..right
    BY <1>1, <2>2 DEF Within
  <2> QED BY <2>1, <2>2
<1> QED BY <1>2, <1>3 DEF Above

(* Where partition splits, and before it, is such a place.                 *)
LEMMA AboveSplit ==
  ASSUME NEW n \in Nat, NEW S, \A x \in S : x.count \in Int,
         NEW list, NEW new, NEW left \in 1..n, NEW right \in left..n, NEW at,
         Splits(new, at, list, left, right, n, S), Above(list, left - 1, n), Above(list, right, n)
  PROVE  /\ Above(new, left - 1, n) /\ Above(new, right, n)
         /\ Above(new, at - 1, n) /\ Above(new, at, n)
<1>1. /\ Arranged(new, n, S) /\ at \in left..right /\ Within(new, list, left, right, n)
      /\ \A k \in left..(at - 1) : new[k].count >= new[at].count
      /\ \A k \in (at + 1)..right : new[at].count >= new[k].count
  BY DEF Splits
<1>2. Above(new, left - 1, n) /\ Above(new, right, n)
  <2>1. left - 1 \in 0..n /\ left - 1 < left /\ right \in 0..n /\ right >= right
    OBVIOUS
  <2> QED BY <1>1, <2>1, AboveStays
<1>3. \A k \in 1..n : new[k].count \in Int
  BY <1>1 DEF Arranged
<1>4. at \in 1..n
  BY <1>1
<1>5. \A i \in 1..(at - 1) : new[i].count >= new[at].count
  <2> SUFFICES ASSUME NEW i \in 1..(at - 1) PROVE new[i].count >= new[at].count
    OBVIOUS
  <2>1. CASE i \in left..(at - 1)
    BY <1>1, <2>1
  <2>2. CASE i \in 1..(left - 1)
    <3>1. at \in ((left - 1) + 1)..n
      BY <1>1
    <3> QED BY <1>2, <2>2, <3>1 DEF Above
  <2>3. i \in left..(at - 1) \/ i \in 1..(left - 1)
    BY <1>1
  <2> QED BY <2>1, <2>2, <2>3
<1>6. \A j \in (at + 1)..n : new[at].count >= new[j].count
  <2> SUFFICES ASSUME NEW j \in (at + 1)..n PROVE new[at].count >= new[j].count
    OBVIOUS
  <2>1. CASE j \in (at + 1)..right
    BY <1>1, <2>1
  <2>2. CASE j \in (right + 1)..n
    <3>1. at \in 1..right
      BY <1>1
    <3> QED BY <1>2, <2>2, <3>1 DEF Above
  <2>3. j \in (at + 1)..right \/ j \in (right + 1)..n
    BY <1>1
  <2> QED BY <2>1, <2>2, <2>3
<1>7. \A i \in 1..(at - 1), j \in (at + 1)..n : new[i].count >= new[j].count
  <2> SUFFICES ASSUME NEW i \in 1..(at - 1), NEW j \in (at + 1)..n PROVE new[i].count >= new[j].count
    OBVIOUS
  <2>1. i \in 1..n /\ j \in 1..n
    BY <1>4
  <2>2. new[i].count >= new[at].count /\ new[at].count >= new[j].count
    BY <1>5, <1>6
  <2>3. \A x, y, z \in Int : x >= y /\ y >= z => x >= z
    OBVIOUS
  <2> QED BY <1>3, <1>4, <2>1, <2>2, <2>3
<1>8. Above(new, at - 1, n)
  <2> SUFFICES ASSUME NEW i \in 1..(at - 1), NEW j \in ((at - 1) + 1)..n
               PROVE  new[i].count >= new[j].count
    BY DEF Above
  <2>1. j = at \/ j \in (at + 1)..n
    BY <1>4
  <2> QED BY <1>5, <1>7, <2>1
<1>9. Above(new, at, n)
  <2> SUFFICES ASSUME NEW i \in 1..at, NEW j \in (at + 1)..n
               PROVE  new[i].count >= new[j].count
    BY DEF Above
  <2>1. i = at \/ i \in 1..(at - 1)
    BY <1>4
  <2> QED BY <1>6, <1>7, <2>1
<1> QED BY <1>2, <1>8, <1>9

(* The selection: the n largest end on the left, in whatever order.        *)
LEMMA SelectsLargest ==
  ASSUME NEW T, NEW all \in Seq(T), NEW n, n = Len(all), NEW S, S = Range(all),
         Arranged(all, n, S), \A x \in S : x.count \in Int, NEW m \in 1..n
  PROVE  LET list == MoveLeftNLargest(all, m) IN Arranged(list, n, S) /\ Above(list, m, n)
<1> DEFINE f == moveLeftNLargest(all)
           P == PartsOf(n, S)
           Ready(p) == /\ Arranged(p.list, n, S) /\ Above(p.list, p.left - 1, n) /\ Above(p.list, p.right, n)
                       /\ p.n <= PartSize(p)
           Done(p) == Arranged(f[p], n, S) /\ Above(f[p], p.left - 1 + p.n, n)
           Good == {k \in 0..n : \A p \in P : PartSize(p) <= k /\ Ready(p) => Done(p)}
<1>1. n \in Nat /\ all \in [1..n -> S] /\ f = [p \in P |-> MovedBy(f, p)]
  BY MovedIs
<1>2. \A p \in P : f[p] = MovedBy(f, p)
  <2> HIDE DEF f
  <2> QED BY <1>1
<1> HIDE DEF f
<1>3. 0 \in Good
  <2>1. ASSUME NEW p \in P, PartSize(p) <= 0, Ready(p) PROVE Done(p)
    <3>1. PartSize(p) \in Int /\ p.n \in Nat /\ p.n # 0
      BY <1>1, MovedCases DEF PartsOf
    <3> QED BY <2>1, <3>1
  <2>2. 0 \in 0..n
    BY <1>1
  <2> HIDE DEF Ready, Done
  <2> QED BY <2>1, <2>2
<1>4. ASSUME NEW k \in 0..(n - 1), k \in Good PROVE k + 1 \in Good
  <2>1. ASSUME NEW p \in P, PartSize(p) <= k + 1, Ready(p) PROVE Done(p)
    <3> DEFINE split == partition(p.list, p.left, p.right)
               at == split.i
               low == Part(split.list, p.left, at - 1, p.n)
               high == Part(split.list, at + 1, p.right, p.n - (at - p.left + 1))
               N == p.left - 1 + p.n
    <3>1. /\ p.left \in 1..n /\ p.right \in p.left..n /\ at \in p.left..p.right
          /\ (at - p.left > p.n - 1 => low \in P /\ PartSize(low) < PartSize(p))
          /\ (at - p.left < p.n - 1 => high \in P /\ PartSize(high) < PartSize(p))
      BY <1>1, <2>1, MovedParts
    <3>2. /\ PartSize(p) \in Int /\ p.n \in Nat
          /\ (at - p.left = p.n - 1 => f[p] = split.list)
          /\ (at - p.left > p.n - 1 => f[p] = f[low])
          /\ (at - p.left < p.n - 1 => f[p] = f[high])
      BY <1>1, <1>2, <2>1, MovedCases
    <3>3. Splits(split.list, at, p.list, p.left, p.right, n, S)
      BY <1>1, <2>1, <3>1, PartitionSplits
    <3>4. /\ Above(split.list, p.left - 1, n) /\ Above(split.list, p.right, n)
          /\ Above(split.list, at - 1, n) /\ Above(split.list, at, n)
      BY <1>1, <2>1, <3>1, <3>3, AboveSplit
    <3>5. Arranged(split.list, n, S)
      BY <3>3 DEF Splits
    <3>6. p.left \in Nat /\ p.right \in Nat /\ at \in Nat
      BY <1>1, <3>1
    <3>7. CASE at - p.left = p.n - 1
      <4>1. N = at
        <5> HIDE DEF at
        <5> QED BY <3>2, <3>6, <3>7
      <4> HIDE DEF split, N
      <4> QED BY <3>2, <3>4, <3>5, <3>7, <4>1 DEF N
    <3>8. CASE at - p.left > p.n - 1
      <4>1. PartSize(low) = at - 1 - p.left + 1
        BY DEF PartSize, Part
      <4>2. /\ low.list = split.list /\ low.left = p.left /\ low.right = at - 1 /\ low.n = p.n
        BY DEF Part
      <4>3. at - 1 - p.left + 1 = at - p.left /\ p.n <= at - p.left
        <5>1. \A l, a, w \in Nat : a - l > w - 1 => a - 1 - l + 1 = a - l /\ w <= a - l
          OBVIOUS
        <5> HIDE DEF at
        <5> QED BY <3>2, <3>6, <3>8, <5>1
      <4> HIDE DEF low, at, split
      <4>4. Ready(low)
        BY <3>4, <3>5, <4>1, <4>2, <4>3
      <4>5. PartSize(low) <= k
        <5>1. PartSize(low) \in Int /\ PartSize(low) < PartSize(p)
          BY <3>1, <3>6, <3>8, <4>1
        <5> QED BY <2>1, <3>2, <5>1
      <4>6. Done(low)
        <5> HIDE DEF Ready, Done
        <5> QED BY <1>4, <3>1, <3>8, <4>4, <4>5
      <4> QED BY <3>2, <3>8, <4>2, <4>6
    <3>9. CASE at - p.left < p.n - 1
      <4>1. PartSize(high) = p.right - (at + 1) + 1
        BY DEF PartSize, Part
      <4>2. /\ high.list = split.list /\ high.left = at + 1 /\ high.right = p.right
            /\ high.n = p.n - (at - p.left + 1)
        BY DEF Part
      <4>3. p.n <= p.right - p.left + 1
        BY <2>1 DEF PartSize
      <4>4. /\ p.n - (at - p.left + 1) <= p.right - (at + 1) + 1
            /\ (at + 1) - 1 = at /\ (at + 1) - 1 + (p.n - (at - p.left + 1)) = p.left - 1 + p.n
        <5> DEFINE l == p.left
                   r == p.right
                   w == p.n
        <5>1. l \in Nat /\ r \in Nat /\ w \in Nat /\ at \in Nat /\ w <= r - l + 1
          BY <3>2, <3>6, <4>3
        <5> HIDE DEF at, l, r, w
        <5>2. /\ w - (at - l + 1) <= r - (at + 1) + 1
              /\ (at + 1) - 1 = at /\ (at + 1) - 1 + (w - (at - l + 1)) = l - 1 + w
          BY <5>1
        <5> QED BY <5>2 DEF l, r, w
      <4> HIDE DEF high, at, split
      <4>5. Ready(high)
        BY <3>4, <3>5, <4>1, <4>2, <4>4
      <4>6. PartSize(high) <= k
        <5>1. PartSize(high) \in Int /\ PartSize(high) < PartSize(p)
          BY <3>1, <3>6, <3>9, <4>1
        <5> QED BY <2>1, <3>2, <5>1
      <4>7. Done(high)
        <5> HIDE DEF Ready, Done
        <5> QED BY <1>4, <3>1, <3>9, <4>5, <4>6
      <4> QED BY <3>2, <3>9, <4>2, <4>4, <4>7
    <3>10. at - p.left = p.n - 1 \/ at - p.left > p.n - 1 \/ at - p.left < p.n - 1
      <4> HIDE DEF at
      <4> QED BY <3>2, <3>6
    <3> QED BY <3>7, <3>8, <3>9, <3>10
  <2>2. k + 1 \in 0..n
    BY <1>1
  <2> HIDE DEF Ready, Done
  <2> QED BY <2>1, <2>2
<1>5. n \in Good
  <2>1. 0..n \subseteq Good
    <3> HIDE DEF Good
    <3> QED BY <1>1, <1>3, <1>4, InductionUpTo
  <2>2. n \in 0..n
    BY <1>1
  <2> HIDE DEF Good
  <2> QED BY <2>1, <2>2
<1> DEFINE whole == Part(all, 1, n, m)
<1>6. /\ whole.list = all /\ whole.left = 1 /\ whole.right = n /\ whole.n = m
      /\ PartSize(whole) = n - 1 + 1
  BY DEF Part, PartSize
<1>7. whole \in P
  <2>1. 1 \in 1..(n + 1) /\ n \in 0..n /\ m \in Nat \ {0}
    BY <1>1
  <2> QED BY <1>1, <2>1 DEF PartsOf, Part
<1>8. Ready(whole) /\ PartSize(whole) <= n
  <2>1. n - 1 + 1 = n /\ m <= n /\ 1 - 1 = 0
    BY <1>1
  <2>2. Above(all, 0, n) /\ Above(all, n, n)
    BY <1>1 DEF Above
  <2> HIDE DEF whole
  <2> QED BY <1>6, <2>1, <2>2
<1> HIDE DEF whole
<1>9. Done(whole)
  <2> HIDE DEF Ready, Done
  <2> QED BY <1>5, <1>7, <1>8
<1>10. 1 - 1 + m = m
  BY <1>1
<1>11. MoveLeftNLargest(all, m) = f[whole]
  BY DEF MoveLeftNLargest, f, whole
<1> QED BY <1>6, <1>9, <1>10, <1>11
(* A row's countries, in the order of the keys.                            *)
Countries == [code : Int, count : Nat]
CountryList(list) ==
  /\ list \in Seq(Countries)
  /\ \A i, j \in DOMAIN list : i < j => list[i].code < list[j].code

(* A row names a country once, and is an arrangement of its items.         *)
LEMMA CountriesDiffer ==
  ASSUME NEW list, CountryList(list)
  PROVE  /\ Len(list) \in Nat /\ DOMAIN list = 1..Len(list) /\ list \in [1..Len(list) -> Countries]
         /\ \A i, j \in 1..Len(list) : list[i].code = list[j].code => i = j
         /\ \A i \in 1..Len(list) : list[i].code \in Int /\ list[i].count \in Nat
         /\ Range(list) = {list[i] : i \in 1..Len(list)} /\ IsFiniteSet(Range(list))
         /\ Arranged(list, Len(list), Range(list)) /\ \A x \in Range(list) : x.count \in Int
<1> DEFINE n == Len(list)
<1>1. n \in Nat /\ DOMAIN list = 1..n /\ list \in [1..n -> Countries]
  BY DEF CountryList
<1>2. \A i \in 1..n : list[i].code \in Int /\ list[i].count \in Nat
  BY <1>1 DEF Countries
<1>3. \A i, j \in 1..n : i < j => list[i].code < list[j].code
  BY <1>1 DEF CountryList
<1> HIDE DEF n
<1>4. ASSUME NEW i \in 1..n, NEW j \in 1..n, list[i].code = list[j].code PROVE i = j
  <2>1. ~(list[i].code < list[j].code) /\ ~(list[j].code < list[i].code)
    BY <1>2, <1>4
  <2>2. ~(i < j) /\ ~(j < i)
    BY <1>3, <2>1
  <2> QED BY <1>1, <2>2
<1>5. Range(list) = {list[i] : i \in 1..n}
  BY <1>1 DEF Range
<1>6. Arranged(list, n, Range(list))
  BY <1>1, <1>4, <1>5 DEF Arranged
<1>7. \A x \in Range(list) : x.count \in Int
  BY <1>2, <1>5
<1>8. IsFiniteSet(Range(list))
  <2>1. IsFiniteSet(1..n)
    BY <1>1, FS_Interval
  <2>2. (\A i \in 1..n : list[i] \in Range(list)) /\ \A x \in Range(list) : \E i \in 1..n : list[i] = x
    BY <1>5
  <2> QED BY <2>1, <2>2, ImageAtMost
<1> QED BY <1>1, <1>2, <1>4, <1>5, <1>6, <1>7, <1>8 DEF n

(* If the m largest are shown, then so are m that are not less than one    *)
(* that is not shown.                                                      *)
LEMMA ShowsLargest ==
  ASSUME NEW list, CountryList(list), NEW m \in 1..Len(list), NEW shown,
         Codes(SubSeq(MoveLeftNLargest(list, m), 1, m)) \subseteq shown,
         NEW x \in Range(list), x.code \notin shown
  PROVE  m <= Cardinality({y \in Range(list) : y.code \in shown /\ y.count >= x.count})
<1> DEFINE n == Len(list)
           S == Range(list)
           moved == MoveLeftNLargest(list, m)
           Big == {y \in S : y.code \in shown /\ y.count >= x.count}
<1>1. n \in Nat /\ list \in Seq(Countries) /\ Arranged(list, n, S) /\ \A y \in S : y.count \in Int
  BY CountriesDiffer DEF CountryList
<1>2. Arranged(moved, n, S) /\ Above(moved, m, n)
  BY <1>1, SelectsLargest
<1>3. IsFiniteSet(Big)
  <2>1. IsFiniteSet(S)
    BY CountriesDiffer
  <2> HIDE DEF S
  <2> QED BY <2>1, FS_Subset
<1> HIDE DEF n, S, moved
<1>4. m \in 1..n /\ \A i \in 1..m : i \in 1..n
  BY DEF n
<1>5. moved \in [1..n -> S] /\ moved \in Seq(S) /\ Len(moved) = n
  <2>1. moved \in [1..n -> S]
    BY <1>2 DEF Arranged
  <2> QED BY <1>1, <2>1
<1>6. \A i \in 1..m : moved[i].code \in shown
  <2>1. /\ DOMAIN SubSeq(moved, 1, m) = 1..m
        /\ \A i \in 1..m : SubSeq(moved, 1, m)[i] = moved[i]
    BY <1>1, <1>4, <1>5
  <2>2. \A i \in DOMAIN SubSeq(moved, 1, m) : SubSeq(moved, 1, m)[i].code \in shown
    BY DEF Codes, moved
  <2> QED BY <2>1, <2>2
<1>7. PICK k \in 1..n : moved[k] = x
  BY <1>2 DEF Arranged, S
<1>8. k \in (m + 1)..n
  BY <1>1, <1>4, <1>6, <1>7
<1>9. \A i \in 1..m : moved[i] \in Big
  BY <1>2, <1>4, <1>5, <1>6, <1>7, <1>8 DEF Above
<1> HIDE DEF Big
<1> DEFINE f == [i \in 1..m |-> moved[i]]
<1>10. f \in Injection(1..m, Big)
  <2>1. \A i, j \in 1..m : moved[i] = moved[j] => i = j
    BY <1>2, <1>4 DEF Arranged
  <2>2. f \in [1..m -> Big]
    BY <1>9
  <2>3. \A i \in 1..m : f[i] = moved[i]
    OBVIOUS
  <2> HIDE DEF f
  <2> QED BY <2>1, <2>2, <2>3 DEF Injection, IsInjective
<1>11. IsFiniteSet(1..m) /\ Cardinality(1..m) = m
  <2>1. m \in Nat /\ m >= 1
    BY <1>1, <1>4
  <2>2. IsFiniteSet(1..m) /\ Cardinality(1..m) = m - 1 + 1
    BY <2>1, FS_Interval
  <2> QED BY <2>1, <2>2
<1> HIDE DEF f
<1> QED BY <1>3, <1>10, <1>11, FS_Injection DEF Big, S

(* What is found of a country is its number, wherever the search begins.   *)
TheCount(list, code) == Max({x.count : x \in {x \in Range(list) : x.code = code}} \cup {0})

(* The country's number is its item's, and 0 without one.                  *)
LEMMA TheCountIs ==
  ASSUME NEW list, CountryList(list), NEW code
  PROVE  /\ \A i \in 1..Len(list) : list[i].code = code => TheCount(list, code) = list[i].count
         /\ (\A i \in 1..Len(list) : list[i].code # code) => TheCount(list, code) = 0
         /\ TheCount(list, code) \in Nat
<1> DEFINE n == Len(list)
           C == {x.count : x \in {x \in Range(list) : x.code = code}} \cup {0}
<1>1. n \in Nat /\ Range(list) = {list[i] : i \in 1..n}
  BY CountriesDiffer
<1>2. \A i, j \in 1..n : list[i].code = list[j].code => i = j
  BY CountriesDiffer
<1>3. \A i \in 1..n : list[i].count \in Nat
  BY CountriesDiffer
<1> HIDE DEF n
<1>4. ASSUME NEW i \in 1..n, list[i].code = code PROVE TheCount(list, code) = list[i].count
  <2>1. C = {list[i].count, 0}
    <3>1. {x \in Range(list) : x.code = code} = {list[i]}
      BY <1>1, <1>2, <1>4
    <3> QED BY <3>1
  <2>2. \E c \in C : \A d \in C : c >= d
    BY <1>3, <2>1
  <2>3. Max(C) \in C /\ \A d \in C : Max(C) >= d
    BY <2>2 DEF Max
  <2>4. Max(C) = list[i].count
    <3> DEFINE c == list[i].count
               top == Max(C)
    <3>1. c \in Nat /\ top \in {c, 0} /\ top >= c
      BY <1>3, <2>1, <2>3
    <3> HIDE DEF c, top
    <3>2. top = c
      BY <3>1
    <3> QED BY <3>2 DEF c, top
  <2> QED BY <2>4 DEF TheCount
<1>5. ASSUME \A i \in 1..n : list[i].code # code PROVE TheCount(list, code) = 0
  <2>1. C = {0}
    BY <1>1, <1>5
  <2>2. Max({0}) = 0
    BY DEF Max
  <2> HIDE DEF C
  <2>3. Max(C) = 0
    BY <2>1, <2>2
  <2> QED BY <2>3 DEF TheCount, C
<1>6. TheCount(list, code) \in Nat
  <2>1. CASE \E i \in 1..n : list[i].code = code
    BY <1>3, <1>4, <2>1
  <2>2. CASE \A i \in 1..n : list[i].code # code
    BY <1>5, <2>2
  <2> QED BY <2>1, <2>2
<1> QED BY <1>4, <1>5, <1>6 DEF n

Tells(found, list, code) == found.count = TheCount(list, code) /\ found.index \in Nat

(* The search finds the country's number and a place to begin the next one *)
(* at.                                                                     *)
LEMMA FindsCount ==
  ASSUME NEW list, CountryList(list), NEW code \in Int, NEW prev \in Nat
  PROVE  Tells(FindCountFor(list, code, prev), list, code)
<1> DEFINE n == Len(list)
           found == FindCountFor(list, code, prev)
           Hits(I) == {i \in I : list[i].code = code}
<1>1. n \in Nat /\ DOMAIN list = 1..n
  BY CountriesDiffer
<1>2. \A i \in 1..n : list[i].code \in Int /\ list[i].count \in Nat
  BY CountriesDiffer
<1>3. \A i, j \in 1..n : i < j => list[i].code < list[j].code
  BY <1>1 DEF CountryList
<1>4. /\ \A i \in 1..n : list[i].code = code => TheCount(list, code) = list[i].count
      /\ (\A i \in 1..n : list[i].code # code) => TheCount(list, code) = 0
  BY TheCountIs
<1> HIDE DEF n
<1>5. ASSUME NEW I \in SUBSET (1..n), Hits(I) # {}
      PROVE  Max(Hits(I)) \in Hits(I) /\ Min(Hits(I)) \in Hits(I)
  <2> DEFINE H == Hits(I)
  <2>1. Max(H) \in H
    <3>1. H \in SUBSET (1..n) /\ H # {}
      BY <1>5
    <3> HIDE DEF H
    <3> QED BY <1>1, <3>1, MaxUpTo
  <2>2. Min(H) \in H
    <3>1. H \in SUBSET Nat /\ H # {}
      <4>1. 1..n \subseteq Nat /\ H \subseteq I
        OBVIOUS
      <4> QED BY <1>5, <4>1
    <3> HIDE DEF H
    <3>2. \E x \in H : \A y \in H : x <= y
      BY <3>1, HasLeast
    <3> QED BY <3>2 DEF Min
  <2> QED BY <2>1, <2>2
<1>6. ASSUME NEW I \in SUBSET (1..n), \A i \in 1..n : list[i].code = code => i \in I, NEW at,
             Hits(I) # {} => at \in Hits(I),
             found = IF Hits(I) = {} THEN [count |-> 0, index |-> 0]
                     ELSE [count |-> list[at].count, index |-> at]
      PROVE  Tells(found, list, code)
  <2> HIDE DEF found
  <2>1. CASE Hits(I) = {}
    <3>1. \A i \in 1..n : list[i].code # code
      BY <1>6, <2>1
    <3> QED BY <1>4, <1>6, <2>1, <3>1 DEF Tells
  <2>2. CASE Hits(I) # {}
    <3>1. at \in 1..n /\ list[at].code = code
      BY <1>6, <2>2
    <3>2. found.count = list[at].count /\ found.index = at
      BY <1>6, <2>2
    <3> QED BY <1>1, <1>4, <3>1, <3>2 DEF Tells
  <2> QED BY <2>1, <2>2
<1>7. CASE prev \in 1..n
  <2>1. CASE list[prev].code = code
    <3>1. found = [count |-> list[prev].count, index |-> prev]
      BY <1>1, <1>2, <1>7, <2>1 DEF FindCountFor, IsLeft
    <3>2. found.count = list[prev].count /\ found.index = prev
      BY <3>1
    <3> HIDE DEF found
    <3>3. Tells(found, list, code)
      BY <1>4, <1>7, <2>1, <3>2 DEF Tells
    <3> QED BY <3>3 DEF found
  <2>2. CASE list[prev].code # code /\ code < list[prev].code
    <3> DEFINE I == 1..(prev - 1)
    <3>1. I \in SUBSET (1..n)
      BY <1>1, <1>7
    <3>2. ASSUME NEW i \in 1..n, list[i].code = code PROVE i \in I
      <4>1. list[i].code # list[prev].code /\ ~(list[prev].code < list[i].code)
        BY <1>2, <1>7, <2>2, <3>2
      <4>2. i # prev /\ ~(prev < i)
        BY <1>3, <1>7, <4>1
      <4> QED BY <1>1, <1>7, <4>2
    <3>3. found = IF Hits(I) = {} THEN [count |-> 0, index |-> 0]
                  ELSE [count |-> list[Max(Hits(I))].count, index |-> Max(Hits(I))]
      BY <1>1, <1>7, <2>2 DEF FindCountFor, IsLeft, findCountLeft, Found
    <3>4. Hits(I) # {} => Max(Hits(I)) \in Hits(I)
      BY <1>5, <3>1
    <3> HIDE DEF found, Hits, I
    <3>5. Tells(found, list, code)
      BY <1>6, <3>1, <3>2, <3>3, <3>4
    <3> QED BY <3>5 DEF found
  <2>3. CASE list[prev].code # code /\ ~(code < list[prev].code)
    <3> DEFINE I == (prev + 1)..n
    <3>1. I \in SUBSET (1..n)
      BY <1>1, <1>7
    <3>2. ASSUME NEW i \in 1..n, list[i].code = code PROVE i \in I
      <4>1. list[i].code # list[prev].code /\ ~(list[i].code < list[prev].code)
        BY <1>2, <1>7, <2>3, <3>2
      <4>2. i # prev /\ ~(i < prev)
        BY <1>3, <1>7, <4>1
      <4> QED BY <1>1, <1>7, <4>2
    <3>3. found = IF Hits(I) = {} THEN [count |-> 0, index |-> 0]
                  ELSE [count |-> list[Min(Hits(I))].count, index |-> Min(Hits(I))]
      BY <1>1, <1>7, <2>3 DEF FindCountFor, IsLeft, findCountRight, Found, n
    <3>4. Hits(I) # {} => Min(Hits(I)) \in Hits(I)
      BY <1>5, <3>1
    <3> HIDE DEF found, Hits, I
    <3>5. Tells(found, list, code)
      BY <1>6, <3>1, <3>2, <3>3, <3>4
    <3> QED BY <3>5 DEF found
  <2> QED BY <2>1, <2>2, <2>3
<1>8. CASE prev \notin 1..n
  <2> DEFINE I == 1..n
  <2>1. found = IF Hits(I) = {} THEN [count |-> 0, index |-> 0]
                ELSE [count |-> list[Min(Hits(I))].count, index |-> Min(Hits(I))]
    BY <1>1, <1>8 DEF FindCountFor, findCountRight, Found, n
  <2>2. Hits(I) # {} => Min(Hits(I)) \in Hits(I)
    BY <1>5
  <2>3. I \in SUBSET (1..n) /\ \A i \in 1..n : list[i].code = code => i \in I
    OBVIOUS
  <2> HIDE DEF found, Hits, I
  <2>4. Tells(found, list, code)
    BY <1>6, <2>1, <2>2, <2>3
  <2> QED BY <2>4 DEF found
<1> QED BY <1>7, <1>8
(* Every stamp has its hour in the array, which has one at least.          *)
LEMMA HoursCover ==
  ASSUME NEW S \in SUBSET Nat, IsFiniteSet(S)
  PROVE  ArrLen(S) \in Nat \ {0} /\ \A s \in S : Hour(s) \in 0..(ArrLen(S) - 1)
<1> DEFINE H == {Hour(s) : s \in S}
<1>1. \A s \in S : Hour(s) \in Nat
  <2>1. HourSecs \in Nat \ {0}
    BY ChartsAssumption
  <2>2. \A s \in Nat : s \div HourSecs \in Nat
    BY <2>1
  <2> QED BY <2>2 DEF Hour
<1>2. IsFiniteSet(H)
  <2> DEFINE f == [s \in S |-> Hour(s)]
  <2>1. f \in [S -> H] /\ \A h \in H : \E s \in S : f[s] = h
    OBVIOUS
  <2>2. f \in Surjection(S, H)
    <3> HIDE DEF f, H
    <3> QED BY <2>1 DEF Surjection
  <2> HIDE DEF f, H
  <2> QED BY <2>2, FS_Surjection
<1>3. H \cup {0} \in SUBSET Nat /\ IsFiniteSet(H \cup {0}) /\ H \cup {0} # {}
  <2>1. H \in SUBSET Nat
    BY <1>1
  <2> HIDE DEF H
  <2> QED BY <1>2, <2>1, FS_AddElement
<1> DEFINE top == Max(H \cup {0})
<1>4. top \in H \cup {0} /\ \A h \in H \cup {0} : top >= h
  <2>1. \E x \in H \cup {0} : \A h \in H \cup {0} : x >= h
    <3> HIDE DEF H
    <3> QED BY <1>3, HasGreatest
  <2> HIDE DEF H
  <2> QED BY <2>1 DEF Max
<1>5. ArrLen(S) = top + 1
  BY DEF ArrLen
<1>6. top \in Nat /\ \A s \in S : Hour(s) \in Nat /\ top >= Hour(s)
  <2>1. \A s \in S : Hour(s) \in H \cup {0}
    OBVIOUS
  <2> HIDE DEF H, top
  <2> QED BY <1>1, <1>3, <1>4, <2>1
<1> HIDE DEF top
<1>7. top + 1 \in Nat \ {0} /\ (top + 1) - 1 = top
  BY <1>6
<1> QED BY <1>5, <1>6, <1>7

(* The rows of a request.                                                  *)
ChartRows(rows) ==
  /\ rows \in Seq([stamp : Nat, countries : Seq(Countries)])
  /\ \A i \in DOMAIN rows : CountryList(rows[i].countries)

Hours(rows) == 0..(ArrLen({r.stamp : r \in Range(rows)}) - 1)
WriteCount(acc, r, code) ==
  LET found == FindCountFor(r.countries, code, acc.prev)
  IN  [counts |-> [acc.counts EXCEPT ![Hour(r.stamp)] = found.count % CountRange], prev |-> found.index]
Written(rows) == [counts : [Hours(rows) -> Nat], prev : Nat]
NoneWritten(rows) == [counts |-> [h \in Hours(rows) |-> 0], prev |-> 0]
Writes(rows, code) == [k \in 1..Len(rows) |-> [acc \in Written(rows) |-> WriteCount(acc, rows[k], code)]]

(* Every row's hour is in the array.                                       *)
LEMMA RowsCovered ==
  ASSUME NEW rows, ChartRows(rows)
  PROVE  /\ Len(rows) \in Nat /\ DOMAIN rows = 1..Len(rows) /\ 0 \in Hours(rows)
         /\ \A k \in 1..Len(rows) : Hour(rows[k].stamp) \in Hours(rows) /\ CountryList(rows[k].countries)
<1> DEFINE n == Len(rows)
           S == {r.stamp : r \in Range(rows)}
<1>1. n \in Nat /\ DOMAIN rows = 1..n /\ \A k \in 1..n : rows[k].stamp \in Nat /\ CountryList(rows[k].countries)
  <2>1. rows \in Seq([stamp : Nat, countries : Seq(Countries)])
    BY DEF ChartRows
  <2>2. n \in Nat /\ DOMAIN rows = 1..n
    BY <2>1
  <2>3. ASSUME NEW k \in 1..n PROVE rows[k].stamp \in Nat
    <3> DEFINE R == [stamp : Nat, countries : Seq(Countries)]
    <3>1. \A r \in R : r.stamp \in Nat
      OBVIOUS
    <3>2. rows \in Seq(R)
      BY <2>1
    <3> HIDE DEF R
    <3>3. rows[k] \in R
      BY <3>2
    <3> QED BY <3>1, <3>3
  <2> QED BY <2>2, <2>3 DEF ChartRows
<1> HIDE DEF n
<1>2. S \in SUBSET Nat /\ \A k \in 1..n : rows[k].stamp \in S
  BY <1>1 DEF Range
<1>3. IsFiniteSet(S)
  <2> DEFINE f == [k \in 1..n |-> rows[k].stamp]
  <2>1. (\A k \in 1..n : f[k] \in S) /\ \A s \in S : \E k \in 1..n : f[k] = s
    BY <1>1 DEF Range
  <2>2. IsFiniteSet(1..n)
    <3>1. 1 \in Int /\ n \in Int
      BY <1>1
    <3> QED BY <3>1, FS_Interval
  <2> HIDE DEF f, S
  <2> QED BY <2>1, <2>2, ImageAtMost
<1> HIDE DEF S
<1>4. ArrLen(S) \in Nat \ {0} /\ \A s \in S : Hour(s) \in 0..(ArrLen(S) - 1)
  BY <1>2, <1>3, HoursCover
<1>5. Hours(rows) = 0..(ArrLen(S) - 1)
  BY DEF Hours, S
<1> QED BY <1>1, <1>2, <1>4, <1>5 DEF n

(* A country's numbers are written row after row.                          *)
LEMMA CountryFolds ==
  ASSUME NEW rows, ChartRows(rows), NEW code \in Int
  PROVE  \E g : /\ Follows(g, Len(rows), [k \in 0..Len(rows) |-> Written(rows)], NoneWritten(rows),
                           Writes(rows, code))
                /\ CountryCounts(rows, code) = g[Len(rows)].counts
<1> DEFINE n == Len(rows)
           W == Written(rows)
           base == NoneWritten(rows)
           A == [k \in 0..n |-> W]
           st == Writes(rows, code)
           Eq(f) == f = [s \in SUBSET (1..n) |-> IF s = {} THEN base
                                                 ELSE WriteCount(f[s \ {Max(s)}], rows[Max(s)], code)]
<1>1. /\ n \in Nat /\ DOMAIN rows = 1..n /\ 0 \in Hours(rows)
      /\ \A k \in 1..n : Hour(rows[k].stamp) \in Hours(rows) /\ CountryList(rows[k].countries)
  BY RowsCovered
<1>2. ASSUME NEW k \in 1..n, NEW acc \in W PROVE WriteCount(acc, rows[k], code) \in W
  <2> DEFINE found == FindCountFor(rows[k].countries, code, acc.prev)
  <2>1. acc.counts \in [Hours(rows) -> Nat] /\ acc.prev \in Nat
    BY DEF Written
  <2>2. found.count \in Nat /\ found.index \in Nat
    BY <1>1, <2>1, FindsCount, TheCountIs DEF Tells
  <2>3. found.count % CountRange \in Nat
    <3>1. CountRange \in Nat \ {0}
      BY ChartsAssumption
    <3>2. \A c \in Nat : c % CountRange \in Nat
      BY <3>1
    <3> HIDE DEF found
    <3> QED BY <2>2, <3>2
  <2> HIDE DEF found
  <2>4. [acc.counts EXCEPT ![Hour(rows[k].stamp)] = found.count % CountRange] \in [Hours(rows) -> Nat]
    BY <2>1, <2>3
  <2> QED BY <2>2, <2>4 DEF WriteCount, Written, found
<1>3. CountryCounts(rows, code) = (CHOOSE f : Eq(f))[1..n].counts
  BY <1>1 DEF CountryCounts, FoldLeft, MapThenFoldSet, WriteCount, NoneWritten, Hours
<1>4. \A k \in 1..n : \A acc \in W : st[k] = [a \in W |-> WriteCount(a, rows[k], code)]
                                   /\ st[k][acc] = WriteCount(acc, rows[k], code)
  BY DEF Writes
<1>5. /\ \A k \in 0..n : A[k] = W
      /\ \A k \in 1..n : k \in 0..n /\ k - 1 \in 0..n
  BY <1>1
<1>6. base \in W
  BY DEF NoneWritten, Written
<1> HIDE DEF n, A, W, base, st
<1>7. Stepwise(n, A, base, st)
  <2>1. \A k \in 1..n : st[k] \in [W -> W]
    <3> SUFFICES ASSUME NEW k \in 1..n PROVE st[k] \in [W -> W]
      OBVIOUS
    <3>1. st[k] = [a \in W |-> WriteCount(a, rows[k], code)]
      BY <1>4, <1>6
    <3> QED BY <1>2, <3>1
  <2>2. A[0] = W
    BY <1>1, <1>5
  <2> QED BY <1>5, <1>6, <2>1, <2>2 DEF Stepwise
<1>8. PICK it0 : /\ FoldsUp(n, base, st, it0)
                 /\ \A s \in SUBSET (1..n) : s # {} => it0[s \ {Max(s)}] \in A[Max(s) - 1]
  BY <1>1, <1>7, FoldExists
<1>9. Eq(it0)
  <2>1. \A s \in SUBSET (1..n) : it0[s] = IF s = {} THEN base
                                          ELSE WriteCount(it0[s \ {Max(s)}], rows[Max(s)], code)
    <3> SUFFICES ASSUME NEW s \in SUBSET (1..n)
                 PROVE  it0[s] = IF s = {} THEN base ELSE WriteCount(it0[s \ {Max(s)}], rows[Max(s)], code)
      OBVIOUS
    <3>1. it0[s] = IF s = {} THEN base ELSE st[Max(s)][it0[s \ {Max(s)}]]
      BY <1>8 DEF FoldsUp
    <3>2. s # {} => Max(s) \in 1..n
      BY <1>1, MaxUpTo
    <3>3. s # {} => it0[s \ {Max(s)}] \in W
      BY <1>5, <1>8, <3>2
    <3> QED BY <1>4, <3>1, <3>2, <3>3
  <2>2. it0 = [s \in SUBSET (1..n) |-> it0[s]]
    BY <1>8 DEF FoldsUp
  <2> QED BY <2>1, <2>2
<1> DEFINE it == CHOOSE f : Eq(f)
<1>10. Eq(it)
  <2> HIDE DEF Eq
  <2> QED BY <1>9
<1> HIDE DEF it
<1>11. it[{}] = base
  BY <1>10
<1>12. \A k \in 1..n : it[1..(k - 1)] \in A[k - 1] => it[1..k] = st[k][it[1..(k - 1)]]
  <2> SUFFICES ASSUME NEW k \in 1..n, it[1..(k - 1)] \in A[k - 1] PROVE it[1..k] = st[k][it[1..(k - 1)]]
    OBVIOUS
  <2>1. 1..k \in SUBSET (1..n) /\ 1..k # {} /\ Max(1..k) = k /\ (1..k) \ {k} = 1..(k - 1)
    BY <1>1, MaxUpTo
  <2>2. it[1..k] = WriteCount(it[(1..k) \ {Max(1..k)}], rows[Max(1..k)], code)
    BY <1>10, <2>1
  <2>3. it[1..k] = WriteCount(it[1..(k - 1)], rows[k], code)
    BY <2>1, <2>2
  <2> QED BY <1>4, <1>5, <2>3
<1> HIDE DEF Eq
<1> DEFINE g == [k \in 0..n |-> it[1..k]]
<1>13. Follows(g, n, A, base, st)
  BY <1>1, <1>7, <1>11, <1>12, FoldFollows
<1>14. CountryCounts(rows, code) = g[n].counts
  <2>1. g[n] = it[1..n]
    BY <1>1
  <2> QED BY <1>3, <2>1 DEF it
<1> HIDE DEF g
<1>15. \E f : Follows(f, n, A, base, st) /\ CountryCounts(rows, code) = f[n].counts
  BY <1>13, <1>14
<1> QED BY <1>15 DEF n, A, W, base, st
(* Of many writes at some places, the last one at a place stays.           *)
LastStays(n, H, at, value, c) ==
  \A h \in H : LET here == {i \in 1..n : at[i] = h}
              IN  c[n][h] = IF here = {} THEN 0 ELSE value[Max(here)]

(* It does so from zeroes, one write after another.                        *)
LEMMA LastWrites ==
  ASSUME NEW n \in Nat, NEW H, NEW at, NEW value, NEW c,
         \A h \in H : c[0][h] = 0,
         \A k \in 1..n : at[k] \in H,
         \A k \in 1..n : \A h \in H : c[k][h] = IF h = at[k] THEN value[k] ELSE c[k - 1][h]
  PROVE  LastStays(n, H, at, value, c)
<1> DEFINE Here(k, h) == {i \in 1..k : at[i] = h}
           Good == {k \in 0..n : \A h \in H : /\ Here(k, h) = {} => c[k][h] = 0
                                              /\ Here(k, h) # {} => c[k][h] = value[Max(Here(k, h))]}
<1>1. 0 \in Good
  <2>1. \A h \in H : Here(0, h) = {}
    OBVIOUS
  <2>2. 0 \in 0..n
    OBVIOUS
  <2> HIDE DEF Here
  <2> QED BY <2>1, <2>2
<1>2. ASSUME NEW k \in 0..(n - 1), k \in Good PROVE k + 1 \in Good
  <2>1. k + 1 \in 1..n /\ k + 1 \in 0..n /\ (k + 1) - 1 = k /\ k + 1 \in Nat
    OBVIOUS
  <2>2. ASSUME NEW h \in H
        PROVE  /\ Here(k + 1, h) = {} => c[k + 1][h] = 0
               /\ Here(k + 1, h) # {} => c[k + 1][h] = value[Max(Here(k + 1, h))]
    <3>1. c[k + 1][h] = IF h = at[k + 1] THEN value[k + 1] ELSE c[k][h]
      BY <2>1
    <3>2. CASE h = at[k + 1]
      <4>1. k + 1 \in Here(k + 1, h) /\ Here(k + 1, h) \in SUBSET (1..(k + 1))
        BY <3>2
      <4> DEFINE top == Max(Here(k + 1, h))
      <4>2. top \in Here(k + 1, h) /\ top >= k + 1
        <5> DEFINE In == Here(k + 1, h)
        <5>1. In \in SUBSET (1..(k + 1)) /\ In # {} /\ k + 1 \in In
          BY <4>1
        <5> HIDE DEF In
        <5>2. Max(In) \in In /\ Max(In) >= k + 1
          BY <2>1, <5>1, MaxUpTo
        <5> QED BY <5>2 DEF In
      <4> HIDE DEF top
      <4>3. top = k + 1
        BY <4>2
      <4>4. c[k + 1][h] = value[top]
        BY <3>1, <3>2, <4>3
      <4> HIDE DEF Here
      <4> QED BY <4>1, <4>4 DEF top
    <3>3. CASE h # at[k + 1]
      <4>1. Here(k + 1, h) = Here(k, h)
        BY <3>3
      <4>2. /\ Here(k, h) = {} => c[k][h] = 0
            /\ Here(k, h) # {} => c[k][h] = value[Max(Here(k, h))]
        BY <1>2
      <4> HIDE DEF Here
      <4> QED BY <3>1, <3>3, <4>1, <4>2
    <3> QED BY <3>2, <3>3
  <2> HIDE DEF Here
  <2> QED BY <2>1, <2>2
<1>3. n \in Good
  <2> HIDE DEF Good
  <2>1. 0..n \subseteq Good
    BY <1>1, <1>2, InductionUpTo
  <2> QED BY <2>1
<1>4. \A h \in H : /\ Here(n, h) = {} => c[n][h] = 0
                   /\ Here(n, h) # {} => c[n][h] = value[Max(Here(n, h))]
  BY <1>3
<1>5. ASSUME NEW h \in H
      PROVE  c[n][h] = IF Here(n, h) = {} THEN 0 ELSE value[Max(Here(n, h))]
  <2> HIDE DEF Here
  <2> QED BY <1>4
<1> QED BY <1>5 DEF LastStays

(* A country's line has the number of the last row of every hour.          *)
LineTold(rows, code) ==
  \A h \in Hours(rows) :
    LET inHour == {i \in 1..Len(rows) : Hour(rows[i].stamp) = h}
    IN  CountryCounts(rows, code)[h] = IF inHour = {} THEN 0
                                       ELSE TheCount(rows[Max(inHour)].countries, code) % CountRange

(* The rows' writes, with what the search finds, make such a line.         *)
LEMMA CountsAreTold ==
  ASSUME NEW rows, ChartRows(rows), NEW code \in Int
  PROVE  DOMAIN CountryCounts(rows, code) = Hours(rows) /\ LineTold(rows, code)
<1> DEFINE n == Len(rows)
           H == Hours(rows)
           at == [k \in 1..n |-> Hour(rows[k].stamp)]
           value == [k \in 1..n |-> TheCount(rows[k].countries, code) % CountRange]
<1>1. n \in Nat /\ \A k \in 1..n : Hour(rows[k].stamp) \in H /\ CountryList(rows[k].countries)
  BY RowsCovered
<1>2. PICK g : /\ Follows(g, n, [k \in 0..n |-> Written(rows)], NoneWritten(rows), Writes(rows, code))
               /\ CountryCounts(rows, code) = g[n].counts
  BY CountryFolds, Zenon
<1> DEFINE c == [k \in 0..n |-> g[k].counts]
<1>3. \A k \in 0..n : g[k] \in Written(rows)
  BY <1>2 DEF Follows
<1>4. \A k \in 0..n : g[k].counts \in [H -> Nat] /\ g[k].prev \in Nat /\ c[k] = g[k].counts
  <2>1. \A w \in Written(rows) : w.counts \in [Hours(rows) -> Nat] /\ w.prev \in Nat
    BY DEF Written
  <2> QED BY <1>3, <2>1
<1>5. \A h \in H : c[0][h] = 0
  BY <1>1, <1>2 DEF Follows, NoneWritten
<1>6. ASSUME NEW k \in 1..n
      PROVE  \A h \in H : c[k][h] = IF h = at[k] THEN value[k] ELSE c[k - 1][h]
  <2>1. k \in 0..n /\ k - 1 \in 0..n
    OBVIOUS
  <2> DEFINE old == g[k - 1]
             found == FindCountFor(rows[k].countries, code, old.prev)
  <2>2. g[k] = WriteCount(old, rows[k], code)
    <3>1. g[k] = Writes(rows, code)[k][old]
      BY <1>2 DEF Follows
    <3>2. old \in Written(rows)
      BY <1>3, <2>1
    <3> HIDE DEF old
    <3> QED BY <3>1, <3>2 DEF Writes, n
  <2>3. found.count = TheCount(rows[k].countries, code)
    BY <1>1, <1>4, <2>1, FindsCount DEF Tells
  <2>4. g[k].counts = [old.counts EXCEPT ![at[k]] = value[k]]
    BY <2>2, <2>3 DEF WriteCount
  <2>5. old.counts \in [H -> Nat] /\ c[k - 1] = old.counts /\ c[k] = g[k].counts
    BY <1>4, <2>1
  <2>6. at[k] \in H
    BY <1>1
  <2> HIDE DEF c, at, value, old, H
  <2> QED BY <2>4, <2>5, <2>6
<1>7. \A k \in 1..n : at[k] \in H
  BY <1>1
<1>8. \A h \in H : c[n][h] = IF {i \in 1..n : at[i] = h} = {} THEN 0
                             ELSE value[Max({i \in 1..n : at[i] = h})]
  <2> HIDE DEF c, at, value, H, n
  <2>1. LastStays(n, H, at, value, c)
    BY <1>1, <1>5, <1>6, <1>7, LastWrites
  <2> QED BY <2>1 DEF LastStays
<1>9. CountryCounts(rows, code) = c[n] /\ c[n] \in [H -> Nat]
  <2>1. n \in 0..n
    BY <1>1
  <2> QED BY <1>2, <1>4, <2>1
<1>10. ASSUME NEW h \in H
       PROVE  CountryCounts(rows, code)[h] =
                IF {i \in 1..n : Hour(rows[i].stamp) = h} = {} THEN 0
                ELSE TheCount(rows[Max({i \in 1..n : Hour(rows[i].stamp) = h})].countries, code) % CountRange
  <2> DEFINE In == {i \in 1..n : Hour(rows[i].stamp) = h}
  <2>1. In = {i \in 1..n : at[i] = h}
    OBVIOUS
  <2>2. In # {} => Max(In) \in 1..n
    <3>1. In \in SUBSET (1..n)
      OBVIOUS
    <3> HIDE DEF In, n
    <3> QED BY <1>1, <3>1, MaxUpTo
  <2>3. CountryCounts(rows, code)[h] = IF In = {} THEN 0 ELSE value[Max(In)]
    BY <1>8, <1>9, <2>1
  <2>4. \A i \in 1..n : value[i] = TheCount(rows[i].countries, code) % CountRange
    OBVIOUS
  <2> HIDE DEF In, value, n, at, c
  <2>5. CountryCounts(rows, code)[h] = IF In = {} THEN 0
                                       ELSE TheCount(rows[Max(In)].countries, code) % CountRange
    BY <2>2, <2>3, <2>4
  <2> QED BY <2>5 DEF In
<1>11. LineTold(rows, code)
  BY <1>10 DEF LineTold
<1> QED BY <1>9, <1>11
(* The countries a chart shows are rows' countries.                        *)
LEMMA ShownAreCodes ==
  ASSUME NEW rows, ChartRows(rows), \A i \in DOMAIN rows : FilterN <= Len(rows[i].countries), NEW all \in BOOLEAN
  PROVE  \A code \in (IF all THEN AllFilter(rows) ELSE CountryFilter(rows)) : code \in Int
<1>1. DOMAIN rows = 1..Len(rows) /\ Len(rows) \in Nat /\ \A i \in 1..Len(rows) : CountryList(rows[i].countries)
  BY RowsCovered
<1>2. ASSUME NEW i \in 1..Len(rows) PROVE Codes(rows[i].countries) \subseteq Int
  <2> DEFINE list == rows[i].countries
  <2>1. DOMAIN list = 1..Len(list) /\ \A j \in 1..Len(list) : list[j].code \in Int
    BY <1>1, CountriesDiffer
  <2> HIDE DEF list
  <2>2. Codes(list) \subseteq Int
    BY <2>1 DEF Codes
  <2> QED BY <2>2 DEF list
<1>3. ASSUME NEW i \in 1..Len(rows)
      PROVE  Codes(SubSeq(MoveLeftNLargest(rows[i].countries, FilterN), 1, FilterN)) \subseteq Int
  <2> DEFINE list == rows[i].countries
             moved == MoveLeftNLargest(list, FilterN)
             N == Len(list)
  <2>1. /\ N \in Nat /\ Arranged(list, N, Range(list)) /\ \A x \in Range(list) : x.count \in Int
        /\ list \in Seq(Countries) /\ Range(list) = {list[j] : j \in 1..N} /\ \A j \in 1..N : list[j].code \in Int
    BY <1>1, CountriesDiffer DEF CountryList
  <2>2. FilterN \in 1..N
    BY <1>1, <2>1, ChartsAssumption
  <2> HIDE DEF list, N
  <2>3. Arranged(moved, N, Range(list))
    BY <2>1, <2>2, SelectsLargest DEF N
  <2> HIDE DEF moved
  <2>4. moved \in [1..N -> Range(list)]
    BY <2>3 DEF Arranged
  <2>5. moved \in Seq(Range(list)) /\ Len(moved) = N
    BY <2>1, <2>4
  <2>6. /\ DOMAIN SubSeq(moved, 1, FilterN) = 1..FilterN
        /\ \A j \in 1..FilterN : SubSeq(moved, 1, FilterN)[j] = moved[j] /\ j \in 1..N
    BY <2>1, <2>2, <2>5
  <2>7. \A j \in 1..FilterN : SubSeq(moved, 1, FilterN)[j].code \in Int
    BY <2>1, <2>4, <2>6
  <2>8. Codes(SubSeq(moved, 1, FilterN)) \subseteq Int
    BY <2>6, <2>7 DEF Codes
  <2> QED BY <2>8 DEF moved, list
<1>4. CountryFilter(rows) \subseteq Int
  BY <1>1, <1>3 DEF CountryFilter, Range
<1>5. AllFilter(rows) \subseteq Int
  <2>1. CASE rows = <<>>
    BY <2>1 DEF AllFilter
  <2>2. CASE rows # <<>>
    <3>1. rows \in Seq([stamp : Nat, countries : Seq(Countries)])
      BY DEF ChartRows
    <3>2. 1 \in 1..Len(rows)
      BY <2>2, <3>1
    <3> QED BY <1>2, <2>2, <3>2 DEF AllFilter
  <2> QED BY <2>1, <2>2
<1> QED BY <1>4, <1>5

(* Rows with FilterN countries or more make a chart that misses none of    *)
(* any row's FilterN largest, and on which every line has at every hour    *)
(* what the last row of that hour says of the country.                     *)
THEOREM ChartTellsRowsAlways ==
  ASSUME NEW rows, ChartRows(rows), \A i \in DOMAIN rows : FilterN <= Len(rows[i].countries)
  PROVE  ChartTellsRows(rows)
<1> DEFINE Shown(all) == IF all THEN AllFilter(rows) ELSE CountryFilter(rows)
           Seen == CountryFilter(rows)
<1>1. DOMAIN rows = 1..Len(rows) /\ Len(rows) \in Nat /\ \A i \in 1..Len(rows) : CountryList(rows[i].countries)
  BY RowsCovered
<1>2. ASSUME NEW i \in 1..Len(rows), NEW x \in Range(rows[i].countries), x.code \notin Seen
      PROVE  FilterN <= Cardinality({y \in Range(rows[i].countries) : y.code \in Seen /\ y.count >= x.count})
  <2> DEFINE list == rows[i].countries
  <2>1. CountryList(list)
    BY <1>1
  <2>2. FilterN \in 1..Len(list)
    <3>1. FilterN \in Nat \ {0} /\ FilterN <= Len(list) /\ Len(list) \in Nat
      BY <1>1, <2>1, ChartsAssumption, CountriesDiffer
    <3> HIDE DEF list
    <3> QED BY <3>1
  <2>3. Codes(SubSeq(MoveLeftNLargest(list, FilterN), 1, FilterN)) \subseteq Seen
    BY <1>1 DEF CountryFilter, Range
  <2>4. x \in Range(list) /\ x.code \notin Seen
    BY <1>2
  <2> HIDE DEF list, Seen
  <2>5. FilterN <= Cardinality({y \in Range(list) : y.code \in Seen /\ y.count >= x.count})
    BY <2>1, <2>2, <2>3, <2>4, ShowsLargest
  <2> QED BY <2>5 DEF list
<1>3. ASSUME NEW all \in BOOLEAN, NEW code \in Shown(all)
      PROVE  /\ NodesCountries(rows, all)[code] = CountryCounts(rows, code)
             /\ DOMAIN CountryCounts(rows, code) = Hours(rows) /\ LineTold(rows, code)
  <2>1. code \in Int
    BY <1>3, ShownAreCodes
  <2>2. NodesCountries(rows, all)[code] = CountryCounts(rows, code)
    BY <1>3 DEF NodesCountries
  <2> HIDE DEF Shown
  <2> QED BY <2>1, <2>2, CountsAreTold
<1>4. \A all \in BOOLEAN : DOMAIN NodesCountries(rows, all) = Shown(all)
  BY DEF NodesCountries
<1>5. DOMAIN NodesCountries(rows, FALSE) = Seen
  BY <1>4
<1>6. \A r \in Range(rows) : \E i \in 1..Len(rows) : r = rows[i]
  BY <1>1 DEF Range
<1>7. ASSUME NEW r \in Range(rows), NEW x \in Range(r.countries), x.code \notin DOMAIN NodesCountries(rows, FALSE)
      PROVE  FilterN <= Cardinality({y \in Range(r.countries) :
                                       y.code \in DOMAIN NodesCountries(rows, FALSE) /\ y.count >= x.count})
  <2> HIDE DEF Seen
  <2> QED BY <1>2, <1>5, <1>6, <1>7
<1>8. ASSUME NEW all \in BOOLEAN, NEW code \in DOMAIN NodesCountries(rows, all),
             NEW h \in DOMAIN (NodesCountries(rows, all)[code])
      PROVE  NodesCountries(rows, all)[code][h] =
               IF {i \in DOMAIN rows : Hour(rows[i].stamp) = h} = {} THEN 0
               ELSE TheCount(rows[Max({i \in DOMAIN rows : Hour(rows[i].stamp) = h})].countries, code) % CountRange
  <2>1. code \in Shown(all)
    BY <1>4
  <2> HIDE DEF Shown
  <2>2. NodesCountries(rows, all)[code] = CountryCounts(rows, code) /\ h \in Hours(rows) /\ LineTold(rows, code)
    BY <1>3, <2>1
  <2>3. CountryCounts(rows, code)[h] =
          IF {i \in 1..Len(rows) : Hour(rows[i].stamp) = h} = {} THEN 0
          ELSE TheCount(rows[Max({i \in 1..Len(rows) : Hour(rows[i].stamp) = h})].countries, code) % CountRange
    BY <2>2 DEF LineTold
  <2> QED BY <1>1, <2>2, <2>3
<1> HIDE DEF Shown, Seen
<1> QED BY <1>7, <1>8, Zenon DEF ChartTellsRows, TheCount
(* Of many writes at some places that keep the greater number, the         *)
(* greatest at a place stays.                                              *)
GreatestStays(n, H, at, value, c) ==
  \A h \in H : c[n][h] = Max({value[i] : i \in {i \in 1..n : at[i] = h}} \cup {0})

(* It does so from zeroes, one write after another.                        *)
LEMMA GreatestWrites ==
  ASSUME NEW n \in Nat, NEW H, NEW at, NEW value, NEW c,
         \A h \in H : c[0][h] = 0,
         \A k \in 1..n : at[k] \in H /\ value[k] \in Nat,
         \A k \in 0..n : \A h \in H : c[k][h] \in Nat,
         \A k \in 1..n : \A h \in H :
           c[k][h] = IF h = at[k] THEN Max({value[k], c[k - 1][h]}) ELSE c[k - 1][h]
  PROVE  GreatestStays(n, H, at, value, c)
<1> DEFINE Vals(k, h) == {value[i] : i \in {i \in 1..k : at[i] = h}} \cup {0}
           Good == {k \in 0..n : \A h \in H : c[k][h] \in Vals(k, h) /\ \A v \in Vals(k, h) : c[k][h] >= v}
<1>1. 0 \in Good
  <2>1. \A h \in H : Vals(0, h) = {0}
    OBVIOUS
  <2>2. 0 \in 0..n
    OBVIOUS
  <2> HIDE DEF Vals
  <2> QED BY <2>1, <2>2
<1>2. ASSUME NEW k \in 0..(n - 1), k \in Good PROVE k + 1 \in Good
  <2>1. k + 1 \in 1..n /\ k + 1 \in 0..n /\ (k + 1) - 1 = k /\ k \in 0..n
    OBVIOUS
  <2>2. ASSUME NEW h \in H
        PROVE  c[k + 1][h] \in Vals(k + 1, h) /\ \A v \in Vals(k + 1, h) : c[k + 1][h] >= v
    <3> DEFINE old == c[k][h]
               new == value[k + 1]
    <3>1. c[k + 1][h] = IF h = at[k + 1] THEN Max({new, old}) ELSE old
      BY <2>1
    <3>2. old \in Vals(k, h) /\ (\A v \in Vals(k, h) : old >= v) /\ old \in Nat /\ new \in Nat
      BY <1>2, <2>1
    <3>3. CASE h = at[k + 1]
      <4>1. Vals(k + 1, h) = Vals(k, h) \cup {new}
        <5>1. {i \in 1..(k + 1) : at[i] = h} = {i \in 1..k : at[i] = h} \cup {k + 1}
          BY <3>3
        <5> HIDE DEF old
        <5> QED BY <5>1
      <4> DEFINE top == Max({new, old})
      <4>2. top \in {new, old} /\ top >= new /\ top >= old
        <5>1. \E x \in {new, old} : \A y \in {new, old} : x >= y
          <6> HIDE DEF new, old
          <6> QED BY <3>2
        <5> HIDE DEF new, old
        <5> QED BY <5>1 DEF Max
      <4>3. \A v \in Vals(k, h) : v \in Nat
        BY <2>1
      <4>4. c[k + 1][h] = top
        BY <3>1, <3>3
      <4> HIDE DEF top, old, new, Vals
      <4>5. \A v \in Vals(k, h) : top >= v
        BY <3>2, <4>2, <4>3
      <4> QED BY <3>2, <4>1, <4>2, <4>4, <4>5
    <3>4. CASE h # at[k + 1]
      <4>1. {i \in 1..(k + 1) : at[i] = h} = {i \in 1..k : at[i] = h}
        BY <3>4
      <4>2. Vals(k + 1, h) = Vals(k, h)
        BY <4>1
      <4> HIDE DEF Vals, old
      <4> QED BY <3>1, <3>2, <3>4, <4>2
    <3> QED BY <3>3, <3>4
  <2> HIDE DEF Vals
  <2> QED BY <2>1, <2>2
<1>3. n \in Good
  <2> HIDE DEF Good
  <2>1. 0..n \subseteq Good
    BY <1>1, <1>2, InductionUpTo
  <2> QED BY <2>1
<1>4. ASSUME NEW h \in H PROVE c[n][h] = Max(Vals(n, h))
  <2>1. c[n][h] \in Vals(n, h) /\ \A v \in Vals(n, h) : c[n][h] >= v
    BY <1>3
  <2>2. \A v \in Vals(n, h) : v \in Nat
    OBVIOUS
  <2> DEFINE V == Vals(n, h)
             x == c[n][h]
  <2> HIDE DEF V, x
  <2>3. x \in V /\ (\A v \in V : x >= v) /\ \A v \in V : v \in Nat
    BY <2>1, <2>2 DEF V, x
  <2>4. Max(V) \in V /\ \A v \in V : Max(V) >= v
    BY <2>3 DEF Max
  <2>5. Max(V) = x
    BY <2>3, <2>4
  <2> QED BY <2>5 DEF V, x
<1> QED BY <1>4 DEF GreatestStays

(* The rows of the chart of counts, and its hours.                         *)
CountTable(counts, offCounts) ==
  counts \in Seq([stamp : Nat, h24 : Nat]) /\ offCounts \in Seq([stamp : Nat, active : Nat])
CountHours(counts, offCounts) == 0..(ArrLen({r.stamp : r \in Range(counts) \cup Range(offCounts)}) - 1)

(* Every row's hour is among them.                                         *)
LEMMA CountsCovered ==
  ASSUME NEW counts, NEW offCounts, CountTable(counts, offCounts)
  PROVE  /\ Len(counts) \in Nat /\ DOMAIN counts = 1..Len(counts)
         /\ Len(offCounts) \in Nat /\ DOMAIN offCounts = 1..Len(offCounts)
         /\ \A k \in 1..Len(counts) : /\ Hour(counts[k].stamp) \in CountHours(counts, offCounts)
                                      /\ counts[k].h24 \in Nat
         /\ \A k \in 1..Len(offCounts) : /\ Hour(offCounts[k].stamp) \in CountHours(counts, offCounts)
                                         /\ offCounts[k].active \in Nat
<1> DEFINE n == Len(counts)
           m == Len(offCounts)
           S == {r.stamp : r \in Range(counts)}
           U == {r.stamp : r \in Range(offCounts)}
           C == [stamp : Nat, h24 : Nat]
           O == [stamp : Nat, active : Nat]
<1>1. n \in Nat /\ DOMAIN counts = 1..n /\ \A k \in 1..n : counts[k].stamp \in Nat /\ counts[k].h24 \in Nat
  <2>1. counts \in Seq(C) /\ \A r \in C : r.stamp \in Nat /\ r.h24 \in Nat
    BY DEF CountTable
  <2> HIDE DEF C
  <2> QED BY <2>1
<1>2. m \in Nat /\ DOMAIN offCounts = 1..m /\ \A k \in 1..m : offCounts[k].stamp \in Nat /\ offCounts[k].active \in Nat
  <2>1. offCounts \in Seq(O) /\ \A r \in O : r.stamp \in Nat /\ r.active \in Nat
    BY DEF CountTable
  <2> HIDE DEF O
  <2> QED BY <2>1
<1> HIDE DEF n, m
<1>3. S \in SUBSET Nat /\ \A k \in 1..n : counts[k].stamp \in S
  BY <1>1 DEF Range
<1>4. U \in SUBSET Nat /\ \A k \in 1..m : offCounts[k].stamp \in U
  BY <1>2 DEF Range
<1>5. IsFiniteSet(S)
  <2> DEFINE f == [k \in 1..n |-> counts[k].stamp]
  <2>1. (\A k \in 1..n : f[k] \in S) /\ \A s \in S : \E k \in 1..n : f[k] = s
    BY <1>1 DEF Range
  <2>2. IsFiniteSet(1..n)
    <3>1. 1 \in Int /\ n \in Int
      BY <1>1
    <3> QED BY <3>1, FS_Interval
  <2> HIDE DEF f, S
  <2> QED BY <2>1, <2>2, ImageAtMost
<1>6. IsFiniteSet(U)
  <2> DEFINE f == [k \in 1..m |-> offCounts[k].stamp]
  <2>1. (\A k \in 1..m : f[k] \in U) /\ \A s \in U : \E k \in 1..m : f[k] = s
    BY <1>2 DEF Range
  <2>2. IsFiniteSet(1..m)
    <3>1. 1 \in Int /\ m \in Int
      BY <1>2
    <3> QED BY <3>1, FS_Interval
  <2> HIDE DEF f, U
  <2> QED BY <2>1, <2>2, ImageAtMost
<1>7. {r.stamp : r \in Range(counts) \cup Range(offCounts)} = S \cup U
  OBVIOUS
<1> DEFINE V == S \cup U
<1>8. V \in SUBSET Nat /\ IsFiniteSet(V)
  <2> HIDE DEF S, U
  <2> QED BY <1>3, <1>4, <1>5, <1>6, FS_Union
<1>9. /\ \A k \in 1..n : counts[k].stamp \in V
      /\ \A k \in 1..m : offCounts[k].stamp \in V
  <2> HIDE DEF S, U
  <2> QED BY <1>3, <1>4
<1>10. CountHours(counts, offCounts) = 0..(ArrLen(V) - 1)
  BY <1>7 DEF CountHours
<1> HIDE DEF V
<1>11. \A s \in V : Hour(s) \in 0..(ArrLen(V) - 1)
  BY <1>8, HoursCover
<1> QED BY <1>1, <1>2, <1>9, <1>10, <1>11 DEF n, m

(* The hours' numbers while they are written.                              *)
Numbers(counts, offCounts) == [CountHours(counts, offCounts) -> Nat]
Zeroes(counts, offCounts) == [h \in CountHours(counts, offCounts) |-> 0]
WriteH24(acc, r) == [acc EXCEPT ![Hour(r.stamp)] = r.h24 % CountRange]
WriteOff(acc, r) == [acc EXCEPT ![Hour(r.stamp)] = Max({r.active % CountRange, acc[Hour(r.stamp)]})]
H24Writes(counts, offCounts) ==
  [k \in 1..Len(counts) |-> [acc \in Numbers(counts, offCounts) |-> WriteH24(acc, counts[k])]]
OffWrites(counts, offCounts) ==
  [k \in 1..Len(offCounts) |-> [acc \in Numbers(counts, offCounts) |-> WriteOff(acc, offCounts[k])]]

(* A number cut to 16 bits is one still.                                   *)
LEMMA CountsShort == \A v \in Nat : v % CountRange \in Nat
<1>1. CountRange \in Nat \ {0}
  BY ChartsAssumption
<1> QED BY <1>1

(* Our numbers are written row after row.                                  *)
LEMMA H24Folds ==
  ASSUME NEW counts, NEW offCounts, CountTable(counts, offCounts)
  PROVE  \E g : /\ Follows(g, Len(counts), [k \in 0..Len(counts) |-> Numbers(counts, offCounts)],
                           Zeroes(counts, offCounts), H24Writes(counts, offCounts))
                /\ NodesCounts(counts, offCounts).h24 = g[Len(counts)]
<1> DEFINE n == Len(counts)
           W == Numbers(counts, offCounts)
           base == Zeroes(counts, offCounts)
           A == [k \in 0..n |-> W]
           st == H24Writes(counts, offCounts)
           Eq(f) == f = [s \in SUBSET (1..n) |-> IF s = {} THEN base
                                                 ELSE WriteH24(f[s \ {Max(s)}], counts[Max(s)])]
<1>1. n \in Nat /\ DOMAIN counts = 1..n
  BY CountsCovered
<1>2. ASSUME NEW k \in 1..n, NEW acc \in W PROVE WriteH24(acc, counts[k]) \in W
  <2>1. acc \in [CountHours(counts, offCounts) -> Nat] /\ counts[k].h24 % CountRange \in Nat
    BY CountsCovered, CountsShort DEF Numbers
  <2> QED BY <2>1 DEF WriteH24, Numbers
<1>3. NodesCounts(counts, offCounts).h24 = (CHOOSE f : Eq(f))[1..n]
  BY <1>1 DEF NodesCounts, FoldLeft, MapThenFoldSet, WriteH24, Zeroes, CountHours
<1>4. \A k \in 1..n : \A acc \in W : st[k] = [a \in W |-> WriteH24(a, counts[k])]
                                   /\ st[k][acc] = WriteH24(acc, counts[k])
  BY DEF H24Writes
<1>5. /\ \A k \in 0..n : A[k] = W
      /\ \A k \in 1..n : k \in 0..n /\ k - 1 \in 0..n
  BY <1>1
<1>6. base \in W
  BY DEF Zeroes, Numbers
<1> HIDE DEF n, A, W, base, st
<1>7. Stepwise(n, A, base, st)
  <2>1. \A k \in 1..n : st[k] \in [W -> W]
    <3> SUFFICES ASSUME NEW k \in 1..n PROVE st[k] \in [W -> W]
      OBVIOUS
    <3>1. st[k] = [a \in W |-> WriteH24(a, counts[k])]
      BY <1>4, <1>6
    <3> QED BY <1>2, <3>1
  <2>2. A[0] = W
    BY <1>1, <1>5
  <2> QED BY <1>5, <1>6, <2>1, <2>2 DEF Stepwise
<1>8. PICK it0 : /\ FoldsUp(n, base, st, it0)
                 /\ \A s \in SUBSET (1..n) : s # {} => it0[s \ {Max(s)}] \in A[Max(s) - 1]
  BY <1>1, <1>7, FoldExists
<1>9. Eq(it0)
  <2>1. \A s \in SUBSET (1..n) : it0[s] = IF s = {} THEN base
                                          ELSE WriteH24(it0[s \ {Max(s)}], counts[Max(s)])
    <3> SUFFICES ASSUME NEW s \in SUBSET (1..n)
                 PROVE  it0[s] = IF s = {} THEN base ELSE WriteH24(it0[s \ {Max(s)}], counts[Max(s)])
      OBVIOUS
    <3>1. it0[s] = IF s = {} THEN base ELSE st[Max(s)][it0[s \ {Max(s)}]]
      BY <1>8 DEF FoldsUp
    <3>2. s # {} => Max(s) \in 1..n
      BY <1>1, MaxUpTo
    <3>3. s # {} => it0[s \ {Max(s)}] \in W
      BY <1>5, <1>8, <3>2
    <3> QED BY <1>4, <3>1, <3>2, <3>3
  <2>2. it0 = [s \in SUBSET (1..n) |-> it0[s]]
    BY <1>8 DEF FoldsUp
  <2> QED BY <2>1, <2>2
<1> DEFINE it == CHOOSE f : Eq(f)
<1>10. Eq(it)
  <2> HIDE DEF Eq
  <2> QED BY <1>9
<1> HIDE DEF it
<1>11. it[{}] = base
  BY <1>10
<1>12. \A k \in 1..n : it[1..(k - 1)] \in A[k - 1] => it[1..k] = st[k][it[1..(k - 1)]]
  <2> SUFFICES ASSUME NEW k \in 1..n, it[1..(k - 1)] \in A[k - 1] PROVE it[1..k] = st[k][it[1..(k - 1)]]
    OBVIOUS
  <2>1. 1..k \in SUBSET (1..n) /\ 1..k # {} /\ Max(1..k) = k /\ (1..k) \ {k} = 1..(k - 1)
    BY <1>1, MaxUpTo
  <2>2. it[1..k] = WriteH24(it[(1..k) \ {Max(1..k)}], counts[Max(1..k)])
    BY <1>10, <2>1
  <2>3. it[1..k] = WriteH24(it[1..(k - 1)], counts[k])
    BY <2>1, <2>2
  <2> QED BY <1>4, <1>5, <2>3
<1> HIDE DEF Eq
<1> DEFINE g == [k \in 0..n |-> it[1..k]]
<1>13. Follows(g, n, A, base, st)
  BY <1>1, <1>7, <1>11, <1>12, FoldFollows
<1>14. NodesCounts(counts, offCounts).h24 = g[n]
  <2>1. g[n] = it[1..n]
    BY <1>1
  <2> QED BY <1>3, <2>1 DEF it
<1> HIDE DEF g
<1>15. \E f : Follows(f, n, A, base, st) /\ NodesCounts(counts, offCounts).h24 = f[n]
  BY <1>13, <1>14
<1> QED BY <1>15 DEF n, A, W, base, st

(* So are the official ones.                                               *)
LEMMA OffFolds ==
  ASSUME NEW counts, NEW offCounts, CountTable(counts, offCounts)
  PROVE  \E g : /\ Follows(g, Len(offCounts), [k \in 0..Len(offCounts) |-> Numbers(counts, offCounts)],
                           Zeroes(counts, offCounts), OffWrites(counts, offCounts))
                /\ NodesCounts(counts, offCounts).off = g[Len(offCounts)]
<1> DEFINE n == Len(offCounts)
           W == Numbers(counts, offCounts)
           base == Zeroes(counts, offCounts)
           A == [k \in 0..n |-> W]
           st == OffWrites(counts, offCounts)
           Eq(f) == f = [s \in SUBSET (1..n) |-> IF s = {} THEN base
                                                 ELSE WriteOff(f[s \ {Max(s)}], offCounts[Max(s)])]
<1>1. n \in Nat /\ DOMAIN offCounts = 1..n
  BY CountsCovered
<1>2. ASSUME NEW k \in 1..n, NEW acc \in W PROVE WriteOff(acc, offCounts[k]) \in W
  <2> DEFINE at == Hour(offCounts[k].stamp)
             v == offCounts[k].active % CountRange
  <2>1. acc \in [CountHours(counts, offCounts) -> Nat] /\ v \in Nat /\ at \in CountHours(counts, offCounts)
    BY CountsCovered, CountsShort DEF Numbers
  <2>2. acc[at] \in Nat
    BY <2>1
  <2> DEFINE w == acc[at]
  <2>3. Max({v, w}) \in Nat
    <3> HIDE DEF v, w
    <3>1. \E x \in {v, w} : \A y \in {v, w} : x >= y
      BY <2>1, <2>2 DEF w
    <3>2. Max({v, w}) \in {v, w}
      BY <3>1 DEF Max
    <3> QED BY <2>1, <2>2, <3>2 DEF w
  <2> DEFINE x == Max({v, w})
  <2>4. WriteOff(acc, offCounts[k]) = [acc EXCEPT ![at] = x]
    BY DEF WriteOff
  <2> HIDE DEF x, at
  <2> QED BY <2>1, <2>3, <2>4 DEF x, Numbers
<1>3. NodesCounts(counts, offCounts).off = (CHOOSE f : Eq(f))[1..n]
  BY <1>1 DEF NodesCounts, FoldLeft, MapThenFoldSet, WriteOff, Zeroes, CountHours
<1>4. \A k \in 1..n : \A acc \in W : st[k] = [a \in W |-> WriteOff(a, offCounts[k])]
                                   /\ st[k][acc] = WriteOff(acc, offCounts[k])
  BY DEF OffWrites
<1>5. /\ \A k \in 0..n : A[k] = W
      /\ \A k \in 1..n : k \in 0..n /\ k - 1 \in 0..n
  BY <1>1
<1>6. base \in W
  BY DEF Zeroes, Numbers
<1> HIDE DEF n, A, W, base, st
<1>7. Stepwise(n, A, base, st)
  <2>1. \A k \in 1..n : st[k] \in [W -> W]
    <3> SUFFICES ASSUME NEW k \in 1..n PROVE st[k] \in [W -> W]
      OBVIOUS
    <3>1. st[k] = [a \in W |-> WriteOff(a, offCounts[k])]
      BY <1>4, <1>6
    <3> QED BY <1>2, <3>1
  <2>2. A[0] = W
    BY <1>1, <1>5
  <2> QED BY <1>5, <1>6, <2>1, <2>2 DEF Stepwise
<1>8. PICK it0 : /\ FoldsUp(n, base, st, it0)
                 /\ \A s \in SUBSET (1..n) : s # {} => it0[s \ {Max(s)}] \in A[Max(s) - 1]
  BY <1>1, <1>7, FoldExists
<1>9. Eq(it0)
  <2>1. \A s \in SUBSET (1..n) : it0[s] = IF s = {} THEN base
                                          ELSE WriteOff(it0[s \ {Max(s)}], offCounts[Max(s)])
    <3> SUFFICES ASSUME NEW s \in SUBSET (1..n)
                 PROVE  it0[s] = IF s = {} THEN base ELSE WriteOff(it0[s \ {Max(s)}], offCounts[Max(s)])
      OBVIOUS
    <3>1. it0[s] = IF s = {} THEN base ELSE st[Max(s)][it0[s \ {Max(s)}]]
      BY <1>8 DEF FoldsUp
    <3>2. s # {} => Max(s) \in 1..n
      BY <1>1, MaxUpTo
    <3>3. s # {} => it0[s \ {Max(s)}] \in W
      BY <1>5, <1>8, <3>2
    <3> QED BY <1>4, <3>1, <3>2, <3>3
  <2>2. it0 = [s \in SUBSET (1..n) |-> it0[s]]
    BY <1>8 DEF FoldsUp
  <2> QED BY <2>1, <2>2
<1> DEFINE it == CHOOSE f : Eq(f)
<1>10. Eq(it)
  <2> HIDE DEF Eq
  <2> QED BY <1>9
<1> HIDE DEF it
<1>11. it[{}] = base
  BY <1>10
<1>12. \A k \in 1..n : it[1..(k - 1)] \in A[k - 1] => it[1..k] = st[k][it[1..(k - 1)]]
  <2> SUFFICES ASSUME NEW k \in 1..n, it[1..(k - 1)] \in A[k - 1] PROVE it[1..k] = st[k][it[1..(k - 1)]]
    OBVIOUS
  <2>1. 1..k \in SUBSET (1..n) /\ 1..k # {} /\ Max(1..k) = k /\ (1..k) \ {k} = 1..(k - 1)
    BY <1>1, MaxUpTo
  <2>2. it[1..k] = WriteOff(it[(1..k) \ {Max(1..k)}], offCounts[Max(1..k)])
    BY <1>10, <2>1
  <2>3. it[1..k] = WriteOff(it[1..(k - 1)], offCounts[k])
    BY <2>1, <2>2
  <2> QED BY <1>4, <1>5, <2>3
<1> HIDE DEF Eq
<1> DEFINE g == [k \in 0..n |-> it[1..k]]
<1>13. Follows(g, n, A, base, st)
  BY <1>1, <1>7, <1>11, <1>12, FoldFollows
<1>14. NodesCounts(counts, offCounts).off = g[n]
  <2>1. g[n] = it[1..n]
    BY <1>1
  <2> QED BY <1>3, <2>1 DEF it
<1> HIDE DEF g
<1>15. \E f : Follows(f, n, A, base, st) /\ NodesCounts(counts, offCounts).off = f[n]
  BY <1>13, <1>14
<1> QED BY <1>15 DEF n, A, W, base, st
(* Rows in any order make a chart of counts on which the official line has *)
(* every hour's greatest number and our line that of a row of the hour.    *)
THEOREM CountsTellRowsAlways ==
  ASSUME NEW counts, NEW offCounts, CountTable(counts, offCounts)
  PROVE  CountsTellRows(counts, offCounts)
<1> DEFINE n == Len(counts)
           m == Len(offCounts)
           H == CountHours(counts, offCounts)
           sent == NodesCounts(counts, offCounts)
           atC == [k \in 1..n |-> Hour(counts[k].stamp)]
           atO == [k \in 1..m |-> Hour(offCounts[k].stamp)]
           valC == [k \in 1..n |-> counts[k].h24 % CountRange]
           valO == [k \in 1..m |-> offCounts[k].active % CountRange]
<1>1. /\ n \in Nat /\ DOMAIN counts = 1..n
      /\ m \in Nat /\ DOMAIN offCounts = 1..m
      /\ \A k \in 1..n : atC[k] \in H
      /\ \A k \in 1..m : atO[k] \in H /\ valO[k] \in Nat
  BY CountsCovered, CountsShort
<1>2. PICK c : /\ Follows(c, n, [k \in 0..n |-> Numbers(counts, offCounts)],
                          Zeroes(counts, offCounts), H24Writes(counts, offCounts))
               /\ sent.h24 = c[n]
  BY H24Folds, Zenon
<1>3. PICK o : /\ Follows(o, m, [k \in 0..m |-> Numbers(counts, offCounts)],
                          Zeroes(counts, offCounts), OffWrites(counts, offCounts))
               /\ sent.off = o[m]
  BY OffFolds, Zenon
<1>4. (\A k \in 0..n : c[k] \in [H -> Nat]) /\ (\A k \in 0..m : o[k] \in [H -> Nat])
  BY <1>2, <1>3 DEF Follows, Numbers
<1>5. (\A h \in H : c[0][h] = 0) /\ (\A h \in H : o[0][h] = 0)
  BY <1>2, <1>3 DEF Follows, Zeroes
<1>6. ASSUME NEW k \in 1..n
      PROVE  \A h \in H : c[k][h] = IF h = atC[k] THEN valC[k] ELSE c[k - 1][h]
  <2> DEFINE old == c[k - 1]
  <2>1. k - 1 \in 0..n /\ old \in [H -> Nat]
    BY <1>4
  <2>2. c[k] = WriteH24(old, counts[k])
    <3>1. c[k] = H24Writes(counts, offCounts)[k][old]
      BY <1>2 DEF Follows
    <3>2. old \in Numbers(counts, offCounts)
      BY <2>1 DEF Numbers
    <3> HIDE DEF old
    <3> QED BY <3>1, <3>2 DEF H24Writes, n
  <2>3. c[k] = [old EXCEPT ![atC[k]] = valC[k]]
    BY <2>2 DEF WriteH24
  <2> HIDE DEF atC, valC, old, H
  <2>4. \A h \in H : c[k][h] = IF h = atC[k] THEN valC[k] ELSE old[h]
    BY <2>1, <2>3
  <2> QED BY <2>4 DEF old
<1>7. ASSUME NEW k \in 1..m
      PROVE  \A h \in H : o[k][h] = IF h = atO[k] THEN Max({valO[k], o[k - 1][h]}) ELSE o[k - 1][h]
  <2> DEFINE old == o[k - 1]
             x == Max({valO[k], old[atO[k]]})
  <2>1. k - 1 \in 0..m /\ old \in [H -> Nat]
    BY <1>4
  <2>2. o[k] = WriteOff(old, offCounts[k])
    <3>1. o[k] = OffWrites(counts, offCounts)[k][old]
      BY <1>3 DEF Follows
    <3>2. old \in Numbers(counts, offCounts)
      BY <2>1 DEF Numbers
    <3> HIDE DEF old
    <3> QED BY <3>1, <3>2 DEF OffWrites, m
  <2>3. o[k] = [old EXCEPT ![atO[k]] = x]
    BY <2>2 DEF WriteOff
  <2> HIDE DEF atO, valO, old, H, x
  <2>4. \A h \in H : o[k][h] = IF h = atO[k] THEN x ELSE old[h]
    BY <2>1, <2>3
  <2> QED BY <2>4 DEF old, x
<1> HIDE DEF n, m, H, atC, atO, valC, valO, sent
<1>8. LastStays(n, H, atC, valC, c)
  BY <1>1, <1>5, <1>6, LastWrites
<1>9. GreatestStays(m, H, atO, valO, o)
  <2>1. \A k \in 0..m : \A h \in H : o[k][h] \in Nat
    BY <1>4
  <2> QED BY <1>1, <1>5, <1>7, <2>1, GreatestWrites
<1>10. sent.off = o[m] /\ sent.h24 = c[n] /\ DOMAIN sent.off = H
  <2>1. m \in 0..m
    BY <1>1
  <2> QED BY <1>2, <1>3, <1>4, <2>1
<1> DEFINE InOff(h) == {r \in Range(offCounts) : Hour(r.stamp) = h}
           InCounts(h) == {r \in Range(counts) : Hour(r.stamp) = h}
<1>11. ASSUME NEW h \in H PROVE sent.off[h] = Max({r.active % CountRange : r \in InOff(h)} \cup {0})
  <2>1. sent.off[h] = Max({valO[i] : i \in {i \in 1..m : atO[i] = h}} \cup {0})
    BY <1>9, <1>10 DEF GreatestStays
  <2>2. {valO[i] : i \in {i \in 1..m : atO[i] = h}} = {r.active % CountRange : r \in InOff(h)}
    BY <1>1 DEF atO, valO, Range
  <2> QED BY <2>1, <2>2
<1>12. ASSUME NEW h \in H
       PROVE  IF InCounts(h) = {} THEN sent.h24[h] = 0
              ELSE sent.h24[h] \in {r.h24 % CountRange : r \in InCounts(h)}
  <2> DEFINE here == {i \in 1..n : atC[i] = h}
  <2>1. sent.h24[h] = IF here = {} THEN 0 ELSE valC[Max(here)]
    BY <1>8, <1>10 DEF LastStays
  <2>2. \A i \in here : counts[i] \in InCounts(h) /\ valC[i] = counts[i].h24 % CountRange
    BY <1>1 DEF atC, valC, Range
  <2>3. InCounts(h) # {} => here # {}
    BY <1>1 DEF atC, Range
  <2>4. here # {} => Max(here) \in here
    <3>1. here \in SUBSET (1..n)
      OBVIOUS
    <3> HIDE DEF here
    <3> QED BY <1>1, <3>1, MaxUpTo
  <2> DEFINE top == Max(here)
  <2> HIDE DEF here, InCounts, top
  <2>5. here # {} => counts[top] \in InCounts(h) /\ sent.h24[h] = counts[top].h24 % CountRange
    BY <2>1, <2>2, <2>4 DEF top
  <2>6. here = {} => sent.h24[h] = 0
    BY <2>1
  <2>7. here # {} => InCounts(h) # {} /\ sent.h24[h] \in {r.h24 % CountRange : r \in InCounts(h)}
    BY <2>5
  <2> QED BY <2>3, <2>6, <2>7
<1> QED BY <1>10, <1>11, <1>12 DEF CountsTellRows, sent
(* So it is on every chart of the run, for any numbers of countries.       *)
THEOREM ChartsTellRowsAlways == Spec => []ChartsTellRows
<1>1. Init => ChartsTellRows
  <2>1. HourSecs \in Nat \ {0} /\ CountRange \in Nat \ {0} /\ FilterN \in Nat /\ MaxCountry \in Nat
    BY ChartsAssumption, BoundsAssumption
  <2>2. ASSUME Init, About("chart") PROVE ChartTellsRows(input.rows)
    <3>1. PICK s \in {0, HourSecs}, d \in {1, 2 * HourSecs}, a \in CountryLists, b \in CountryLists :
            /\ input.rows = <<[stamp |-> s, countries |-> a], [stamp |-> s + d, countries |-> b]>>
            /\ Len(a) >= FilterN /\ Len(b) >= FilterN
      <4>1. input \in Charts
        BY <2>2, InputKinds
      <4> QED BY <4>1 DEF Charts
    <3>2. ASSUME NEW l \in CountryLists PROVE CountryList(l) /\ l \in Seq(Countries)
      <4>1. PICK n \in 0..MaxCountry : l \in [1..n -> [code : 1..MaxCountry, count : {1, 2}]]
        BY DEF CountryLists
      <4>2. n \in Nat /\ [code : 1..MaxCountry, count : {1, 2}] \subseteq Countries
        BY <2>1 DEF Countries
      <4>3. l \in [1..n -> Countries]
        BY <4>1, <4>2
      <4>4. l \in Seq(Countries)
        <5> HIDE DEF Countries
        <5> QED BY <4>2, <4>3
      <4>5. \A i, j \in DOMAIN l : i < j => l[i].code < l[j].code
        BY DEF CountryLists
      <4> QED BY <4>4, <4>5 DEF CountryList
    <3>3. s \in Nat /\ s + d \in Nat /\ Len(a) \in Nat /\ Len(b) \in Nat
      <4>1. s \in Nat /\ d \in Nat
        BY <2>1
      <4>2. a \in Seq(Countries) /\ b \in Seq(Countries)
        BY <3>2
      <4> QED BY <4>1, <4>2
    <3> DEFINE R == [stamp : Nat, countries : Seq(Countries)]
               x == [stamp |-> s, countries |-> a]
               y == [stamp |-> s + d, countries |-> b]
    <3>4. x \in R /\ y \in R
      BY <3>2, <3>3
    <3>5. x.countries = a /\ y.countries = b
      OBVIOUS
    <3>6. input.rows = <<x, y>>
      BY <3>1
    <3> HIDE DEF R, x, y
    <3>7. input.rows \in Seq(R) /\ DOMAIN input.rows = {1, 2} /\ input.rows[1] = x /\ input.rows[2] = y
      BY <3>4, <3>6
    <3>8. \A i \in DOMAIN input.rows : /\ CountryList(input.rows[i].countries)
                                       /\ FilterN <= Len(input.rows[i].countries)
      <4>1. CountryList(a) /\ CountryList(b) /\ FilterN <= Len(a) /\ FilterN <= Len(b)
        BY <2>1, <3>1, <3>2, <3>3
      <4> QED BY <3>5, <3>7, <4>1
    <3>9. ChartRows(input.rows)
      BY <3>7, <3>8 DEF ChartRows, R
    <3> QED BY <3>8, <3>9, ChartTellsRowsAlways
  <2>3. ASSUME Init, About("counts") PROVE CountsTellRows(input.counts, input.off)
    <3>1. /\ input.counts \in UNION {[1..n -> CountRows] : n \in 0..2}
          /\ input.off \in UNION {[1..n -> OffRows] : n \in 0..2}
      <4>1. input \in CountTables
        BY <2>3, InputKinds
      <4> QED BY <4>1 DEF CountTables
    <3>2. CountRows \subseteq [stamp : Nat, h24 : Nat] /\ OffRows \subseteq [stamp : Nat, active : Nat]
      <4>1. /\ {0, 1, HourSecs} \subseteq Nat /\ {0, 2, CountRange - 1} \subseteq Nat
            /\ {1, HourSecs, 2 * HourSecs} \subseteq Nat /\ {0, 1, 3, CountRange + 2} \subseteq Nat
        BY <2>1
      <4> QED BY <4>1 DEF CountRows, OffRows
    <3>3. input.counts \in Seq([stamp : Nat, h24 : Nat])
      <4> DEFINE T == [stamp : Nat, h24 : Nat]
      <4>1. PICK n \in 0..2 : input.counts \in [1..n -> CountRows]
        BY <3>1
      <4>2. n \in Nat /\ CountRows \subseteq T
        BY <3>2
      <4> HIDE DEF T
      <4>3. input.counts \in [1..n -> T]
        BY <4>1, <4>2
      <4>4. input.counts \in Seq(T)
        BY <4>2, <4>3
      <4> QED BY <4>4 DEF T
    <3>4. input.off \in Seq([stamp : Nat, active : Nat])
      <4> DEFINE T == [stamp : Nat, active : Nat]
      <4>1. PICK n \in 0..2 : input.off \in [1..n -> OffRows]
        BY <3>1
      <4>2. n \in Nat /\ OffRows \subseteq T
        BY <3>2
      <4> HIDE DEF T
      <4>3. input.off \in [1..n -> T]
        BY <4>1, <4>2
      <4>4. input.off \in Seq(T)
        BY <4>2, <4>3
      <4> QED BY <4>4 DEF T
    <3> QED BY <3>3, <3>4, CountsTellRowsAlways DEF CountTable
  <2> QED BY <2>2, <2>3 DEF ChartsTellRows
<1>2. ChartsTellRows /\ UNCHANGED input => ChartsTellRows'
  BY DEF ChartsTellRows, About
<1> QED BY <1>1, <1>2, PTL DEF Spec, Next
=============================================================================
