---------------------------- MODULE DeclusterProofs ----------------------------
(***************************************************************************)
(* Proofs about Decluster, for all attributes of a steady port and any     *)
(* step of the reading cluster: the port implements the delayed signal,    *)
(* and its buffer and its interpolator are ready for every read.           *)
(***************************************************************************)
EXTENDS Decluster, ProofFacts

-------------------------------------------------------------------------------
(* Numbers *)

\* n steps of t.
Times(n, t) == n * t

\* Times is kept opaque: the provers see it through these lemmas.
LEMMA TimesType ==
  ASSUME NEW n \in Nat, NEW t \in Nat
  PROVE  Times(n, t) \in Nat
BY TimesNat DEF Times

LEMMA TimesSum ==
  ASSUME NEW a \in Int, NEW b \in Int, NEW t \in Int
  PROVE  Times(a + b, t) = Times(a, t) + Times(b, t) /\ Times(a, t) \in Int
BY DEF Times

LEMMA TimesSums ==
  ASSUME NEW a \in Int, NEW b \in Int, NEW c \in Int, NEW t \in Int
  PROVE  /\ Times(a + b + c, t) = Times(a, t) + Times(b, t) + Times(c, t)
         /\ Times(a, t) \in Int /\ Times(b, t) \in Int /\ Times(c, t) \in Int
BY DEF Times

LEMMA TimesNext ==
  ASSUME NEW n \in Int, NEW t \in Int
  PROVE  Times(n + 1, t) = Times(n, t) + t /\ Times(n, t) \in Int
BY DEF Times

LEMMA TimesFew ==
  ASSUME NEW t \in Int
  PROVE  Times(0, t) = 0 /\ Times(1, t) = t
BY DEF Times

LEMMA TimesOrder ==
  ASSUME NEW a \in Int, NEW b \in Int, NEW t \in Nat, a <= b
  PROVE  Times(a, t) <= Times(b, t)
<1>1. b - a \in Nat /\ b = a + (b - a)
  OBVIOUS
<1>2. Times(b - a, t) \in Nat
  BY <1>1, TimesType
<1>3. Times(b, t) = Times(a, t) + Times(b - a, t) /\ Times(a, t) \in Int
  <2>1. \A d \in Int : Times(a + d, t) = Times(a, t) + Times(d, t) /\ Times(a, t) \in Int
    BY TimesSum
  <2>2. QED BY <1>1, <2>1
<1>4. QED BY <1>2, <1>3

\* A multiple leaves no remainder.
LEMMA ModMultiple ==
  ASSUME NEW m \in Int, NEW n \in Nat \ {0}
  PROVE  (n * m) % n = 0
<1> DEFINE a == n * m  q == a \div n  r == a % n
<1>1. a \in Int
  OBVIOUS
<1>2. a = n * q + r /\ r \in 0..n-1 /\ q \in Int
  <2> HIDE DEF a
  <2>1. QED BY <1>1, DivMod
<1> HIDE DEF q, r
<1>3. r = n * (m - q)
  BY <1>2
<1>4. CASE m - q >= 1
  BY <1>2, <1>3, <1>4
<1>5. CASE m - q <= -1
  BY <1>2, <1>3, <1>5
<1>6. CASE m = q
  BY <1>2, <1>3, <1>6
<1>7. QED BY <1>2, <1>4, <1>5, <1>6 DEF r

-------------------------------------------------------------------------------
(* The elements of a ring buffer *)

\* The element of a ring of n elements at which position k is.
Slot(k, n) == k % n

\* Position a is d rounds behind position b.
RoundsBehind(a, b, d, n) == a = b + n * d

\* Positions whole rounds apart are at the same element.
LEMMA SlotRounds ==
  ASSUME NEW a \in Int, NEW b \in Int, NEW d \in Int, NEW n \in Nat \ {0}, RoundsBehind(a, b, d, n)
  PROVE  Slot(a, n) = Slot(b, n)
<1> DEFINE p == a \div n  r == a % n  q == b \div n  s == b % n
<1>1. a = n * p + r /\ b = n * q + s /\ p \in Int /\ q \in Int /\ r \in 0..n-1 /\ s \in 0..n-1
  BY DivMod
<1> HIDE DEF p, q, r, s
<1>2. PICK e \in Int : e = q + d - p
  BY <1>1
<1>3. r - s = n * e
  BY <1>1, <1>2 DEF RoundsBehind
<1>4. ~(e >= 1)
  BY <1>1, <1>3
<1>5. ~(e <= -1)
  BY <1>1, <1>3
<1>6. e = 0 => r = s
  BY <1>1, <1>3
<1>7. r = s
  BY <1>2, <1>4, <1>5, <1>6
<1>8. QED BY <1>7 DEF r, s, Slot

LEMMA SlotIs ==
  ASSUME NEW n \in Nat \ {0}, NEW k \in Int
  PROVE  Slot(k, n) \in 0..n-1
BY DivMod DEF Slot

LEMMA SlotSmall ==
  ASSUME NEW a \in Nat, NEW n \in Nat \ {0}, a < n
  PROVE  Slot(a, n) = a
BY SmallMod DEF Slot

\* How far behind position b an element is.
LEMMA SlotDistance ==
  ASSUME NEW a \in Int, NEW b \in Int, NEW n \in Nat \ {0}, 0 <= a - b, a - b < n
  PROVE  Slot(Slot(a, n) - b, n) = a - b
<1> DEFINE q == a \div n  r == a % n
<1>1. a = n * q + r /\ q \in Int /\ r \in Int
  BY DivMod
<1> HIDE DEF q, r
<1> DEFINE x == a - b  y == r - b
<1>2. x \in Nat /\ x \in Int /\ y \in Int /\ RoundsBehind(x, y, q, n)
  BY <1>1 DEF RoundsBehind
<1>3. Slot(x, n) = Slot(y, n)
  <2> HIDE DEF x, y
  <2>1. QED BY <1>1, <1>2, SlotRounds
<1>4. Slot(x, n) = x
  BY <1>2, SlotSmall
<1>5. Slot(a, n) = r
  BY DEF Slot, r
<1>6. QED BY <1>3, <1>4, <1>5

\* How far an element before position b is behind it, once around the ring.
LEMMA SlotAround ==
  ASSUME NEW a \in Int, NEW b \in Int, NEW n \in Nat \ {0}, a < b, b - a <= n
  PROVE  Slot(Slot(a, n) - b, n) = n - (b - a)
<1> DEFINE q == a \div n  r == a % n
<1>1. a = n * q + r /\ q \in Int /\ r \in Int
  BY DivMod
<1> HIDE DEF q, r
<1> DEFINE x == n - (b - a)  y == r - b  p == q + 1
<1>2. x \in Nat /\ x \in Int /\ x < n /\ y \in Int /\ p \in Int /\ RoundsBehind(x, y, p, n)
  BY <1>1 DEF RoundsBehind
<1>3. Slot(x, n) = Slot(y, n)
  <2> HIDE DEF x, y, p
  <2>1. QED BY <1>2, SlotRounds
<1>4. Slot(x, n) = x
  BY <1>2, SlotSmall
<1>5. Slot(a, n) = r
  BY DEF Slot, r
<1>6. QED BY <1>3, <1>4, <1>5
-------------------------------------------------------------------------------
(* Configurations *)

\* Only rate and calls may differ.
SameSignal(c, d) == /\ c.cut = d.cut /\ c.delay = d.delay
                    /\ c.ct_delay = d.ct_delay /\ c.timestep = d.timestep

\* The delays do not depend on rate and calls.
LEMMA SameDelays ==
  ASSUME NEW c, NEW d, SameSignal(c, d)
  PROVE  /\ SampleDelay(c) = SampleDelay(d) /\ RemainingDelay(c) = RemainingDelay(d)
         /\ OverallDelay(c) = OverallDelay(d)
BY DEF SameSignal, SampleDelay, RemainingDelay, OverallDelay, AheadSamples

LEMMA OverallNat ==
  ASSUME NEW c \in Configs
  PROVE  OverallDelay(c) \in Nat /\ c.timestep \in Nat \ {0}
<1>1. c.delay \in Nat /\ c.ct_delay \in Nat /\ c.timestep \in Nat \ {0}
  BY DEF Configs
<1>2. c.delay * c.timestep \in Nat
  BY <1>1, TimesNat
<1>3. QED BY <1>1, <1>2 DEF OverallDelay

\* The delay is the samples in the buffer and the rest, one step or more for a line.
LEMMA DelayParts ==
  ASSUME NEW c \in Configs, EnoughDelay(c)
  PROVE  /\ SampleDelay(c) \in Nat /\ RemainingDelay(c) \in Nat
         /\ OverallDelay(c) = Times(SampleDelay(c), c.timestep) + RemainingDelay(c)
         /\ c.cut = "dt" => RemainingDelay(c) < c.timestep
         /\ c.cut = "ct" => RemainingDelay(c) >= c.timestep
<1> DEFINE o == OverallDelay(c)  t == c.timestep  q == o \div t  r == o % t  a == AheadSamples(c)
<1>1. o \in Nat /\ t \in Nat \ {0}
  BY OverallNat
<1>2. o = t * q + r /\ r \in 0..t-1 /\ q \in Int
  <2> HIDE DEF o, t
  <2>1. QED BY <1>1, DivMod
<1>3. SampleDelay(c) = q - a /\ RemainingDelay(c) = r + a * t
  BY DEF SampleDelay, RemainingDelay
<1>4. (c.cut = "dt" /\ a = 0) \/ (c.cut = "ct" /\ a = 1 /\ o >= t)
  <2>1. c.cut \in {"dt", "ct"}
    BY DEF Configs
  <2>2. QED BY <2>1 DEF AheadSamples, EnoughDelay, OverallDelay
<1> HIDE DEF o, t, q, r, a
<1>5. q >= 0
  <2>1. SUFFICES ASSUME q <= -1 PROVE FALSE
    BY <1>2
  <2>2. t * q <= -t
    BY <1>1, <1>2, <2>1
  <2>3. QED BY <1>1, <1>2, <2>2
<1>6. o >= t => q >= 1
  <2>1. SUFFICES ASSUME q <= 0, o >= t PROVE FALSE
    BY <1>2
  <2>2. t * q <= 0
    BY <1>1, <1>2, <2>1
  <2>3. QED BY <1>1, <1>2, <2>1, <2>2
<1>7. q - a \in Nat /\ a * t \in Nat /\ (q - a) * t + a * t = t * q
  BY <1>1, <1>2, <1>4, <1>5, <1>6
<1>8. (c.cut = "dt" => a * t = 0) /\ (c.cut = "ct" => a * t = t)
  BY <1>1, <1>4
<1>9. QED BY <1>1, <1>2, <1>3, <1>7, <1>8 DEF Times, o, t

\* A ct_delay of whole timesteps leaves the one a line is ahead.
LEMMA WholeDelay ==
  ASSUME NEW c \in Configs, c.cut = "ct", c.ct_delay % c.timestep = 0
  PROVE  RemainingDelay(c) = c.timestep
<1> DEFINE t == c.timestep  k == c.ct_delay \div t  d == c.delay  e == c.ct_delay  o == OverallDelay(c)
<1>1. t \in Nat \ {0} /\ d \in Nat /\ e \in Nat /\ e % t = 0
  BY DEF Configs
<1>2. e = t * k + 0 /\ k \in Int
  <2> HIDE DEF t, e
  <2>1. e = t * (e \div t) + (e % t) /\ e \div t \in Int
    BY <1>1, DivMod
  <2>2. QED BY <1>1, <2>1 DEF e
<1>3. o = d * t + e
  BY DEF OverallDelay
<1>4. RemainingDelay(c) = (o % t) + 1 * t
  BY DEF RemainingDelay, AheadSamples
<1> HIDE DEF t, k, d, e, o
<1>5. o = t * (d + k) /\ d + k \in Int
  BY <1>1, <1>2, <1>3
<1>6. o % t = 0
  BY <1>1, <1>5, ModMultiple
<1>7. QED BY <1>1, <1>4, <1>6 DEF t

\* The buffer holds a period and the samples of the delay.
LEMMA Sizes ==
  ASSUME NEW c \in Configs, EnoughDelay(c)
  PROVE  /\ Samples(c) \in Nat \ {0} /\ Samples(c) = Times(c.calls, c.rate)
         /\ BufferSize(c) = SampleDelay(c) + Samples(c) /\ BufferSize(c) \in Nat \ {0}
         /\ c.rate \in Nat \ {0} /\ c.calls \in Nat \ {0} /\ c.timestep \in Nat \ {0}
<1>1. c.rate \in Nat \ {0} /\ c.calls \in Nat \ {0} /\ c.timestep \in Nat \ {0}
  BY DEF Configs
<1>2. Samples(c) = Times(c.calls, c.rate) /\ Samples(c) \in Nat \ {0}
  BY <1>1 DEF Samples, Times
<1>3. SampleDelay(c) \in Nat
  BY DelayParts
<1>4. QED BY <1>1, <1>2, <1>3 DEF BufferSize
-------------------------------------------------------------------------------
(* Points *)

Points == [due : Int, value : CutValues]

\* g is n elements of S; f is h and these behind it.
IsList(g, n, S) == HasLen(g, n) /\ \A i \in 1..n : g[i] \in S

IsJoin(f, h, g, n, S) ==
  /\ f \in Seq(S) /\ Len(f) = Len(h) + n
  /\ \A i \in 1..Len(h) : f[i] = h[i]
  /\ \A i \in 1..n : f[Len(h) + i] = g[i]
  /\ SubSeq(f, 1, Len(h)) = h

\* Appending keeps what was there, in front of what is new.
LEMMA JoinIs ==
  ASSUME NEW S, NEW h \in Seq(S), NEW n \in Nat, NEW g, IsList(g, n, S)
  PROVE  IsJoin(h \o g, h, g, n, S)
<1>0. HasLen(g, n) /\ \A i \in 1..n : g[i] \in S
  BY DEF IsList
<1>1. g \in Seq(S) /\ Len(g) = n
  <2> DEFINE U == {g[i] : i \in 1..n}
  <2>1. g \in Seq(U) /\ Len(g) = n
    BY <1>0, IsSequence
  <2>2. U \subseteq S
    BY <1>0
  <2> HIDE DEF U
  <2>3. QED BY <2>1, <2>2, SeqMonotonic
<1>2. Len(h) \in Nat /\ HasLen(h, Len(h))
  BY DEF HasLen
<1> DEFINE m == Len(h)  f == h \o g
<1>3. /\ f \in Seq(S) /\ Len(f) = m + n
      /\ \A i \in 1..m + n : f[i] = IF i <= m THEN h[i] ELSE g[i - m]
  BY <1>1, ConcatProperties
<1> HIDE DEF m, f
<1>4. m \in Nat /\ HasLen(h, m)
  BY <1>2 DEF m
<1>5. \A i \in 1..m : f[i] = h[i]
  BY <1>3, <1>4
<1>6. \A i \in 1..n : f[m + i] = g[i]
  BY <1>3, <1>4
<1>7. SubSeq(f, 1, m) = h
  <2>1. PICK a \in Int : a = 1
    OBVIOUS
  <2>2. \A i \in 1..m : h[i] = f[a + i - 1]
    <3>1. \A i \in 1..m : a + i - 1 = i
      BY <2>1
    <3>2. QED BY <1>5, <3>1
  <2>3. m = m - a + 1 /\ m \in Int
    BY <1>4, <2>1
  <2>4. SubSeq(f, a, m) = h
    BY <1>4, <2>2, <2>3, SubSeqIs
  <2>5. QED BY <2>1, <2>4
<1>8. QED BY <1>3, <1>5, <1>6, <1>7 DEF m, f, IsJoin

LEMMA SamplesAreInt ==
  ASSUME Scale \in Nat \ {0}, NEW n \in Int
  PROVE  SampleValue(n) \in CutValues /\ PresetValue(n) \in CutValues
<1>1. Scale * n * n \in Int /\ -(Scale * (n + 1)) \in Int
  OBVIOUS
<1>2. QED BY <1>1 DEF SampleValue, PresetValue, CutValues

LEMMA FirstValueIs ==
  ASSUME Scale \in Nat \ {0}, NEW s, s.initial \in CutValues, s.start \in Configs
  PROVE  FirstValue(s) \in CutValues
<1>1. s.start.cut \in {"dt", "ct"}
  BY DEF Configs
<1>2. 0 \in CutValues /\ PresetValue(0) \in CutValues
  BY SamplesAreInt DEF CutValues
<1>3. QED BY <1>1, <1>2 DEF FirstValue

\* The points of the signal before the first call.
LEMMA StartIs ==
  ASSUME Scale \in Nat \ {0}, NEW s, s.initial \in CutValues, s.start \in Configs,
         EnoughDelay(s.start)
  PROVE  LET c == s.start
             h == StartPoints(s)
         IN /\ h \in Seq(Points) /\ Len(h) = 1 + SampleDelay(c)
            /\ h[1] = [due |-> IF c.cut = "dt" THEN -1 ELSE 0, value |-> FirstValue(s)]
            /\ \A i \in 1..SampleDelay(c) :
                 /\ h[1 + i].due = Times(i - 1, c.timestep) + RemainingDelay(c)
                 /\ h[1 + i].value = LET n == i - 1 - (SampleDelay(c) - c.delay)
                                     IN IF s.preset /\ n >= 0 THEN PresetValue(n) ELSE Uninitialized
<1> DEFINE c == s.start  d == SampleDelay(c)
           p == [due |-> IF c.cut = "dt" THEN -1 ELSE 0, value |-> FirstValue(s)]
           Value(i) == LET n == i - 1 - (d - c.delay)
                       IN IF s.preset /\ n >= 0 THEN PresetValue(n) ELSE Uninitialized
           Due(i) == (i - 1) * c.timestep + RemainingDelay(c)
           g == [i \in 1..d |-> [due |-> Due(i), value |-> Value(i)]]
<1>1. d \in Nat /\ RemainingDelay(c) \in Nat /\ c.timestep \in Nat /\ c.delay \in Nat
  BY DelayParts DEF Configs
<1>2. StartPoints(s) = <<p>> \o g
  BY DEF StartPoints
<1>3. p \in Points
  BY FirstValueIs DEF Points
<1>4. ASSUME NEW i \in 1..d
      PROVE  Due(i) \in Int /\ Value(i) \in CutValues /\ Due(i) = Times(i - 1, c.timestep) + RemainingDelay(c)
  <2>1. Due(i) \in Int
    BY <1>1
  <2>2. i - 1 - (d - c.delay) \in Int
    BY <1>1
  <2>3. Value(i) \in CutValues
    BY <2>2, SamplesAreInt DEF CutValues
  <2>4. QED BY <2>1, <2>3 DEF Times
<1> HIDE DEF p, d, c, Due, Value
<1>5. HasLen(g, d) /\ \A i \in 1..d : g[i] = [due |-> Due(i), value |-> Value(i)]
  BY DEF HasLen
<1> HIDE DEF g
<1>6. ASSUME NEW i \in 1..d
      PROVE  g[i] \in Points /\ g[i].due = Due(i) /\ g[i].value = Value(i)
  <2>1. Due(i) \in Int /\ Value(i) \in CutValues /\ g[i] = [due |-> Due(i), value |-> Value(i)]
    BY <1>4, <1>5
  <2> HIDE DEF g
  <2>2. QED BY <2>1 DEF Points
<1>7. <<p>> \in Seq(Points) /\ Len(<<p>>) = 1 /\ <<p>>[1] = p
  BY <1>3
<1> DEFINE f == <<p>>  h == f \o g
<1> HIDE DEF f
<1>8. /\ h \in Seq(Points) /\ Len(h) = 1 + d
      /\ \A i \in 1..1 : h[i] = f[i]
      /\ \A i \in 1..d : h[1 + i] = g[i]
  <2>1. f \in Seq(Points) /\ Len(f) = 1 /\ f[1] = p
    BY <1>7 DEF f
  <2>2. IsList(g, d, Points)
    BY <1>5, <1>6 DEF IsList
  <2>3. IsJoin(f \o g, f, g, d, Points)
    BY <1>1, <2>1, <2>2, JoinIs
  <2>4. QED BY <2>1, <2>3 DEF IsJoin
<1>9. h[1] = p
  BY <1>7, <1>8 DEF f
<1> HIDE DEF h
<1>10. StartPoints(s) = h
  BY <1>2 DEF h, f
<1>11. \A i \in 1..d : h[1 + i].due = Times(i - 1, c.timestep) + RemainingDelay(c) /\ h[1 + i].value = Value(i)
  BY <1>4, <1>6, <1>8
<1>12. QED BY <1>8, <1>9, <1>10, <1>11 DEF p, d, c, Value
-------------------------------------------------------------------------------
(* The samples waiting in the buffer *)

\* The len samples from position pos on are the points of h behind the first taken + 1.
Holds(buf, pos, n, h, taken, len) ==
  \A k \in 0..len - 1 : buf[Slot(pos + k, n)] = h[taken + 2 + k].value

\* What a call of the module makes of a buffer: r samples behind position end.
AfterCall(buf, end, n, r, made) ==
  [i \in 0..n - 1 |-> IF Slot(i - end, n) < r THEN SampleValue(made + Slot(i - end, n) + 1) ELSE buf[i]]

\* A call leaves the buffer a buffer.
LEMMA AfterCallType ==
  ASSUME Scale \in Nat \ {0}, NEW n \in Nat \ {0}, NEW buf \in [0..n - 1 -> CutValues],
         NEW end \in Int, NEW r, NEW made \in Int
  PROVE  AfterCall(buf, end, n, r, made) \in [0..n - 1 -> CutValues]
<1>1. ASSUME NEW i \in 0..n - 1
      PROVE  SampleValue(made + Slot(i - end, n) + 1) \in CutValues /\ buf[i] \in CutValues
  <2>1. i - end \in Int
    OBVIOUS
  <2>2. Slot(i - end, n) \in 0..n-1
    BY <2>1, SlotIs
  <2>3. made + Slot(i - end, n) + 1 \in Int
    BY <2>2
  <2>4. QED BY <2>3, SamplesAreInt
<1>2. QED BY <1>1 DEF AfterCall

\* Behind the samples that wait a call puts its own, and overwrites none of them.
LEMMA HoldsCall ==
  ASSUME NEW n \in Nat \ {0}, NEW buf, NEW pos \in Nat, NEW len \in Nat, NEW taken \in Nat,
         NEW r \in Nat, len + r <= n, NEW made \in Nat,
         NEW h, NEW g, NEW f, IsJoin(f, h, g, r, Points), Len(h) = taken + 1 + len,
         \A m \in 1..r : g[m].value = SampleValue(made + m),
         Holds(buf, pos, n, h, taken, len)
  PROVE  Holds(AfterCall(buf, pos + len, n, r, made), pos, n, f, taken, len + r)
<1> DEFINE new == AfterCall(buf, pos + len, n, r, made)
<1>1. \A i \in 0..n - 1 :
        new[i] = IF Slot(i - (pos + len), n) < r THEN SampleValue(made + Slot(i - (pos + len), n) + 1)
                 ELSE buf[i]
  BY DEF AfterCall
<1> HIDE DEF new
<1>2. ASSUME NEW k \in 0..len + r - 1
      PROVE  new[Slot(pos + k, n)] = f[taken + 2 + k].value
  <2> DEFINE a == pos + k  b == pos + len
  <2>1. a \in Int /\ b \in Int /\ k \in Int
    OBVIOUS
  <2>2. Slot(a, n) \in 0..n-1
    BY <2>1, SlotIs
  <2>3. new[Slot(a, n)] = IF Slot(Slot(a, n) - b, n) < r THEN SampleValue(made + Slot(Slot(a, n) - b, n) + 1)
                          ELSE buf[Slot(a, n)]
    BY <1>1, <2>2
  <2>4. CASE k < len
    <3>1. a < b /\ b - a <= n /\ n - (b - a) >= r
      BY <2>4
    <3>2. Slot(Slot(a, n) - b, n) = n - (b - a)
      <4> HIDE DEF a, b
      <4>1. QED BY <2>1, <3>1, SlotAround
    <3>3. new[Slot(a, n)] = buf[Slot(a, n)]
      <4> HIDE DEF a, b
      <4>1. ~(n - (b - a) < r)
        BY <3>1, <2>1
      <4>2. QED BY <2>3, <3>2, <4>1
    <3>4. buf[Slot(a, n)] = h[taken + 2 + k].value /\ taken + 2 + k \in 1..Len(h)
      BY <2>4 DEF Holds
    <3>5. f[taken + 2 + k] = h[taken + 2 + k]
      BY <3>4 DEF IsJoin
    <3>6. QED BY <3>3, <3>4, <3>5
  <2>5. CASE k >= len
    <3>1. 0 <= a - b /\ a - b < n /\ a - b = k - len /\ k - len < r
      BY <2>5
    <3>2. Slot(Slot(a, n) - b, n) = k - len
      <4> HIDE DEF a, b
      <4>1. Slot(Slot(a, n) - b, n) = a - b
        BY <2>1, <3>1, SlotDistance
      <4>2. QED BY <3>1, <4>1
    <3>3. new[Slot(a, n)] = SampleValue(made + (k - len) + 1)
      <4> HIDE DEF a, b
      <4>1. QED BY <2>3, <3>1, <3>2
    <3>4. PICK m \in 1..r : m = k - len + 1
      BY <3>1, <2>5
    <3>5. f[Len(h) + m] = g[m] /\ g[m].value = SampleValue(made + m)
      BY <3>4 DEF IsJoin
    <3>6. Len(h) + m = taken + 2 + k /\ made + (k - len) + 1 = made + m
      BY <3>4
    <3>7. QED BY <3>3, <3>5, <3>6
  <2>6. QED BY <2>1, <2>4, <2>5
<1>3. QED BY <1>2 DEF Holds, new

\* The first sample that waits is the next point of the signal.
LEMMA HoldsTake ==
  ASSUME NEW n \in Nat \ {0}, NEW buf, NEW pos \in Nat, NEW len \in Nat \ {0}, NEW taken \in Nat,
         NEW h, Holds(buf, pos, n, h, taken, len)
  PROVE  /\ buf[Slot(pos, n)] = h[taken + 2].value
         /\ Holds(buf, pos + 1, n, h, taken + 1, len - 1)
<1>1. buf[Slot(pos, n)] = h[taken + 2].value
  <2>1. 0 \in 0..len-1 /\ pos + 0 = pos /\ taken + 2 + 0 = taken + 2
    OBVIOUS
  <2>2. QED BY <2>1 DEF Holds
<1>2. ASSUME NEW k \in 0..(len - 1) - 1
      PROVE  buf[Slot(pos + 1 + k, n)] = h[taken + 1 + 2 + k].value
  <2>1. k + 1 \in 0..len-1 /\ pos + 1 + k = pos + (k + 1) /\ taken + 1 + 2 + k = taken + 2 + (k + 1)
    OBVIOUS
  <2>2. QED BY <2>1 DEF Holds
<1>3. QED BY <1>1, <1>2 DEF Holds

\* A new buffer of m elements that continues at position first.
Moved(buf, pos, n, first, m, len) ==
  [i \in 0..m - 1 |-> IF Slot(i - first, m) < len THEN buf[Slot(pos + Slot(i - first, m), n)] ELSE 0]

LEMMA MovedType ==
  ASSUME NEW n \in Nat \ {0}, NEW buf \in [0..n - 1 -> CutValues], NEW pos \in Nat,
         NEW m \in Nat \ {0}, NEW first \in Nat, NEW len
  PROVE  Moved(buf, pos, n, first, m, len) \in [0..m - 1 -> CutValues]
<1>1. ASSUME NEW i \in 0..m - 1
      PROVE  buf[Slot(pos + Slot(i - first, m), n)] \in CutValues
  <2>1. i - first \in Int
    OBVIOUS
  <2>2. Slot(i - first, m) \in 0..m-1
    BY <2>1, SlotIs
  <2>3. pos + Slot(i - first, m) \in Int
    BY <2>2
  <2>4. Slot(pos + Slot(i - first, m), n) \in 0..n-1
    BY <2>3, SlotIs
  <2>5. QED BY <2>4
<1>2. 0 \in CutValues
  BY DEF CutValues
<1>3. QED BY <1>1, <1>2 DEF Moved

\* Moving keeps the samples that wait, in their order.
LEMMA HoldsMoved ==
  ASSUME NEW n \in Nat \ {0}, NEW buf, NEW pos \in Nat, NEW len \in Nat, NEW taken \in Nat,
         NEW m \in Nat \ {0}, NEW first \in Nat, len <= m,
         NEW h, Holds(buf, pos, n, h, taken, len)
  PROVE  Holds(Moved(buf, pos, n, first, m, len), first, m, h, taken, len)
<1> DEFINE new == Moved(buf, pos, n, first, m, len)
<1>1. \A i \in 0..m - 1 :
        new[i] = IF Slot(i - first, m) < len THEN buf[Slot(pos + Slot(i - first, m), n)] ELSE 0
  BY DEF Moved
<1> HIDE DEF new
<1>2. ASSUME NEW k \in 0..len - 1
      PROVE  new[Slot(first + k, m)] = h[taken + 2 + k].value
  <2> DEFINE a == first + k
  <2>1. a \in Int /\ 0 <= a - first /\ a - first < m /\ a - first = k
    OBVIOUS
  <2> HIDE DEF a
  <2>2. Slot(a, m) \in 0..m-1
    BY <2>1, SlotIs
  <2>3. Slot(Slot(a, m) - first, m) = k
    <3>1. Slot(Slot(a, m) - first, m) = a - first
      BY <2>1, SlotDistance
    <3>2. QED BY <2>1, <3>1
  <2>4. new[Slot(a, m)] = buf[Slot(pos + k, n)]
    BY <1>1, <2>2, <2>3
  <2>5. QED BY <2>4 DEF Holds, a
<1>3. QED BY <1>2 DEF Holds, new
-------------------------------------------------------------------------------
(* The points of the signal *)

Due(j, c) == Times(j - 2, c.timestep) + RemainingDelay(c)

\* When the points of h are due.
Dues(h, c) == /\ h[1].due = IF c.cut = "dt" THEN -1 ELSE 0
              /\ \A j \in 2..Len(h) : h[j].due = Due(j, c)

LEMMA DueNext ==
  ASSUME NEW c \in Configs, EnoughDelay(c), NEW j \in Int
  PROVE  Due(j, c) \in Int /\ Due(j + 1, c) = Due(j, c) + c.timestep
<1> DEFINE k == j - 2  t == c.timestep
<1>1. t \in Int /\ RemainingDelay(c) \in Nat /\ k \in Int /\ j + 1 - 2 = k + 1
  BY DelayParts DEF Configs
<1>2. Times(k + 1, t) = Times(k, t) + t /\ Times(k, t) \in Int
  <2> HIDE DEF k, t
  <2>1. QED BY <1>1, TimesNext
<1>3. QED BY <1>1, <1>2 DEF Due

LEMMA DueOrder ==
  ASSUME NEW c \in Configs, EnoughDelay(c), NEW i \in Int, NEW j \in Int, i <= j
  PROVE  Due(i, c) <= Due(j, c)
<1>1. c.timestep \in Nat /\ RemainingDelay(c) \in Nat /\ i - 2 \in Int /\ j - 2 \in Int /\ i - 2 <= j - 2
  BY DelayParts DEF Configs
<1>2. Times(i - 2, c.timestep) <= Times(j - 2, c.timestep)
  BY <1>1, TimesOrder
<1>3. Times(i - 2, c.timestep) \in Int /\ Times(j - 2, c.timestep) \in Int
  BY <1>1 DEF Times
<1>4. QED BY <1>1, <1>2, <1>3 DEF Due

LEMMA DueTwo ==
  ASSUME NEW c \in Configs, EnoughDelay(c)
  PROVE  Due(2, c) = RemainingDelay(c) /\ (c.cut = "ct" => Due(2, c) > 0) /\ RemainingDelay(c) \in Nat
<1>1. 2 - 2 = 0 /\ c.timestep \in Nat \ {0} /\ RemainingDelay(c) \in Nat
  BY DelayParts DEF Configs
<1>2. Times(0, c.timestep) = 0
  BY <1>1, TimesFew
<1>3. QED BY <1>1, <1>2, DelayParts DEF Due

\* Each point is due later than the one before.
LEMMA DuesOrdered ==
  ASSUME NEW c \in Configs, EnoughDelay(c), NEW h \in Seq(Points), Dues(h, c),
         NEW i \in 1..Len(h), NEW j \in 1..Len(h), i < j
  PROVE  h[i].due < h[j].due /\ h[i].due \in Int /\ h[j].due \in Int
<1>1. j \in 2..Len(h) /\ i + 1 \in Int /\ i \in Int /\ j \in Int
  OBVIOUS
<1>2. h[j].due = Due(j, c) /\ Due(j, c) \in Int
  BY <1>1, DueNext DEF Dues
<1>3. CASE i >= 2
  <2>1. h[i].due = Due(i, c) /\ Due(i, c) \in Int /\ Due(i + 1, c) = Due(i, c) + c.timestep
    BY <1>1, <1>3, DueNext DEF Dues
  <2>2. Due(i + 1, c) <= Due(j, c)
    BY <1>1, DueOrder
  <2>3. c.timestep \in Nat \ {0}
    BY DEF Configs
  <2>4. QED BY <1>2, <2>1, <2>2, <2>3
<1>4. CASE i = 1
  <2>1. Due(2, c) <= Due(j, c)
    BY <1>1, DueOrder
  <2>2. h[1].due < Due(2, c) /\ h[1].due \in Int
    <3>1. c.cut \in {"dt", "ct"}
      BY DEF Configs
    <3>2. QED BY <3>1, DueTwo DEF Dues
  <2>3. Due(2, c) \in Int
    BY DueNext
  <2>4. QED BY <1>2, <1>4, <2>1, <2>2, <2>3
<1>5. QED BY <1>3, <1>4

\* The last point before a time.
IsBefore(h, t, i) == h[i].due < t /\ (i = Len(h) \/ h[i + 1].due >= t)

\* The last point due before a time is the one the abstract signal chooses.
LEMMA BeforeIs ==
  ASSUME NEW c \in Configs, EnoughDelay(c), history \in Seq(Points), Dues(history, c), NEW t \in Int,
         NEW i \in 1..Len(history), IsBefore(history, t, i)
  PROVE  Promise!Before(t) = i
<1>1. ASSUME NEW j \in 1..Len(history), NEW k \in 1..Len(history),
             IsBefore(history, t, j), IsBefore(history, t, k), j < k
      PROVE  FALSE
  <2>1. j + 1 \in 1..Len(history) /\ history[j + 1].due >= t /\ history[k].due < t
    BY <1>1 DEF IsBefore
  <2>2. j + 1 < k => history[j + 1].due < history[k].due /\ history[j + 1].due \in Int /\ history[k].due \in Int
    BY <2>1, DuesOrdered
  <2>3. history[k].due \in Int
    <3>1. history[k] \in Points
      OBVIOUS
    <3>2. QED BY <3>1 DEF Points
  <2>4. QED BY <1>1, <2>1, <2>2, <2>3
<1>2. \A j \in 1..Len(history) : IsBefore(history, t, j) => j = i
  BY <1>1
<1>3. DOMAIN history = 1..Len(history)
  OBVIOUS
<1>4. Promise!Before(t) = CHOOSE j \in 1..Len(history) : IsBefore(history, t, j)
  BY <1>3 DEF Promise!Before, IsBefore
<1>5. QED BY <1>2, <1>4
-------------------------------------------------------------------------------
(* A step: the last two samples taken from the buffer *)

Buffers == UNION {[0..n - 1 -> CutValues] : n \in Nat \ {0}}
LinePoints == [time : Int, value : CutValues]
Ports == [buffer_out : Buffers, size : Nat \ {0}, read_cnt : Nat, sample_delay : Nat,
          remaining : Nat, last_value : CutValues, next_value : CutValues, next_time : Int,
          interpolator : [previous : LinePoints, next : LinePoints],
          last_stored_time : Int, last_last_stored_time : Int]

\* Of the taken + 1 points of h the last one waits or has been seen at a time behind it.
IsStep(p, h, taken, at, c) ==
  /\ p.next_value = h[taken + 1].value
  /\ \/ taken > 0 /\ p.next_time = Due(taken + 1, c) /\ p.last_value = h[taken].value
     \/ p.next_time = Never /\ p.last_value = h[taken + 1].value /\ at > h[taken + 1].due

\* The times between two writes.
IsBetween(at, taken, c) == /\ at <= Times(taken, c.timestep)
                           /\ taken > 0 => Times(taken - 1, c.timestep) <= at

LEMMA NeverIs == Never \in Nat
BY SMT DEF Never

LEMMA DtWrites ==
  ASSUME NEW p \in Ports, NEW v \in CutValues, now \in Int
  PROVE  write_dt(p, v) \in Ports
<1>1. now + p.remaining \in Int /\ p.next_value \in CutValues
  BY DEF Ports
<1>2. QED BY <1>1 DEF write_dt, Ports

\* A sample taken from the buffer waits, the one that waited shows.
LEMMA StepWritten ==
  ASSUME NEW c, NEW p \in Ports, NEW h, NEW taken \in Nat,
         p.remaining = RemainingDelay(c), now = Times(taken, c.timestep),
         IsStep(p, h, taken, now, c)
  PROVE  IsStep(write_dt(p, h[taken + 2].value), h, taken + 1, now, c)
<1> DEFINE v == h[taken + 2].value  q == write_dt(p, v)
<1>1. /\ q.last_value = p.next_value /\ q.next_value = v
      /\ q.next_time = now + p.remaining
  BY DEF write_dt, Ports
<1>2. taken + 1 + 1 = taken + 2 /\ taken + 2 - 2 = taken /\ taken + 1 > 0
  OBVIOUS
<1> HIDE DEF q
<1>3. q.next_time = Due(taken + 1 + 1, c)
  BY <1>1, <1>2 DEF Due
<1>4. QED BY <1>1, <1>2, <1>3 DEF IsStep, q

LEMMA DtReads ==
  ASSUME NEW p \in Ports
  PROVE  read_dt(p) \in Ports
<1>1. Never \in Int /\ p.next_value \in CutValues
  BY NeverIs DEF Ports
<1>2. [p EXCEPT !.last_value = p.next_value, !.next_time = Never] \in Ports
  BY <1>1 DEF Ports
<1>3. QED BY <1>2 DEF read_dt

\* A read leaves a step as it is.
LEMMA StepRead ==
  ASSUME NEW c \in Configs, EnoughDelay(c), NEW p \in Ports, NEW h, Dues(h, c), NEW taken \in Nat,
         taken + 1 \in 1..Len(h), now \in Nat, now < Never, IsStep(p, h, taken, now, c)
  PROVE  IsStep(read_dt(p), h, taken, now, c)
<1>1. CASE now > p.next_time
  <2>1. taken > 0 /\ p.next_time = Due(taken + 1, c)
    BY <1>1, NeverIs DEF IsStep
  <2>2. h[taken + 1].due = Due(taken + 1, c)
    BY <2>1 DEF Dues
  <2>3. /\ read_dt(p).last_value = p.next_value /\ read_dt(p).next_value = p.next_value
        /\ read_dt(p).next_time = Never
    BY <1>1 DEF read_dt, Ports
  <2>4. QED BY <1>1, <2>1, <2>2, <2>3 DEF IsStep
<1>2. CASE ~(now > p.next_time)
  BY <1>2 DEF read_dt
<1>3. QED BY <1>1, <1>2

\* What is read is the value of the last point due before.
LEMMA StepSeen ==
  ASSUME NEW c \in Configs, EnoughDelay(c), c.cut = "dt", NEW p \in Ports, NEW h, Dues(h, c),
         NEW taken \in Nat, Len(h) \in Nat, taken + 1 \in 1..Len(h), now \in Nat, now < Never,
         IsBetween(now, taken, c), IsStep(p, h, taken, now, c)
  PROVE  \E i \in 1..Len(h) : IsBefore(h, now, i) /\ read_dt(p).last_value = h[i].value
<1>0. c.timestep \in Nat \ {0} /\ RemainingDelay(c) \in Nat /\ RemainingDelay(c) < c.timestep
  BY DelayParts DEF Configs
<1>1. ASSUME now > h[taken + 1].due, read_dt(p).last_value = h[taken + 1].value
      PROVE  \E i \in 1..Len(h) : IsBefore(h, now, i) /\ read_dt(p).last_value = h[i].value
  <2>1. ASSUME taken + 1 # Len(h) PROVE h[taken + 1 + 1].due >= now
    <3>1. taken + 1 + 1 \in 2..Len(h) /\ taken + 1 + 1 - 2 = taken
      BY <2>1
    <3>2. h[taken + 1 + 1].due = Times(taken, c.timestep) + RemainingDelay(c)
      BY <3>1 DEF Dues, Due
    <3>3. Times(taken, c.timestep) \in Nat
      BY <1>0, TimesType
    <3>4. QED BY <1>0, <3>2, <3>3 DEF IsBetween
  <2>2. IsBefore(h, now, taken + 1)
    BY <1>1, <2>1 DEF IsBefore
  <2>3. QED BY <1>1, <2>2
<1>2. CASE now > p.next_time
  <2>1. taken > 0 /\ p.next_time = Due(taken + 1, c)
    BY <1>2, NeverIs DEF IsStep
  <2>2. h[taken + 1].due = Due(taken + 1, c)
    BY <2>1 DEF Dues
  <2>3. read_dt(p).last_value = p.next_value
    BY <1>2 DEF read_dt, Ports
  <2>4. QED BY <1>1, <1>2, <2>1, <2>2, <2>3 DEF IsStep
<1>3. CASE ~(now > p.next_time)
  <2>1. read_dt(p) = p
    BY <1>3 DEF read_dt
  <2>2. CASE p.next_time = Never /\ p.last_value = h[taken + 1].value /\ now > h[taken + 1].due
    BY <1>1, <2>1, <2>2
  <2>3. CASE taken > 0 /\ p.next_time = Due(taken + 1, c) /\ p.last_value = h[taken].value
    <3>1. h[taken + 1].due = Due(taken + 1, c) /\ Due(taken + 1, c) \in Int
      <4>1. taken + 1 \in Int /\ taken + 1 \in 2..Len(h)
        BY <2>3
      <4>2. Due(taken + 1, c) \in Int
        BY <4>1, DueNext
      <4>3. QED BY <4>1, <4>2 DEF Dues
    <3>2. h[taken].due < now
      <4>1. CASE taken = 1
        BY <4>1 DEF Dues
      <4>2. CASE taken >= 2
        <5> DEFINE k == taken - 2  t == c.timestep
        <5>1. h[taken].due = Due(taken, c) /\ k \in Int /\ k + 1 = taken - 1 /\ t \in Int
          BY <1>0, <4>2 DEF Dues
        <5>2. Times(k + 1, t) = Times(k, t) + t /\ Times(k, t) \in Int
          <6> HIDE DEF k, t
          <6>1. QED BY <5>1, TimesNext
        <5>3. Times(taken - 1, t) <= now
          BY <2>3 DEF IsBetween
        <5>4. QED BY <1>0, <5>1, <5>2, <5>3 DEF Due
      <4>3. QED BY <2>3, <4>1, <4>2
    <3>3. h[taken + 1].due >= now /\ taken \in 1..Len(h)
      BY <1>3, <2>3, <3>1
    <3>4. QED BY <2>1, <2>3, <3>2, <3>3 DEF IsBefore
  <2>4. QED BY <2>2, <2>3 DEF IsStep
<1>4. QED BY <1>2, <1>3
-------------------------------------------------------------------------------
(* A line: the last two points taken from the buffer *)

\* None waits outside of the interpolator.
IsLine(p, h, taken, c) ==
  /\ p.next_time = Never /\ p.last_stored_time = Times(taken, c.timestep)
  /\ p.interpolator.next = Point(Times(taken, c.timestep), h[taken + 1].value)
  /\ p.interpolator.previous =
       IF taken = 0 THEN p.interpolator.next
       ELSE Point(Times(taken - 1, c.timestep), h[taken].value)

LEMMA PointIs ==
  ASSUME NEW t, NEW v
  PROVE  Point(t, v).time = t /\ Point(t, v).value = v /\ (t \in Int /\ v \in CutValues => Point(t, v) \in LinePoints)
BY DEF Point, LinePoints

\* store_value keeps the last point when the new one is later.
LEMMA StoredBehind ==
  ASSUME NEW i, NEW t, NEW v, t > i.next.time
  PROVE  store_value(i, t, v) = [previous |-> i.next, next |-> Point(t, v)]
BY DEF store_value

\* With no point waiting, a sample that is due behind the last point becomes it.
LEMMA CtWrites ==
  ASSUME NEW p \in Ports, NEW v \in CutValues, now \in Int, p.next_time = Never, now < Never,
         now >= p.last_stored_time, now + p.remaining > p.interpolator.next.time
  PROVE  LET q == write_ct(p, v)
             due == now + p.remaining
         IN /\ q \in Ports
            /\ q.next_time = Never /\ q.last_stored_time = due
            /\ q.interpolator = [previous |-> p.interpolator.next, next |-> Point(due, v)]
            /\ q.buffer_out = p.buffer_out /\ q.size = p.size /\ q.read_cnt = p.read_cnt
            /\ q.sample_delay = p.sample_delay /\ q.remaining = p.remaining
<1> DEFINE due == now + p.remaining
           w == [p EXCEPT !.next_time = due, !.next_value = v]
           x == take_next(w)
           q == write_ct(p, v)
<1>1. ~(now >= p.next_time)
  BY NeverIs
<1>2. q = [x EXCEPT !.next_value = p.next_value]
  BY <1>1 DEF write_ct
<1>3. due \in Int /\ Never \in Int /\ p.interpolator.next \in LinePoints /\ p.last_stored_time \in Int
      /\ p.next_value \in CutValues
  BY NeverIs DEF Ports
<1>4. /\ w \in Ports /\ w.next_time = due /\ w.next_value = v /\ w.interpolator = p.interpolator
      /\ w.buffer_out = p.buffer_out /\ w.size = p.size /\ w.read_cnt = p.read_cnt
      /\ w.sample_delay = p.sample_delay /\ w.remaining = p.remaining
      /\ w.last_stored_time = p.last_stored_time
  <2> HIDE DEF due
  <2>1. QED BY <1>3 DEF Ports
<1> DEFINE i == [previous |-> p.interpolator.next, next |-> Point(due, v)]
<1>5. store_value(p.interpolator, due, v) = i
  BY StoredBehind
<1>6. i \in [previous : LinePoints, next : LinePoints]
  <2>1. Point(due, v) \in LinePoints
    <3> HIDE DEF due
    <3>1. QED BY <1>3, PointIs
  <2>2. QED BY <1>3, <2>1
<1> HIDE DEF due, w, i
<1>7. x = [w EXCEPT !.last_last_stored_time = p.last_stored_time, !.last_stored_time = due,
                    !.interpolator = i, !.next_time = Never]
  BY <1>4, <1>5 DEF take_next
<1>8. /\ x \in Ports /\ x.next_time = Never /\ x.last_stored_time = due /\ x.interpolator = i
      /\ x.buffer_out = p.buffer_out /\ x.size = p.size /\ x.read_cnt = p.read_cnt
      /\ x.sample_delay = p.sample_delay /\ x.remaining = p.remaining
  <2> HIDE DEF x
  <2>1. QED BY <1>3, <1>4, <1>6, <1>7 DEF Ports
<1> HIDE DEF x, q
<1>9. /\ q \in Ports /\ q.next_time = Never /\ q.last_stored_time = due /\ q.interpolator = i
      /\ q.buffer_out = p.buffer_out /\ q.size = p.size /\ q.read_cnt = p.read_cnt
      /\ q.sample_delay = p.sample_delay /\ q.remaining = p.remaining
  BY <1>2, <1>3, <1>8 DEF Ports
<1>10. QED BY <1>9 DEF q, due, i

\* A sample taken from the buffer ends the line, the last end starts it.
LEMMA LineWritten ==
  ASSUME NEW c \in Configs, NEW p \in Ports, NEW h, NEW taken \in Nat, h[taken + 2].value \in CutValues,
         p.remaining = c.timestep, now = Times(taken, c.timestep), now < Never,
         IsLine(p, h, taken, c)
  PROVE  LET q == write_ct(p, h[taken + 2].value)
         IN /\ q \in Ports /\ IsLine(q, h, taken + 1, c)
            /\ q.buffer_out = p.buffer_out /\ q.size = p.size /\ q.read_cnt = p.read_cnt
            /\ q.sample_delay = p.sample_delay /\ q.remaining = p.remaining
<1> DEFINE v == h[taken + 2].value  q == write_ct(p, v)  due == now + p.remaining
<1>1. c.timestep \in Nat \ {0} /\ now \in Int
  <2>1. c.timestep \in Nat \ {0} /\ c.timestep \in Nat
    BY DEF Configs
  <2>2. Times(taken, c.timestep) \in Nat
    BY <2>1, TimesType
  <2>3. QED BY <2>1, <2>2
<1>2. due = Times(taken + 1, c.timestep)
  <2>1. c.timestep \in Int /\ taken \in Int
    BY <1>1
  <2>2. QED BY <2>1, TimesNext
<1>3. p.interpolator.next = Point(now, h[taken + 1].value) /\ p.last_stored_time = now /\ p.next_time = Never
  BY DEF IsLine
<1>4. due > p.interpolator.next.time
  BY <1>1, <1>3, PointIs
<1>5. /\ q \in Ports
      /\ q.next_time = Never /\ q.last_stored_time = due
      /\ q.interpolator = [previous |-> p.interpolator.next, next |-> Point(due, v)]
      /\ q.buffer_out = p.buffer_out /\ q.size = p.size /\ q.read_cnt = p.read_cnt
      /\ q.sample_delay = p.sample_delay /\ q.remaining = p.remaining
  BY <1>1, <1>3, <1>4, CtWrites
<1> HIDE DEF q, due
<1>6. taken + 1 # 0 /\ taken + 1 - 1 = taken /\ taken + 1 + 1 = taken + 2
  OBVIOUS
<1>7. IsLine(q, h, taken + 1, c)
  BY <1>2, <1>3, <1>5, <1>6 DEF IsLine
<1>8. QED BY <1>5, <1>7 DEF q

\* A reader asks for a time between the two points and sees the line of the signal there.
LEMMA LineSeen ==
  ASSUME NEW c \in Configs, EnoughDelay(c), c.cut = "ct", RemainingDelay(c) = c.timestep,
         NEW p \in Ports, history \in Seq(Points), Dues(history, c),
         NEW taken \in Nat, taken + 1 \in 1..Len(history), now \in Nat,
         IsBetween(now, taken, c), IsLine(p, history, taken, c)
  PROVE  /\ read_ct(p) = p /\ CtTime(p) = now
         /\ p.interpolator.previous.time <= now /\ now <= p.interpolator.next.time
         /\ Promise!Reaches(now)
         /\ Line(p.interpolator, now) = Promise!LineAt(now)
<1> DEFINE t == c.timestep  h == history  i == p.interpolator
           here == Times(taken, t)  there == Times(taken - 1, t)
<1>0. t \in Nat \ {0} /\ t \in Nat /\ t \in Int /\ Len(h) \in Nat
  BY DEF Configs
<1>1. p.last_stored_time = here /\ p.next_time = Never /\ i.next = Point(here, h[taken + 1].value)
      /\ i.previous = IF taken = 0 THEN i.next ELSE Point(there, h[taken].value)
  BY DEF IsLine
<1>2. here \in Nat /\ there \in Int /\ here = there + t
  <2>1. taken - 1 \in Int /\ taken - 1 + 1 = taken
    OBVIOUS
  <2>2. \A n \in Int : Times(n + 1, t) = Times(n, t) + t /\ Times(n, t) \in Int
    BY <1>0, TimesNext
  <2>3. Times(taken - 1 + 1, t) = there + t /\ there \in Int
    BY <2>1, <2>2
  <2>4. QED BY <1>0, <2>1, <2>3, TimesType
<1>3. now <= here /\ (taken > 0 => there <= now)
  BY DEF IsBetween
\* The points of the signal are the times of the samples.
<1>4. \A j \in 1..Len(h) : h[j].due = Times(j - 1, t)
  <2> SUFFICES ASSUME NEW j \in 1..Len(h) PROVE h[j].due = Times(j - 1, t)
    OBVIOUS
  <2>1. CASE j = 1
    BY <1>0, <2>1, TimesFew DEF Dues
  <2>2. CASE j >= 2
    <3>1. h[j].due = Times(j - 2, t) + t
      BY <2>2 DEF Dues, Due
    <3>2. PICK k \in Int : k = j - 2 /\ k + 1 = j - 1
      OBVIOUS
    <3>3. Times(k + 1, t) = Times(k, t) + t
      BY <1>0, TimesNext
    <3>4. QED BY <3>1, <3>2, <3>3
  <2>3. QED BY <2>1, <2>2
<1>5. h[taken + 1].due = here /\ (taken > 0 => h[taken].due = there /\ taken \in 1..Len(h))
  <2>1. taken + 1 - 1 = taken /\ (taken > 0 => taken \in 1..Len(h))
    BY <1>0
  <2>2. QED BY <1>4, <2>1
<1>6. h[1].due = 0 /\ 1 \in 1..Len(h)
  BY <1>0 DEF Dues
<1>7. taken = 0 => here = 0
  BY <1>0, TimesFew
<1>8. read_ct(p) = p /\ CtTime(p) = now
  <2>1. ~(now > p.last_stored_time) /\ ~(p.next_time < Never)
    BY <1>1, <1>2, <1>3, NeverIs
  <2>2. QED BY <2>1 DEF read_ct, CtTime
<1>9. i.previous.time <= now /\ now <= i.next.time
  <2>1. i.next.time = here /\ (taken > 0 => i.previous.time = there)
    BY <1>1, PointIs
  <2>2. taken = 0 => i.previous.time = here /\ now = 0
    BY <1>1, <1>3, <1>7, <2>1
  <2>3. QED BY <1>2, <1>3, <1>7, <2>1, <2>2
<1>10. Promise!Reaches(now)
  <2>1. h[Len(h)].due >= here
    <3>1. CASE Len(h) = taken + 1
      BY <1>2, <1>5, <3>1
    <3>2. CASE taken + 1 < Len(h)
      <4>1. taken + 1 \in 1..Len(h) /\ Len(h) \in 1..Len(h)
        BY <1>0
      <4>2. h[taken + 1].due < h[Len(h)].due /\ h[taken + 1].due \in Int /\ h[Len(h)].due \in Int
        BY <3>2, <4>1, DuesOrdered
      <4>3. QED BY <1>5, <4>2
    <3>3. QED BY <1>0, <3>1, <3>2
  <2>2. h[Len(h)].due \in Int
    <3>1. h[Len(h)] \in Points
      BY <1>0
    <3>2. QED BY <3>1 DEF Points
  <2>3. QED BY <1>2, <1>3, <2>1, <2>2 DEF Promise!Reaches
<1>11. Line(i, now) = Promise!LineAt(now)
  <2>1. CASE now = 0 /\ taken = 0
    <3>1. i.next.time = now /\ i.next.value = h[1].value
      BY <1>1, <1>7, <2>1, PointIs
    <3>2. Line(i, now) = h[1].value
      BY <3>1 DEF Line
    <3>3. QED BY <1>6, <2>1, <3>2 DEF Promise!LineAt
  <2>2. CASE taken > 0
    <3>1. /\ i.previous.time = there /\ i.previous.value = h[taken].value
          /\ i.next.time = here /\ i.next.value = h[taken + 1].value
      BY <1>1, <2>2, PointIs
    <3>2. there # here
      BY <1>0, <1>2
    <3>3. CASE now = there
      <4>1. Line(i, now) = h[taken].value
        BY <3>1, <3>2, <3>3 DEF Line
      <4>2. CASE taken = 1
        <5>1. now = 0 /\ h[taken] = h[1]
          BY <1>5, <1>6, <2>2, <3>3, <4>2
        <5>2. QED BY <1>6, <4>1, <5>1 DEF Promise!LineAt
      <4>3. CASE taken >= 2
        <5>1. taken - 1 \in 1..Len(h) /\ taken \in 1..Len(h) /\ taken - 1 < taken /\ 1 < taken
              /\ taken - 1 + 1 = taken /\ taken - 1 # Len(h)
          BY <1>0, <4>3
        <5>2. h[taken - 1].due < h[taken].due /\ h[1].due < h[taken].due
          BY <5>1, <1>6, DuesOrdered
        <5>3. h[taken].due = now
          BY <1>5, <2>2, <3>3
        <5>4. IsBefore(h, now, taken - 1)
          BY <5>1, <5>2, <5>3 DEF IsBefore
        <5>5. Promise!Before(now) = taken - 1
          BY <5>1, <5>4, BeforeIs
        <5>6. Promise!LineAt(now) = Promise!Between(h[taken - 1], h[taken], now)
          BY <1>6, <5>1, <5>2, <5>3, <5>5 DEF Promise!LineAt
        <5>7. QED BY <4>1, <5>3, <5>6 DEF Promise!Between
      <4>4. QED BY <2>2, <4>2, <4>3
    <3>4. CASE now # there
      <4>1. there < now /\ taken \in 1..Len(h) /\ h[taken].due = there /\ h[taken + 1].due = here
            /\ h[taken + 1].due >= now /\ h[taken].due < now
        BY <1>2, <1>3, <1>5, <2>2, <3>4
      <4>2. IsBefore(h, now, taken)
        BY <4>1 DEF IsBefore
      <4>3. Promise!Before(now) = taken
        BY <4>1, <4>2, BeforeIs
      <4>4. ~(now <= h[1].due)
        <5>1. there >= 0
          <6>1. PICK k \in Nat : k = taken - 1
            BY <2>2
          <6>2. Times(k, t) \in Nat
            BY <1>0, TimesType
          <6>3. QED BY <6>1, <6>2
        <5>2. QED BY <1>2, <1>6, <4>1, <5>1
      <4>5. Promise!LineAt(now) = Promise!Between(h[taken], h[taken + 1], now)
        BY <4>3, <4>4 DEF Promise!LineAt
      <4>6. CASE now = here
        BY <3>1, <4>1, <4>5, <4>6 DEF Line, Promise!Between
      <4>7. CASE now # here
        <5>1. Line(i, now) = IF Uninitialized \in {h[taken].value, h[taken + 1].value} THEN Uninitialized
                             ELSE h[taken].value
                                  + ((h[taken + 1].value - h[taken].value) * (now - there)) \div (here - there)
          BY <3>1, <3>2, <3>4, <4>7 DEF Line
        <5>2. Promise!Between(h[taken], h[taken + 1], now)
                = IF Uninitialized \in {h[taken].value, h[taken + 1].value} THEN Uninitialized
                  ELSE h[taken].value
                       + ((h[taken + 1].value - h[taken].value) * (now - there)) \div (here - there)
          BY <3>4, <4>1, <4>7 DEF Promise!Between
        <5>3. QED BY <4>5, <5>1, <5>2
      <4>8. QED BY <4>6, <4>7
    <3>5. QED BY <3>3, <3>4
  <2>3. QED BY <1>3, <1>7, <2>1, <2>2
<1>12. QED BY <1>8, <1>9, <1>10, <1>11
-------------------------------------------------------------------------------
(* The invariant *)

\* Samples that calls gave to the port, those of the present period, those the process
\* took from the buffer, and those left in it.
Given == Len(history) - 1 - SampleDelay(cutCfg)
Called == Times(cutCalls, cutCfg.rate)
Taken == Given - Called + cutWrites
Left == SampleDelay(cutCfg) + Called - cutWrites

ConfigInv(scenarios) ==
  /\ cutScenario \in scenarios
  /\ cutCfg \in Configs /\ EnoughDelay(cutCfg) /\ SameSignal(cutCfg, cutScenario.start)

CountInv ==
  /\ cutCounter \in Nat /\ cutCalls \in 0..cutCfg.calls /\ cutCalls <= cutCounter
  /\ cutWrites \in 0..Samples(cutCfg) /\ cutWrites <= SampleDelay(cutCfg) + Called
  /\ history \in Seq(Points) /\ Called <= Given
  /\ Dues(history, cutCfg)

BufferInv ==
  /\ port \in Ports
  /\ port.size = BufferSize(cutCfg) /\ port.sample_delay = SampleDelay(cutCfg)
  /\ port.remaining = RemainingDelay(cutCfg)
  /\ port.buffer_out \in [0..port.size - 1 -> CutValues]
  /\ port.read_cnt = Times(cutCounter - cutCalls, cutCfg.rate) + cutWrites
  /\ Holds(port.buffer_out, port.read_cnt, port.size, history, Taken, Left)

TimeInv ==
  /\ now \in 0..MaxTime /\ period_start \in 0..now
  /\ period_start = Times(Taken - cutWrites, cutCfg.timestep)
  /\ IsBetween(now, Taken, cutCfg)
  /\ next_read \in now..now + cutScenario.step

SignalInv == /\ cutCfg.cut = "dt" => IsStep(port, history, Taken, now, cutCfg)
             /\ cutCfg.cut = "ct" => IsLine(port, history, Taken, cutCfg)

CutInv(scenarios) == /\ ConfigInv(scenarios) /\ CountInv /\ BufferInv
                     /\ TimeInv /\ SignalInv

AllSteady(scenarios) == AreScenarios(scenarios) /\ \A s \in scenarios : Steady(s)

\* How the counts fit together.
AreSizes ==
  /\ SampleDelay(cutCfg) \in Nat /\ RemainingDelay(cutCfg) \in Nat
  /\ OverallDelay(cutCfg) = Times(SampleDelay(cutCfg), cutCfg.timestep) + RemainingDelay(cutCfg)
  /\ Samples(cutCfg) \in Nat \ {0} /\ Samples(cutCfg) = Times(cutCfg.calls, cutCfg.rate)
  /\ BufferSize(cutCfg) = SampleDelay(cutCfg) + Samples(cutCfg)
  /\ cutCfg.rate \in Nat \ {0} /\ cutCfg.calls \in Nat \ {0} /\ cutCfg.timestep \in Nat \ {0}

AreAmounts ==
  /\ Called \in Nat /\ Given \in Nat /\ Taken \in Nat /\ Left \in Nat /\ Called <= Samples(cutCfg)
  /\ Len(history) = 1 + SampleDelay(cutCfg) + Given /\ Len(history) = Taken + 1 + Left
  /\ Taken = Given - Called + cutWrites /\ Left = SampleDelay(cutCfg) + Called - cutWrites
  /\ Taken + 1 \in 1..Len(history)

\* The counts agree, whatever has been called and written.
LEMMA Amounts ==
  ASSUME NEW scenarios, ConfigInv(scenarios), CountInv
  PROVE  AreSizes /\ AreAmounts
<1>1. cutCfg \in Configs /\ EnoughDelay(cutCfg)
  BY DEF ConfigInv
<1>2. /\ SampleDelay(cutCfg) \in Nat /\ RemainingDelay(cutCfg) \in Nat
      /\ OverallDelay(cutCfg) = Times(SampleDelay(cutCfg), cutCfg.timestep) + RemainingDelay(cutCfg)
      /\ Samples(cutCfg) \in Nat \ {0} /\ BufferSize(cutCfg) = SampleDelay(cutCfg) + Samples(cutCfg)
      /\ cutCfg.rate \in Nat \ {0} /\ cutCfg.calls \in Nat \ {0} /\ cutCfg.timestep \in Nat \ {0}
      /\ Samples(cutCfg) = Times(cutCfg.calls, cutCfg.rate)
  BY <1>1, DelayParts, Sizes
<1>3. Called \in Nat /\ Called <= Samples(cutCfg)
  <2>1. cutCalls \in Nat /\ cutCfg.rate \in Nat /\ cutCalls <= cutCfg.calls /\ cutCalls \in Int /\ cutCfg.calls \in Int
    BY <1>2 DEF CountInv
  <2>2. Times(cutCalls, cutCfg.rate) \in Nat
    BY <2>1, TimesType
  <2>3. Times(cutCalls, cutCfg.rate) <= Times(cutCfg.calls, cutCfg.rate)
    BY <2>1, TimesOrder
  <2>4. QED BY <1>2, <2>2, <2>3 DEF Called
<1>4. Len(history) \in Nat /\ Called <= Given /\ cutWrites \in Nat /\ cutWrites <= SampleDelay(cutCfg) + Called
  BY <1>2 DEF CountInv
<1>5. Given \in Nat /\ Len(history) = 1 + SampleDelay(cutCfg) + Given
  <2>1. Given = Len(history) - 1 - SampleDelay(cutCfg)
    BY DEF Given
  <2>2. /\ SampleDelay(cutCfg) \in Nat /\ Called \in Nat /\ Len(history) \in Nat /\ Called <= Given
    BY <1>2, <1>3, <1>4
  <2>3. QED BY <2>1, <2>2
<1>6. Taken \in Nat /\ Left \in Nat /\ Len(history) = Taken + 1 + Left
  <2>1. Taken = Given - Called + cutWrites /\ Left = SampleDelay(cutCfg) + Called - cutWrites
    BY DEF Taken, Left
  <2>2. /\ SampleDelay(cutCfg) \in Nat /\ Called \in Nat /\ Called <= Given /\ cutWrites \in Nat
        /\ cutWrites <= SampleDelay(cutCfg) + Called
    BY <1>2, <1>3, <1>4
  <2>3. QED BY <1>5, <2>1, <2>2
<1>7. Taken + 1 \in 1..Len(history)
  BY <1>6
<1>8. AreSizes
  BY <1>2 DEF AreSizes
<1>9. QED BY <1>3, <1>5, <1>6, <1>7, <1>8 DEF AreAmounts, Taken, Left

\* What the scenarios say of the present one.
IsPresent(s) == /\ MaxTime \in Nat /\ MaxTime < Never /\ Scale \in Nat \ {0} /\ Uninitialized \notin Int
                /\ s.step \in Nat \ {0} /\ s.initial \in CutValues /\ s.preset \in BOOLEAN
                /\ s.start \in Configs /\ EnoughDelay(s.start) /\ Steady(s)
                /\ \A e \in s.changes : e[2] \in Configs /\ EnoughDelay(e[2])

LEMMA PresentScenario ==
  ASSUME NEW scenarios, AllSteady(scenarios), NEW s \in scenarios
  PROVE  IsPresent(s)
<1>1. MaxTime \in Nat /\ MaxTime < Never
  BY NeverIs DEF AllSteady, AreScenarios
<1>2. QED BY <1>1 DEF AllSteady, AreScenarios, IsPresent, CutValues
-------------------------------------------------------------------------------
(* The start *)

\* The samples the delay starts with wait where the first reads take them.
LEMMA StartHolds ==
  ASSUME NEW s, IsPresent(s)
  PROVE  LET c == s.start
         IN /\ NewBuffer(c, s.preset) \in [0..BufferSize(c) - 1 -> CutValues]
            /\ Holds(NewBuffer(c, s.preset), 0, BufferSize(c), StartPoints(s), 0, SampleDelay(c))
<1> DEFINE c == s.start  d == SampleDelay(c)  n == BufferSize(c)  h == StartPoints(s)
           start == IF c.cut = "dt" THEN PresetDt(c) ELSE PresetCt
           buf == NewBuffer(c, s.preset)
<1>1. /\ c \in Configs /\ EnoughDelay(c) /\ s.preset \in BOOLEAN /\ Scale \in Nat \ {0}
      /\ s.initial \in CutValues
  BY DEF IsPresent
<1>2. d \in Nat /\ n \in Nat \ {0} /\ n > d /\ c.delay \in Nat /\ c.cut \in {"dt", "ct"}
  <2>1. d \in Nat
    BY <1>1, DelayParts
  <2>2. n = d + Samples(c) /\ Samples(c) \in Nat \ {0}
    BY <1>1, Sizes
  <2>3. c.delay \in Nat /\ c.cut \in {"dt", "ct"}
    BY <1>1 DEF Configs
  <2> HIDE DEF c, d, n
  <2>4. QED BY <2>1, <2>2, <2>3
<1>3. start \in Int
  BY <1>2 DEF PresetDt, PresetCt
<1>4. buf = [i \in 0..n - 1 |->
               IF s.preset /\ i - start \in 0..c.delay - 1 THEN PresetValue(i - start) ELSE Uninitialized]
  BY DEF NewBuffer
<1>5. \A i \in 1..d : h[1 + i].value = LET m == i - 1 - (d - c.delay)
                                       IN IF s.preset /\ m >= 0 THEN PresetValue(m) ELSE Uninitialized
  BY <1>1, StartIs
\* The presettings of a line are at the times of the samples.
<1>6. ASSUME s.preset
      PROVE  /\ c.cut = "dt" => start = d - c.delay
             /\ c.cut = "ct" => start = -1 /\ (c.delay > 0 => d = c.delay - 1)
  <2>1. c.cut = "dt" => start = d - c.delay
    BY DEF PresetDt
  <2>2. ASSUME c.cut = "ct", c.delay > 0
        PROVE  d = c.delay - 1
    <3>1. c.ct_delay = 0
      BY <1>6, <2>2 DEF IsPresent, Steady
    <3>2. c.timestep \in Nat \ {0}
      BY <1>1 DEF Configs
    <3> DEFINE t == c.timestep  k == c.delay
    <3>3. OverallDelay(c) = t * k
      BY <1>2, <3>1, <3>2 DEF OverallDelay
    <3>4. (t * k) \div t = k
      <4> HIDE DEF t, k, c
      <4>1. t \in Nat \ {0} /\ k \in Nat
        BY <1>2, <3>2 DEF t, k
      <4>2. QED BY <4>1, DivTimes
    <3>5. d = (OverallDelay(c) \div t) - 1
      BY <2>2 DEF SampleDelay, AheadSamples
    <3>6. QED BY <3>3, <3>4, <3>5
  <2>3. c.cut = "ct" => start = -1
    BY DEF PresetCt
  <2>4. QED BY <2>1, <2>2, <2>3
<1> HIDE DEF c, d, n, h, start, buf
<1>7. buf \in [0..n - 1 -> CutValues]
  <2>1. \A i \in 0..n - 1 : i - start \in Int
    BY <1>2, <1>3
  <2>2. \A i \in 0..n - 1 : PresetValue(i - start) \in CutValues
    BY <1>1, <2>1, SamplesAreInt
  <2>3. Uninitialized \in CutValues
    BY DEF CutValues
  <2>4. QED BY <1>4, <2>2, <2>3
<1>8. ASSUME NEW k \in 0..d - 1
      PROVE  buf[Slot(0 + k, n)] = h[0 + 2 + k].value
  <2>1. k \in Nat /\ k \in 0..n - 1 /\ 0 + k = k /\ k < n
    BY <1>2
  <2>2. Slot(k, n) = k
    BY <1>2, <2>1, SlotSmall
  <2>3. buf[k] = IF s.preset /\ k - start \in 0..c.delay - 1 THEN PresetValue(k - start) ELSE Uninitialized
    BY <1>4, <2>1
  <2>4. PICK i \in 1..d : i = k + 1 /\ 0 + 2 + k = 1 + i
    BY <1>2, <2>1
  <2> DEFINE m == k - (d - c.delay)
  <2>5. i - 1 - (d - c.delay) = m
    BY <1>2, <2>4
  <2>6. h[1 + i].value = IF s.preset /\ m >= 0 THEN PresetValue(m) ELSE Uninitialized
    <3> HIDE DEF m
    <3>1. QED BY <1>5, <2>5
  <2>7. ASSUME s.preset
        PROVE  (k - start \in 0..c.delay - 1 <=> m >= 0) /\ (m >= 0 => k - start = m)
    <3>1. CASE c.cut = "dt"
      BY <1>2, <1>6, <2>1, <2>7, <3>1
    <3>2. CASE c.cut = "ct" /\ c.delay > 0
      <4>1. start = -1 /\ d = c.delay - 1
        BY <1>6, <2>7, <3>2
      <4>2. QED BY <1>2, <2>1, <4>1
    <3>3. CASE c.cut = "ct" /\ ~(c.delay > 0)
      <4>1. start = -1 /\ c.delay = 0
        BY <1>2, <1>6, <2>7, <3>3
      <4>2. QED BY <1>2, <2>1, <4>1
    <3>4. QED BY <1>2, <3>1, <3>2, <3>3
  <2> HIDE DEF m
  <2>8. buf[k] = h[1 + i].value
    BY <2>3, <2>6, <2>7
  <2>9. QED BY <2>1, <2>2, <2>4, <2>8
<1>9. Holds(buf, 0, n, h, 0, d)
  BY <1>8 DEF Holds
<1>10. QED BY <1>7, <1>9 DEF c, d, n, h, buf

\* The port starts as a port.
LEMMA NewPortIs ==
  ASSUME NEW s, IsPresent(s)
  PROVE  NewPort(s) \in Ports
<1> DEFINE c == s.start  n == BufferSize(c)  v == FirstValue(s)  i == Point(0, v)
           buf == NewBuffer(c, s.preset)
<1>1. c \in Configs /\ EnoughDelay(c) /\ Scale \in Nat \ {0} /\ s.initial \in CutValues
  BY DEF IsPresent
<1>2. n \in Nat \ {0} /\ SampleDelay(c) \in Nat /\ RemainingDelay(c) \in Nat
  BY <1>1, Sizes, DelayParts
<1>3. v \in CutValues /\ i \in LinePoints /\ Never \in Int
  <2>1. v \in CutValues
    BY <1>1, FirstValueIs
  <2>2. 0 \in Int
    OBVIOUS
  <2>3. QED BY <2>1, <2>2, PointIs, NeverIs
<1>4. buf \in Buffers
  <2>1. buf \in [0..n - 1 -> CutValues]
    BY StartHolds
  <2> HIDE DEF buf, n
  <2>2. QED BY <1>2, <2>1 DEF Buffers
<1>5. NewPort(s) =
        [buffer_out |-> buf, size |-> n, read_cnt |-> 0,
         sample_delay |-> SampleDelay(c), remaining |-> RemainingDelay(c),
         last_value |-> v, next_value |-> v, next_time |-> Never,
         interpolator |-> [previous |-> i, next |-> i],
         last_stored_time |-> 0, last_last_stored_time |-> 0]
  BY DEF NewPort
<1> HIDE DEF buf, n, v, i, c
<1>6. QED BY <1>2, <1>3, <1>4, <1>5 DEF Ports

\* The start has the invariant.
LEMMA InitInv ==
  ASSUME NEW scenarios, AllSteady(scenarios), CutInit(scenarios)
  PROVE  CutInv(scenarios)
<1> DEFINE s == cutScenario  c == s.start  d == SampleDelay(c)  n == BufferSize(c)
<1>1. IsPresent(s)
  BY PresentScenario DEF CutInit
<1>2. /\ c \in Configs /\ EnoughDelay(c) /\ Scale \in Nat \ {0} /\ s.initial \in CutValues
      /\ s.step \in Nat \ {0} /\ MaxTime \in Nat
  BY <1>1 DEF IsPresent
<1>3. /\ cutCfg = c /\ port = NewPort(s) /\ cutCounter = 0 /\ now = 0 /\ period_start = 0
      /\ next_read = 0 /\ cutCalls = 0 /\ cutWrites = 0 /\ history = StartPoints(s) /\ s \in scenarios
  BY DEF CutInit
<1>4. ConfigInv(scenarios)
  BY <1>2, <1>3 DEF ConfigInv, SameSignal
<1>5. /\ history \in Seq(Points) /\ Len(history) = 1 + d
      /\ history[1] = [due |-> IF c.cut = "dt" THEN -1 ELSE 0, value |-> FirstValue(s)]
      /\ \A i \in 1..d : history[1 + i].due = Times(i - 1, c.timestep) + RemainingDelay(c)
  BY <1>2, <1>3, StartIs
<1>6. d \in Nat /\ Samples(c) \in Nat \ {0} /\ c.rate \in Nat \ {0} /\ c.calls \in Nat \ {0}
      /\ c.timestep \in Nat \ {0}
  BY <1>2, DelayParts, Sizes
<1>7. Times(0, c.rate) = 0 /\ Times(0, c.timestep) = 0
  BY <1>6, TimesFew
<1>8. Called = 0 /\ Given = 0 /\ Taken = 0 /\ Left = d
  <2>1. Called = 0
    BY <1>3, <1>7 DEF Called
  <2>2. Given = 0
    BY <1>3, <1>5, <1>6 DEF Given
  <2>3. QED BY <1>3, <1>6, <2>1, <2>2 DEF Taken, Left
<1>9. Dues(history, cutCfg)
  <2>1. \A j \in 2..Len(history) : history[j].due = Due(j, c)
    <3> SUFFICES ASSUME NEW j \in 2..Len(history) PROVE history[j].due = Due(j, c)
      OBVIOUS
    <3>1. j - 1 \in 1..d /\ 1 + (j - 1) = j /\ j - 1 - 1 = j - 2
      BY <1>5, <1>6
    <3>2. history[1 + (j - 1)].due = Times(j - 1 - 1, c.timestep) + RemainingDelay(c)
      BY <1>5, <3>1
    <3>3. QED BY <3>1, <3>2 DEF Due
  <2>2. QED BY <1>3, <1>5, <2>1 DEF Dues
<1>10. CountInv
  BY <1>3, <1>5, <1>6, <1>8, <1>9 DEF CountInv
<1>11. /\ NewBuffer(c, s.preset) \in [0..n - 1 -> CutValues]
       /\ Holds(NewBuffer(c, s.preset), 0, n, StartPoints(s), 0, d)
  BY <1>1, StartHolds
<1> DEFINE v == FirstValue(s)
<1>12. /\ port \in Ports /\ port.buffer_out = NewBuffer(c, s.preset) /\ port.size = n
       /\ port.read_cnt = 0 /\ port.sample_delay = d /\ port.remaining = RemainingDelay(c)
       /\ port.last_value = v /\ port.next_value = v /\ port.next_time = Never
       /\ port.interpolator.previous = Point(0, v) /\ port.interpolator.next = Point(0, v)
       /\ port.last_stored_time = 0
  <2>1. port \in Ports
    BY <1>1, <1>3, NewPortIs
  <2>2. QED BY <1>3, <2>1 DEF NewPort
<1> HIDE DEF s, c, d, n, v
<1>13. BufferInv
  <2>1. cutCounter - cutCalls = 0 /\ Times(0, cutCfg.rate) + cutWrites = 0
    BY <1>3, <1>7
  <2>2. QED BY <1>3, <1>8, <1>11, <1>12, <2>1 DEF BufferInv, n, d
<1>14. TimeInv
  <2>1. Taken - cutWrites = 0 /\ Times(0, cutCfg.timestep) = 0 /\ ~(Taken > 0)
    BY <1>3, <1>7, <1>8
  <2>2. QED BY <1>2, <1>3, <1>8, <2>1 DEF TimeInv, IsBetween, s
<1>15. SignalInv
  <2>1. history[1].value = v /\ (cutCfg.cut = "dt" => history[1].due = -1) /\ 0 + 1 = 1
    BY <1>3, <1>5 DEF v
  <2>2. cutCfg.cut = "dt" => IsStep(port, history, 0, 0, cutCfg)
    BY <1>12, <2>1 DEF IsStep
  <2>3. IsLine(port, history, 0, cutCfg)
    BY <1>3, <1>7, <1>12, <2>1 DEF IsLine
  <2>4. QED BY <1>3, <1>8, <2>2, <2>3 DEF SignalInv
<1>16. QED BY <1>4, <1>10, <1>13, <1>14, <1>15 DEF CutInv
-------------------------------------------------------------------------------
(* Calls of the module *)

\* What the invariant says of the present attributes and counts.
LEMMA Here ==
  ASSUME NEW scenarios, AllSteady(scenarios), CutInv(scenarios)
  PROVE  /\ IsPresent(cutScenario) /\ AreSizes /\ AreAmounts
         /\ cutCfg \in Configs /\ EnoughDelay(cutCfg) /\ SameSignal(cutCfg, cutScenario.start)
         /\ now \in Nat /\ now < Never /\ now <= MaxTime
         /\ cutCounter \in Nat /\ cutCalls \in Nat /\ cutWrites \in Nat /\ cutCounter - cutCalls \in Nat
<1>1. cutScenario \in scenarios
  BY DEF CutInv, ConfigInv
<1>2. IsPresent(cutScenario)
  BY <1>1, PresentScenario
<1>3. AreSizes /\ AreAmounts
  BY Amounts DEF CutInv
<1>4. now \in Nat /\ now < Never /\ now <= MaxTime
  BY <1>2, NeverIs DEF CutInv, TimeInv, IsPresent
<1>5. cutCounter \in Nat /\ cutCalls \in Nat /\ cutWrites \in Nat /\ cutCounter - cutCalls \in Nat
  <2>1. Samples(cutCfg) \in Nat /\ cutCfg.calls \in Nat
    BY <1>3 DEF AreSizes
  <2>2. CountInv
    BY DEF CutInv
  <2>3. cutCalls \in Nat /\ cutWrites \in Nat /\ cutCounter \in Nat /\ cutCalls <= cutCounter
    BY <2>1, <2>2 DEF CountInv
  <2>4. QED BY <2>3
<1>6. QED BY <1>2, <1>3, <1>4, <1>5 DEF CutInv, ConfigInv

\* The position behind the samples left is where the next call writes.
LEMMA CallPosition ==
  ASSUME NEW scenarios, AllSteady(scenarios), CutInv(scenarios)
  PROVE  /\ port.read_cnt \in Nat
         /\ port.read_cnt + Left = cutCounter * cutCfg.rate + port.sample_delay
<1>1. AreSizes /\ AreAmounts
  BY Here
<1>2. /\ cutCounter \in Nat /\ cutCalls \in Nat /\ cutCounter - cutCalls \in Int /\ cutCfg.rate \in Int
      /\ cutCounter \in Int /\ cutCalls \in Int /\ cutWrites \in Nat
  <2>1. cutCfg.rate \in Int
    BY <1>1 DEF AreSizes
  <2>2. QED BY <2>1, Here
<1>3. port.read_cnt \in Nat /\ port.sample_delay = SampleDelay(cutCfg)
      /\ port.read_cnt = Times(cutCounter - cutCalls, cutCfg.rate) + cutWrites
  BY DEF CutInv, BufferInv, Ports
<1> DEFINE a == cutCounter - cutCalls
<1>4. Times(a + cutCalls, cutCfg.rate) = Times(a, cutCfg.rate) + Times(cutCalls, cutCfg.rate)
      /\ Times(a, cutCfg.rate) \in Int
  <2>1. \A i, j, t \in Int : Times(i + j, t) = Times(i, t) + Times(j, t) /\ Times(i, t) \in Int
    BY TimesSum, Zenon
  <2>2. a \in Int /\ cutCalls \in Int /\ cutCfg.rate \in Int
    BY <1>2
  <2> HIDE DEF a
  <2>3. QED BY <2>1, <2>2, Zenon
<1>5. a + cutCalls = cutCounter
  BY <1>2
<1>6. Times(cutCounter, cutCfg.rate) = cutCounter * cutCfg.rate
  BY DEF Times
<1> DEFINE x == Times(a, cutCfg.rate)  y == Called  z == cutCounter * cutCfg.rate
<1>7. z = x + y /\ x \in Int /\ y \in Nat /\ SampleDelay(cutCfg) \in Nat
      /\ Left = SampleDelay(cutCfg) + y - cutWrites /\ port.read_cnt = x + cutWrites
  BY <1>1, <1>3, <1>4, <1>5, <1>6 DEF Called, AreSizes, AreAmounts
<1> HIDE DEF x, y, z
<1>8. port.read_cnt + Left = z + port.sample_delay
  BY <1>2, <1>3, <1>7
<1>9. QED BY <1>3, <1>8 DEF z

\* When the samples of a call are due.
LEMMA CallDue ==
  ASSUME NEW scenarios, AllSteady(scenarios), CutInv(scenarios), NEW m \in Nat \ {0}
  PROVE  period_start + (cutCalls * cutCfg.rate + m - 1) * cutCfg.timestep + OverallDelay(cutCfg)
           = Due(Len(history) + m, cutCfg)
<1> DEFINE t == cutCfg.timestep  p == Taken - cutWrites  b == Called  d == SampleDelay(cutCfg)
           r == RemainingDelay(cutCfg)
<1>1. AreSizes /\ AreAmounts
  BY Here
<1>2. /\ t \in Int /\ p \in Int /\ b \in Int /\ d \in Int /\ r \in Int /\ p = Given - b
      /\ Given \in Int /\ Len(history) = 1 + d + Given
      /\ period_start = Times(p, t) /\ OverallDelay(cutCfg) = Times(d, t) + r
      /\ b = cutCalls * cutCfg.rate
  <2>1. cutWrites \in Nat
    BY Here
  <2>2. period_start = Times(p, t)
    BY DEF CutInv, TimeInv
  <2>3. b = cutCalls * cutCfg.rate
    BY DEF Called, Times
  <2>4. t \in Int /\ d \in Int /\ r \in Int /\ OverallDelay(cutCfg) = Times(d, t) + r
    BY <1>1 DEF AreSizes
  <2>5. b \in Nat /\ Given \in Nat /\ Taken = Given - b + cutWrites /\ Len(history) = 1 + d + Given
    BY <1>1, Zenon DEF AreAmounts
  <2> HIDE DEF t, b, d, r
  <2>6. p \in Int /\ p = Given - b
    BY <2>1, <2>5
  <2>7. QED BY <2>2, <2>3, <2>4, <2>5, <2>6
<1> DEFINE k == cutCalls * cutCfg.rate + m - 1
<1>3. k = b + m - 1 /\ k \in Int
  BY <1>2
<1> HIDE DEF t, p, b, d, r, k
<1>4. Times(p + k + d, t) = Times(p, t) + Times(k, t) + Times(d, t)
      /\ Times(p, t) \in Int /\ Times(k, t) \in Int /\ Times(d, t) \in Int
  <2>1. p \in Int /\ k \in Int /\ d \in Int /\ t \in Int
    BY <1>2, <1>3
  <2>2. QED BY <2>1, TimesSums
<1>5. p + k + d = Len(history) + m - 2
  <2>1. p = Given - b /\ k = b + m - 1 /\ Len(history) = 1 + d + Given
        /\ Given \in Int /\ b \in Int /\ d \in Int
    BY <1>2, <1>3, Zenon
  <2> HIDE DEF Given
  <2>2. QED BY <2>1
<1>6. k * t = Times(k, t)
  BY DEF Times
<1>7. period_start + k * t + OverallDelay(cutCfg) = Times(p + k + d, t) + r
  BY <1>2, <1>4, <1>6
<1>8. QED BY <1>5, <1>7 DEF Due, k, t, r

\* The samples a call of the module gives.
NewPoints ==
  [n \in 1..cutCfg.rate |->
     [due |-> period_start + (cutCalls * cutCfg.rate + n - 1) * cutCfg.timestep + OverallDelay(cutCfg),
      value |-> SampleValue(Given + n)]]

\* A call in terms of the samples left.
LEMMA CallIs ==
  ASSUME NEW scenarios, AllSteady(scenarios), CutInv(scenarios), CutCall
  PROVE  /\ port' = [port EXCEPT !.buffer_out =
                       AfterCall(port.buffer_out, port.read_cnt + Left, port.size, cutCfg.rate, Given)]
         /\ history' = history \o NewPoints
<1>1. Len(StartPoints(cutScenario)) = 1 + SampleDelay(cutCfg)
  <2>1. IsPresent(cutScenario) /\ SampleDelay(cutCfg) = SampleDelay(cutScenario.start)
    BY Here, SameDelays
  <2>2. /\ Scale \in Nat \ {0} /\ cutScenario.initial \in CutValues /\ cutScenario.start \in Configs
        /\ EnoughDelay(cutScenario.start)
    BY <2>1 DEF IsPresent
  <2>3. Len(StartPoints(cutScenario)) = 1 + SampleDelay(cutScenario.start)
    BY <2>2, StartIs
  <2>4. QED BY <2>1, <2>3
<1> DEFINE made == Len(history) - Len(StartPoints(cutScenario))
<1>2. made = Given
  <2>1. SampleDelay(cutCfg) \in Nat /\ Len(history) \in Nat
    BY Here DEF AreSizes, CutInv, CountInv
  <2>2. QED BY <1>1, <2>1 DEF Given
<1>3. DOMAIN port.buffer_out = 0..port.size - 1
  BY DEF CutInv, BufferInv
<1>4. CutPosition = port.read_cnt + Left
  BY CallPosition DEF CutPosition
<1>5. [i \in DOMAIN port.buffer_out |->
         IF OutSample(i) < cutCfg.rate THEN SampleValue(made + OutSample(i) + 1) ELSE port.buffer_out[i]]
      = AfterCall(port.buffer_out, port.read_cnt + Left, port.size, cutCfg.rate, Given)
  BY <1>2, <1>3, <1>4 DEF AfterCall, OutSample, Slot
<1>6. port' = [port EXCEPT !.buffer_out =
         [i \in DOMAIN port.buffer_out |->
            IF OutSample(i) < cutCfg.rate THEN SampleValue(made + OutSample(i) + 1) ELSE port.buffer_out[i]]]
  BY DEF CutCall
<1>7. history' = history \o
         [n \in 1..cutCfg.rate |->
            [due |-> period_start + (cutCalls * cutCfg.rate + n - 1) * cutCfg.timestep + OverallDelay(cutCfg),
             value |-> SampleValue(made + n)]]
  BY DEF CutCall
<1> HIDE DEF made
<1>8. history' = history \o NewPoints
  BY <1>2, <1>7 DEF NewPoints
<1>9. QED BY <1>5, <1>6, <1>8

\* The samples of a call are due one timestep after the other.
LEMMA CallPoints ==
  ASSUME NEW scenarios, AllSteady(scenarios), CutInv(scenarios), CutCall
  PROVE  /\ IsJoin(history', history, NewPoints, cutCfg.rate, Points)
         /\ \A m \in 1..cutCfg.rate : NewPoints[m].value = SampleValue(Given + m)
         /\ Dues(history', cutCfg)
<1> DEFINE g == NewPoints  r == cutCfg.rate  f == history'
<1>1. /\ r \in Nat \ {0} /\ r \in Nat /\ SampleDelay(cutCfg) \in Nat /\ cutCfg \in Configs /\ EnoughDelay(cutCfg)
      /\ history \in Seq(Points) /\ Dues(history, cutCfg) /\ Scale \in Nat \ {0} /\ Len(history) \in Nat
  BY Here DEF AreSizes, CutInv, CountInv, IsPresent
<1>2. Given \in Nat /\ Len(history) >= 1
  <2>1. Given \in Nat /\ Len(history) = 1 + SampleDelay(cutCfg) + Given
    BY Here, Zenon DEF AreAmounts
  <2>2. QED BY <1>1, <2>1
<1>3. ASSUME NEW m \in 1..r
      PROVE  /\ g[m].value = SampleValue(Given + m) /\ g[m].due = Due(Len(history) + m, cutCfg)
             /\ g[m] \in Points
  <2>1. m \in Nat \ {0} /\ Given + m \in Int /\ Len(history) + m \in Int
    BY <1>1, <1>2
  <2> DEFINE due == period_start + (cutCalls * cutCfg.rate + m - 1) * cutCfg.timestep + OverallDelay(cutCfg)
  <2>2. g[m] = [due |-> due, value |-> SampleValue(Given + m)]
    BY DEF NewPoints
  <2>3. due = Due(Len(history) + m, cutCfg)
    BY <2>1, CallDue
  <2>4. Due(Len(history) + m, cutCfg) \in Int
    BY <1>1, <2>1, DueNext
  <2>5. SampleValue(Given + m) \in CutValues
    BY <1>1, <2>1, SamplesAreInt
  <2> HIDE DEF due
  <2>6. QED BY <2>2, <2>3, <2>4, <2>5 DEF Points
<1>4. IsList(g, r, Points)
  <2>1. HasLen(g, r)
    BY DEF HasLen, NewPoints
  <2>2. QED BY <1>3, <2>1 DEF IsList
<1> HIDE DEF g
<1>5. IsJoin(f, history, g, r, Points)
  <2>1. f = history \o g
    BY CallIs DEF g
  <2>2. QED BY <1>1, <1>4, <2>1, JoinIs
<1> HIDE DEF f, r
<1>6. Dues(f, cutCfg)
  <2>1. /\ Len(f) = Len(history) + r /\ \A i \in 1..Len(history) : f[i] = history[i]
        /\ \A i \in 1..r : f[Len(history) + i] = g[i]
    BY <1>5 DEF IsJoin
  <2>2. ASSUME NEW j \in 2..Len(f) PROVE f[j].due = Due(j, cutCfg)
    <3>1. CASE j <= Len(history)
      <4>1. j \in 2..Len(history) /\ j \in 1..Len(history)
        BY <1>1, <3>1
      <4>2. QED BY <1>1, <2>1, <4>1 DEF Dues
    <3>2. CASE j > Len(history)
      <4>1. PICK m \in 1..r : Len(history) + m = j
        <5>1. j - Len(history) \in 1..r /\ Len(history) + (j - Len(history)) = j
          BY <1>1, <2>1, <3>2
        <5>2. QED BY <5>1
      <4>2. f[j] = g[m] /\ g[m].due = Due(Len(history) + m, cutCfg)
        BY <1>3, <2>1, <4>1
      <4>3. QED BY <4>1, <4>2
    <3>3. QED BY <1>1, <3>1, <3>2
  <2>3. f[1] = history[1]
    BY <1>1, <1>2, <2>1
  <2>4. QED BY <1>1, <2>2, <2>3 DEF Dues
<1>7. QED BY <1>3, <1>5, <1>6 DEF f, g, r

\* A call in which n more samples are called and given leaves what was taken.
LEMMA CallCounts ==
  ASSUME NEW scenarios, AllSteady(scenarios), CutInv(scenarios), CutCall
  PROVE  /\ Called' = Called + cutCfg.rate /\ Given' = Given + cutCfg.rate
         /\ Taken' = Taken /\ Left' = Left + cutCfg.rate
         /\ Called + cutCfg.rate <= Samples(cutCfg)
         /\ Len(history') = Len(history) + cutCfg.rate
<1> DEFINE r == cutCfg.rate  d == SampleDelay(cutCfg)
<1>1. /\ cutCalls' = cutCalls + 1 /\ cutCalls < cutCfg.calls /\ UNCHANGED <<cutCfg, cutWrites>>
  BY DEF CutCall
<1>2. r \in Nat \ {0} /\ d \in Nat /\ cutCfg.calls \in Nat \ {0} /\ Samples(cutCfg) = Times(cutCfg.calls, r)
  BY Here DEF AreSizes
<1>3. cutCalls \in Nat /\ cutWrites \in Nat
  BY Here
<1>4. Times(cutCalls + 1, r) = Times(cutCalls, r) + r
  <2>1. cutCalls \in Int /\ r \in Int
    BY <1>2, <1>3
  <2>2. QED BY <2>1, TimesNext
<1>5. Called' = Called + r
  BY <1>1, <1>4 DEF Called
<1>6. Len(history') = Len(history) + r
  BY CallPoints DEF IsJoin
<1>7. Len(history) \in Nat /\ Called \in Nat /\ Given \in Nat
  <2>1. Called \in Nat /\ Given \in Nat
    BY Here, Zenon DEF AreAmounts
  <2>2. history \in Seq(Points)
    BY DEF CutInv, CountInv
  <2>3. QED BY <2>1, <2>2
<1>8. Given' = Given + r
  <2>1. Given' = Len(history') - 1 - SampleDelay(cutCfg') /\ Given = Len(history) - 1 - d
    BY DEF Given
  <2>2. SampleDelay(cutCfg') = d
    BY <1>1
  <2> HIDE DEF r, d
  <2>3. QED BY <1>2, <1>6, <1>7, <2>1, <2>2
<1>9. Taken' = Taken /\ Left' = Left + r
  <2>1. Taken' = Given' - Called' + cutWrites' /\ Left' = SampleDelay(cutCfg') + Called' - cutWrites'
    BY DEF Taken, Left
  <2>2. Taken = Given - Called + cutWrites /\ Left = d + Called - cutWrites
    BY DEF Taken, Left
  <2> HIDE DEF r, d
  <2>3. QED BY <1>1, <1>2, <1>3, <1>5, <1>7, <1>8, <2>1, <2>2 DEF d
<1>10. Called + r <= Samples(cutCfg)
  <2>1. cutCalls + 1 \in Int /\ cutCfg.calls \in Int /\ cutCalls + 1 <= cutCfg.calls /\ r \in Nat
    BY <1>1, <1>2, <1>3
  <2>2. Times(cutCalls + 1, r) <= Times(cutCfg.calls, r)
    BY <2>1, TimesOrder
  <2>3. QED BY <1>2, <1>4, <2>2 DEF Called
<1>11. QED BY <1>5, <1>6, <1>8, <1>9, <1>10

\* A call of the module keeps the invariant.
LEMMA CallStep ==
  ASSUME NEW scenarios, AllSteady(scenarios), CutInv(scenarios), CutCall
  PROVE  CutInv(scenarios)'
<1> DEFINE r == cutCfg.rate  d == SampleDelay(cutCfg)  n == port.size  pos == port.read_cnt
           new == AfterCall(port.buffer_out, pos + Left, n, r, Given)
<1>1. /\ cutCalls' = cutCalls + 1 /\ cutCounter' = cutCounter + 1 /\ cutCalls < cutCfg.calls
      /\ UNCHANGED <<cutScenario, cutCfg, now, period_start, cutWrites, next_read, seen>>
  BY DEF CutCall
<1>2. /\ Called' = Called + r /\ Given' = Given + r /\ Taken' = Taken /\ Left' = Left + r
      /\ Called + r <= Samples(cutCfg) /\ Len(history') = Len(history) + r
  BY CallCounts
<1>3. /\ cutCfg \in Configs /\ EnoughDelay(cutCfg) /\ Scale \in Nat \ {0}
      /\ cutCalls \in Nat /\ cutWrites \in Nat /\ cutCounter \in Nat /\ cutCounter - cutCalls \in Nat
  BY Here DEF IsPresent
<1>4. r \in Nat \ {0} /\ d \in Nat /\ Samples(cutCfg) \in Nat \ {0} /\ n = d + Samples(cutCfg)
      /\ cutCfg.calls \in Nat \ {0}
  BY Here DEF AreSizes, CutInv, BufferInv
<1>5. /\ Called \in Nat /\ Given \in Nat /\ Taken \in Nat /\ Left \in Nat /\ Len(history) = Taken + 1 + Left
      /\ Left = d + Called - cutWrites
  BY Here, Zenon DEF AreAmounts
<1>6. /\ IsJoin(history', history, NewPoints, r, Points)
      /\ \A m \in 1..r : NewPoints[m].value = SampleValue(Given + m)
      /\ Dues(history', cutCfg)
  BY CallPoints
<1>7. ConfigInv(scenarios)'
  BY <1>1 DEF CutInv, ConfigInv
<1>8. CountInv'
  <2>1. cutWrites \in 0..Samples(cutCfg) /\ cutWrites <= d + Called /\ Called <= Given
    BY DEF CutInv, CountInv
  <2>2. cutCounter' \in Nat /\ cutCalls' \in 0..cutCfg.calls /\ cutCalls' <= cutCounter'
    BY <1>1, <1>3, <1>4
  <2>3. cutWrites <= d + Called' /\ Called' <= Given'
    <3> DEFINE x == Called'  y == Given'
    <3>1. cutWrites <= d + Called /\ Called <= Given /\ x = Called + r /\ y = Given + r
      BY <1>2, <2>1
    <3> HIDE DEF d, r, x, y
    <3>2. cutWrites <= d + x /\ x <= y
      BY <1>3, <1>4, <1>5, <3>1
    <3>3. QED BY <3>2 DEF x, y
  <2>4. history' \in Seq(Points)
    BY <1>6 DEF IsJoin
  <2>5. QED BY <1>1, <1>6, <2>1, <2>2, <2>3, <2>4 DEF CountInv
<1>9. port' = [port EXCEPT !.buffer_out = new]
  BY CallIs
<1>10. n \in Nat \ {0} /\ pos \in Nat /\ pos + Left \in Int /\ Left + r <= n
  <2>1. pos \in Nat
    BY CallPosition
  <2> HIDE DEF r, d, n, pos
  <2>2. QED BY <1>2, <1>3, <1>4, <1>5, <2>1
<1>11. /\ port \in Ports /\ port.sample_delay = d /\ port.remaining = RemainingDelay(cutCfg)
       /\ port.buffer_out \in [0..n - 1 -> CutValues] /\ port.size = BufferSize(cutCfg)
       /\ port.read_cnt = Times(cutCounter - cutCalls, cutCfg.rate) + cutWrites
       /\ Holds(port.buffer_out, pos, n, history, Taken, Left)
  BY DEF CutInv, BufferInv
<1>12. new \in [0..n - 1 -> CutValues] /\ Holds(new, pos, n, history', Taken, Left + r)
  <2> DEFINE buf == port.buffer_out  end == pos + Left
  <2>1. end \in Int /\ Given \in Int /\ r \in Nat
    BY <1>4, <1>5, <1>10
  <2>2. new \in [0..n - 1 -> CutValues]
    <3> HIDE DEF n, pos, r, buf, end
    <3>1. AfterCall(buf, end, n, r, Given) \in [0..n - 1 -> CutValues]
      BY <1>3, <1>10, <1>11, <2>1, AfterCallType DEF buf
    <3>2. QED BY <3>1 DEF buf, end
  <2>3. Holds(new, pos, n, history', Taken, Left + r)
    <3> DEFINE f == history'
    <3> HIDE DEF n, pos, r, buf, end, f, new
    <3>1. Holds(AfterCall(buf, pos + Left, n, r, Given), pos, n, f, Taken, Left + r)
      BY <1>5, <1>6, <1>10, <1>11, <2>1, HoldsCall DEF buf, f
    <3>2. QED BY <3>1 DEF buf, new, f
  <2>4. QED BY <2>2, <2>3
<1> HIDE DEF new
<1>13. /\ port' \in Ports /\ port'.buffer_out = new /\ port'.size = n /\ port'.read_cnt = pos
       /\ port'.sample_delay = d /\ port'.remaining = RemainingDelay(cutCfg)
       /\ port'.next_value = port.next_value /\ port'.next_time = port.next_time
       /\ port'.last_value = port.last_value /\ port'.interpolator = port.interpolator
       /\ port'.last_stored_time = port.last_stored_time
  <2>1. new \in Buffers
    BY <1>10, <1>12 DEF Buffers
  <2>2. QED BY <1>9, <1>11, <2>1 DEF Ports
<1>14. BufferInv'
  <2>1. cutCounter' - cutCalls' = cutCounter - cutCalls
    BY <1>1, <1>3
  <2>2. QED BY <1>1, <1>2, <1>11, <1>12, <1>13, <2>1 DEF BufferInv
<1>15. TimeInv'
  BY <1>1, <1>2 DEF CutInv, TimeInv
<1>16. SignalInv'
  <2>1. history'[Taken + 1] = history[Taken + 1] /\ (Taken > 0 => history'[Taken] = history[Taken])
    <3>1. \A i \in 1..Len(history) : history'[i] = history[i]
      BY <1>6 DEF IsJoin
    <3>2. Taken + 1 \in 1..Len(history) /\ (Taken > 0 => Taken \in 1..Len(history))
      BY <1>5
    <3>3. QED BY <3>1, <3>2
  <2>2. cutCfg.cut = "dt" => IsStep(port', history', Taken, now, cutCfg)
    BY <1>13, <2>1 DEF CutInv, SignalInv, IsStep
  <2>3. cutCfg.cut = "ct" => IsLine(port', history', Taken, cutCfg)
    BY <1>5, <1>13, <2>1 DEF CutInv, SignalInv, IsLine
  <2>4. QED BY <1>1, <1>2, <2>2, <2>3 DEF SignalInv
<1>17. QED BY <1>7, <1>8, <1>14, <1>15, <1>16 DEF CutInv
-------------------------------------------------------------------------------
(* Writes *)

\* Before the Taken-th write is its time.
LEMMA WriteTimeIs ==
  ASSUME NEW scenarios, AllSteady(scenarios), CutInv(scenarios)
  PROVE  WriteTime = Times(Taken, cutCfg.timestep) /\ WriteTime \in Nat
<1> DEFINE t == cutCfg.timestep  a == Taken - cutWrites
<1>1. t \in Nat /\ t \in Int /\ cutWrites \in Int /\ cutWrites \in Nat
  BY Here DEF AreSizes
<1>2. Taken \in Nat
  BY Here, Zenon DEF AreAmounts
<1>3. a \in Int /\ a + cutWrites = Taken
  BY <1>1, <1>2
<1>4. period_start = Times(a, t)
  BY DEF CutInv, TimeInv
<1>5. Times(Taken, t) \in Nat
  BY <1>1, <1>2, TimesType
<1> HIDE DEF a, t
<1>6. Times(a + cutWrites, t) = Times(a, t) + Times(cutWrites, t)
  BY <1>1, <1>3, TimesSum
<1>7. Times(cutWrites, t) = cutWrites * t
  BY DEF Times
<1>8. QED BY <1>3, <1>4, <1>5, <1>6, <1>7 DEF WriteTime, t

\* A write takes one sample at its time.
LEMMA WriteCounts ==
  ASSUME NEW scenarios, AllSteady(scenarios), CutInv(scenarios), cut_write_to_sc
  PROVE  /\ Called' = Called /\ Given' = Given /\ Taken' = Taken + 1 /\ Left' = Left - 1
         /\ Left \in Nat \ {0} /\ Taken + 2 \in 1..Len(history)
         /\ now = Times(Taken, cutCfg.timestep) /\ cutWrites + 1 <= Samples(cutCfg)
<1>1. /\ cutWrites' = cutWrites + 1 /\ cutWrites < Samples(cutCfg) /\ now = WriteTime
      /\ cutWrites < port.sample_delay + cutCalls * cutCfg.rate /\ UNCHANGED <<cutCfg, cutCalls, history>>
  BY DEF cut_write_to_sc
<1> DEFINE d == SampleDelay(cutCfg)  n == Len(history)
<1>2. /\ Called \in Nat /\ Given \in Nat /\ Taken \in Nat /\ Left \in Nat /\ n = Taken + 1 + Left
      /\ Taken = Given - Called + cutWrites /\ Left = d + Called - cutWrites
  BY Here, Zenon DEF AreAmounts
<1>3. d \in Nat /\ Samples(cutCfg) \in Nat \ {0} /\ port.sample_delay = d /\ cutWrites \in Nat
  BY Here DEF AreSizes, CutInv, BufferInv
<1>4. Called = cutCalls * cutCfg.rate
  BY DEF Called, Times
<1>5. Called' = Called /\ Given' = Given /\ d' = d
  BY <1>1 DEF Called, Given
<1>6. Taken' = Given' - Called' + cutWrites' /\ Left' = d' + Called' - cutWrites'
  BY DEF Taken, Left
<1>7. now = Times(Taken, cutCfg.timestep)
  BY <1>1, WriteTimeIs
<1>8. cutWrites < d + Called
  BY <1>1, <1>3, <1>4
<1> DEFINE m == Samples(cutCfg)  a == Taken'  b == Left'
<1>9. m \in Nat /\ cutWrites < m /\ a = Given - Called + (cutWrites + 1) /\ b = d + Called - (cutWrites + 1)
  BY <1>1, <1>3, <1>5, <1>6
<1> HIDE DEF d, n, m, a, b
<1>10. a = Taken + 1 /\ b = Left - 1 /\ Left \in Nat \ {0} /\ Taken + 2 \in 1..n /\ cutWrites + 1 <= m
  BY <1>2, <1>3, <1>8, <1>9
<1>11. QED BY <1>5, <1>7, <1>10 DEF a, b, n, m

\* The times after a write.
LEMMA WriteBetween ==
  ASSUME NEW c \in Configs, NEW taken \in Nat, now = Times(taken, c.timestep)
  PROVE  IsBetween(now, taken + 1, c)
<1> DEFINE t == c.timestep
<1>1. t \in Nat \ {0} /\ t \in Int /\ taken \in Int /\ taken + 1 - 1 = taken
  BY DEF Configs
<1>2. Times(taken + 1, t) = Times(taken, t) + t /\ Times(taken, t) \in Int
  BY <1>1, TimesNext
<1> HIDE DEF t
<1>3. QED BY <1>1, <1>2 DEF IsBetween, t

\* A line is one timestep ahead.
LEMMA Steadiness ==
  ASSUME NEW scenarios, AllSteady(scenarios), CutInv(scenarios), cutCfg.cut = "ct"
  PROVE  RemainingDelay(cutCfg) = cutCfg.timestep
<1> DEFINE s == cutScenario.start
<1>1. IsPresent(cutScenario) /\ SameSignal(cutCfg, s) /\ cutCfg \in Configs
  BY Here
<1>2. cutCfg.ct_delay % cutCfg.timestep = 0
  <2>1. s.cut = "ct" /\ cutCfg.ct_delay = s.ct_delay /\ cutCfg.timestep = s.timestep
    BY <1>1 DEF SameSignal
  <2>2. s.ct_delay % s.timestep = 0
    BY <1>1, <2>1, Zenon DEF IsPresent, Steady
  <2>3. QED BY <2>1, <2>2
<1>3. QED BY <1>1, <1>2, WholeDelay

\* A write keeps the invariant.
LEMMA WriteStep ==
  ASSUME NEW scenarios, AllSteady(scenarios), CutInv(scenarios), cut_write_to_sc
  PROVE  CutInv(scenarios)'
<1> DEFINE d == SampleDelay(cutCfg)  n == port.size  pos == port.read_cnt
           v == history[Taken + 2].value  p == [port EXCEPT !.read_cnt = @ + 1]
           q == IF cutCfg.cut = "dt" THEN write_dt(p, v) ELSE write_ct(p, v)
<1>1. /\ cutWrites' = cutWrites + 1
      /\ UNCHANGED <<cutScenario, cutCfg, cutCounter, now, period_start, cutCalls, next_read, history, seen>>
  BY DEF cut_write_to_sc
<1>2. /\ Called' = Called /\ Given' = Given /\ Taken' = Taken + 1 /\ Left' = Left - 1
      /\ Left \in Nat \ {0} /\ Taken + 2 \in 1..Len(history)
      /\ now = Times(Taken, cutCfg.timestep) /\ cutWrites + 1 <= Samples(cutCfg)
  BY WriteCounts
<1>3. /\ cutCfg \in Configs /\ EnoughDelay(cutCfg) /\ cutCalls \in Nat /\ cutWrites \in Nat /\ now \in Nat /\ now < Never
      /\ cutCfg.cut \in {"dt", "ct"}
  BY Here DEF Configs
<1>4. d \in Nat /\ Samples(cutCfg) \in Nat \ {0} /\ cutCfg.rate \in Nat
  BY Here DEF AreSizes
<1>5. Called \in Nat /\ Given \in Nat /\ Taken \in Nat /\ Left = d + Called - cutWrites
  BY Here, Zenon DEF AreAmounts
<1>6. /\ port \in Ports /\ port.sample_delay = d /\ port.remaining = RemainingDelay(cutCfg)
      /\ port.buffer_out \in [0..n - 1 -> CutValues] /\ n = BufferSize(cutCfg)
      /\ pos = Times(cutCounter - cutCalls, cutCfg.rate) + cutWrites
      /\ Holds(port.buffer_out, pos, n, history, Taken, Left)
      /\ n \in Nat \ {0} /\ pos \in Nat
  BY DEF CutInv, BufferInv, Ports
<1>7. ConfigInv(scenarios)'
  BY <1>1 DEF CutInv, ConfigInv
<1>8. CountInv'
  <2>1. cutWrites \in 0..Samples(cutCfg) /\ cutWrites <= d + Called
    BY DEF CutInv, CountInv
  <2>2. cutWrites + 1 \in 0..Samples(cutCfg) /\ cutWrites + 1 <= d + Called
    <3> DEFINE m == Samples(cutCfg)
    <3>1. m \in Nat /\ cutWrites + 1 <= m
      BY <1>2, <1>4
    <3> HIDE DEF d, m
    <3>2. cutWrites + 1 \in 0..m /\ cutWrites + 1 <= d + Called
      BY <1>2, <1>3, <1>4, <1>5, <3>1
    <3>3. QED BY <3>2 DEF m
  <2>3. QED BY <1>1, <1>2, <2>2 DEF CutInv, CountInv
<1>9. /\ port.buffer_out[Slot(pos, n)] = v
      /\ Holds(port.buffer_out, pos + 1, n, history, Taken + 1, Left - 1)
  <2> HIDE DEF n, pos
  <2>1. /\ n \in Nat \ {0} /\ pos \in Nat /\ Left \in Nat \ {0} /\ Taken \in Nat
        /\ Holds(port.buffer_out, pos, n, history, Taken, Left)
    BY <1>2, <1>5, <1>6
  <2>2. QED BY <2>1, HoldsTake
<1>10. port' = q
  <2>1. port' = LET w == port.buffer_out[pos % n]
                IN IF cutCfg.cut = "dt" THEN write_dt(p, w) ELSE write_ct(p, w)
    BY DEF cut_write_to_sc
  <2>2. port.buffer_out[pos % n] = v
    BY <1>9 DEF Slot
  <2> HIDE DEF v, p, pos, n
  <2>3. QED BY <2>1, <2>2 DEF q
<1>11. /\ p \in Ports /\ p.read_cnt = pos + 1 /\ p.buffer_out = port.buffer_out /\ p.size = n
       /\ p.sample_delay = d /\ p.remaining = RemainingDelay(cutCfg)
       /\ p.next_value = port.next_value /\ p.next_time = port.next_time
       /\ p.last_value = port.last_value /\ p.interpolator = port.interpolator
       /\ p.last_stored_time = port.last_stored_time
  <2>1. port \in Ports /\ pos \in Nat
    BY <1>6
  <2>2. p \in Ports
    BY <2>1 DEF Ports
  <2>3. /\ p.read_cnt = pos + 1 /\ p.buffer_out = port.buffer_out /\ p.size = n
        /\ p.sample_delay = port.sample_delay /\ p.remaining = port.remaining
        /\ p.next_value = port.next_value /\ p.next_time = port.next_time
        /\ p.last_value = port.last_value /\ p.interpolator = port.interpolator
        /\ p.last_stored_time = port.last_stored_time
    BY <2>1 DEF Ports
  <2> HIDE DEF p, pos, n, d
  <2>4. QED BY <1>6, <2>2, <2>3
<1>12. v \in CutValues
  <2>1. history[Taken + 2] \in Points
    <3>1. history \in Seq(Points)
      BY DEF CutInv, CountInv
    <3>2. QED BY <1>2, <3>1
  <2>2. QED BY <2>1 DEF Points
<1> HIDE DEF v, p, n, pos, d
<1>13. /\ q \in Ports /\ q.read_cnt = pos + 1 /\ q.buffer_out = port.buffer_out /\ q.size = n
       /\ q.sample_delay = d /\ q.remaining = RemainingDelay(cutCfg)
       /\ cutCfg.cut = "dt" => IsStep(q, history, Taken + 1, now, cutCfg)
       /\ cutCfg.cut = "ct" => IsLine(q, history, Taken + 1, cutCfg)
  <2>1. CASE cutCfg.cut = "dt"
    <3>1. IsStep(p, history, Taken, now, cutCfg)
      BY <1>11, <2>1 DEF CutInv, SignalInv, IsStep
    <3>2. IsStep(write_dt(p, v), history, Taken + 1, now, cutCfg)
      BY <1>2, <1>5, <1>11, <3>1, StepWritten DEF v
    <3>3. write_dt(p, v) \in Ports
      BY <1>3, <1>11, <1>12, DtWrites
    <3>4. q = write_dt(p, v)
      BY <2>1
    <3>5. /\ q.buffer_out = p.buffer_out /\ q.size = p.size /\ q.read_cnt = p.read_cnt
          /\ q.sample_delay = p.sample_delay /\ q.remaining = p.remaining
      BY <1>11, <3>4 DEF write_dt, Ports
    <3> HIDE DEF q
    <3>6. QED BY <1>11, <2>1, <3>2, <3>3, <3>4, <3>5
  <2>2. CASE cutCfg.cut = "ct"
    <3>1. IsLine(p, history, Taken, cutCfg)
      BY <1>11, <2>2 DEF CutInv, SignalInv, IsLine
    <3>2. p.remaining = cutCfg.timestep
      BY <1>11, <2>2, Steadiness
    <3> DEFINE x == write_ct(p, v)
    <3>3. /\ x \in Ports /\ IsLine(x, history, Taken + 1, cutCfg)
          /\ x.buffer_out = p.buffer_out /\ x.size = p.size /\ x.read_cnt = p.read_cnt
          /\ x.sample_delay = p.sample_delay /\ x.remaining = p.remaining
      BY <1>2, <1>3, <1>5, <1>11, <1>12, <3>1, <3>2, LineWritten DEF v
    <3>4. q = x
      BY <2>2
    <3> HIDE DEF q, x
    <3>5. QED BY <1>11, <2>2, <3>3, <3>4
  <2>3. QED BY <1>3, <2>1, <2>2
<1> HIDE DEF q
<1>14. BufferInv'
  <2>1. port'.read_cnt = Times(cutCounter - cutCalls, cutCfg.rate) + (cutWrites + 1)
    <3> DEFINE x == Times(cutCounter - cutCalls, cutCfg.rate)
    <3>1. x \in Int
      <4>1. cutCounter - cutCalls \in Nat
        BY Here
      <4> DEFINE a == cutCounter - cutCalls
      <4> HIDE DEF a
      <4>2. Times(a, cutCfg.rate) \in Nat
        BY <1>4, <4>1, TimesType DEF a
      <4>3. QED BY <4>2 DEF a
    <3>2. pos = x + cutWrites
      BY <1>6 DEF pos
    <3> HIDE DEF x
    <3>3. pos + 1 = x + (cutWrites + 1)
      BY <1>3, <3>1, <3>2
    <3>4. QED BY <1>10, <1>13, <3>3 DEF x
  <2>2. QED BY <1>1, <1>2, <1>6, <1>9, <1>10, <1>13, <2>1 DEF BufferInv, n, d
<1>15. TimeInv'
  <2>1. Taken + 1 - (cutWrites + 1) = Taken - cutWrites
    BY <1>3, <1>5
  <2>2. IsBetween(now, Taken + 1, cutCfg)
    BY <1>2, <1>3, <1>5, WriteBetween
  <2>3. /\ now \in 0..MaxTime /\ period_start \in 0..now /\ next_read \in now..now + cutScenario.step
        /\ period_start = Times(Taken - cutWrites, cutCfg.timestep)
    BY DEF CutInv, TimeInv
  <2>4. period_start' = Times(Taken' - cutWrites', cutCfg.timestep')
    <3> DEFINE a == Taken'  b == cutWrites'
    <3>1. a = Taken + 1 /\ b = cutWrites + 1
      BY <1>1, <1>2
    <3>2. period_start' = period_start /\ cutCfg'.timestep = cutCfg.timestep
      BY <1>1
    <3> HIDE DEF a, b
    <3>3. a - b = Taken - cutWrites
      BY <1>3, <1>5, <3>1
    <3>4. QED BY <2>3, <3>2, <3>3 DEF a, b
  <2>5. IsBetween(now', Taken', cutCfg')
    BY <1>1, <1>2, <2>2
  <2>6. QED BY <1>1, <2>3, <2>4, <2>5 DEF TimeInv
<1>16. SignalInv'
  BY <1>1, <1>2, <1>10, <1>13 DEF SignalInv
<1>17. QED BY <1>7, <1>8, <1>14, <1>15, <1>16 DEF CutInv
-------------------------------------------------------------------------------
(* The end of a period *)

\* All samples of the period were called for and written.
LEMMA PeriodCounts ==
  ASSUME NEW scenarios, AllSteady(scenarios), CutInv(scenarios), PeriodDone
  PROVE  /\ Taken = Given /\ Left = SampleDelay(cutCfg) /\ now = Times(Taken, cutCfg.timestep)
         /\ Called = cutWrites /\ Taken \in Nat
         /\ port.read_cnt = Times(cutCounter, cutCfg.rate)
<1>1. cutWrites = Samples(cutCfg) /\ cutCalls = cutCfg.calls /\ now = WriteTime
  BY DEF PeriodDone
<1>2. /\ Called \in Nat /\ Given \in Nat /\ Taken = Given - Called + cutWrites
      /\ Left = SampleDelay(cutCfg) + Called - cutWrites
  BY Here, Zenon DEF AreAmounts
<1>3. Samples(cutCfg) = Times(cutCfg.calls, cutCfg.rate) /\ SampleDelay(cutCfg) \in Nat /\ cutCfg.rate \in Int
  BY Here DEF AreSizes
<1>4. Called = cutWrites
  BY <1>1, <1>3 DEF Called
<1>5. Taken = Given /\ Left = SampleDelay(cutCfg)
  <2> DEFINE d == SampleDelay(cutCfg)
  <2> HIDE DEF d
  <2>1. Taken = Given /\ Left = d
    BY <1>2, <1>3, <1>4 DEF d
  <2>2. QED BY <2>1 DEF d
<1>6. port.read_cnt = Times(cutCounter, cutCfg.rate)
  <2> DEFINE a == cutCounter - cutCalls  r == cutCfg.rate
  <2>1. a + cutCalls = cutCounter /\ a \in Int /\ cutCalls \in Int /\ r \in Int
    BY <1>3, Here
  <2>2. port.read_cnt = Times(a, r) + cutWrites
    BY DEF CutInv, BufferInv
  <2> HIDE DEF a, r
  <2>3. Times(a + cutCalls, r) = Times(a, r) + Times(cutCalls, r)
    BY <2>1, TimesSum
  <2>4. QED BY <1>4, <2>1, <2>2, <2>3 DEF Called, r
<1>7. now = Times(Taken, cutCfg.timestep)
  BY <1>1, WriteTimeIs
<1>8. QED BY <1>2, <1>4, <1>5, <1>6, <1>7

\* The next period starts with the samples left, maybe in another buffer.
LEMMA PeriodStep ==
  ASSUME NEW scenarios, AllSteady(scenarios), CutInv(scenarios), PeriodDone,
         cutCfg' \in Configs, EnoughDelay(cutCfg'), SameSignal(cutCfg', cutCfg),
         cutCounter' \in Nat, period_start' = now, cutCalls' = 0, cutWrites' = 0,
         UNCHANGED <<cutScenario, now, next_read, history>>,
         /\ port' \in Ports
         /\ port'.size = BufferSize(cutCfg') /\ port'.sample_delay = SampleDelay(cutCfg')
         /\ port'.remaining = RemainingDelay(cutCfg')
         /\ port'.buffer_out \in [0..port'.size - 1 -> CutValues]
         /\ port'.read_cnt = Times(cutCounter', cutCfg'.rate)
         /\ Holds(port'.buffer_out, port'.read_cnt, port'.size, history, Taken, Left),
         /\ port'.last_value = port.last_value /\ port'.next_value = port.next_value
         /\ port'.next_time = port.next_time /\ port'.interpolator = port.interpolator
         /\ port'.last_stored_time = port.last_stored_time
  PROVE  CutInv(scenarios)'
<1> DEFINE d == cutCfg'  t == cutCfg.timestep
<1>1. /\ Taken = Given /\ Left = SampleDelay(cutCfg) /\ now = Times(Taken, t)
      /\ Called = cutWrites /\ Taken \in Nat
  BY PeriodCounts
<1>2. /\ SampleDelay(d) = SampleDelay(cutCfg) /\ RemainingDelay(d) = RemainingDelay(cutCfg)
      /\ d.cut = cutCfg.cut /\ d.timestep = t
  BY SameDelays DEF SameSignal
<1>3. /\ Samples(d) \in Nat \ {0} /\ d.rate \in Nat \ {0} /\ d.calls \in Nat \ {0}
      /\ SampleDelay(d) \in Nat /\ t \in Nat
  <2>1. d \in Configs /\ EnoughDelay(d)
    OBVIOUS
  <2> HIDE DEF d
  <2>2. QED BY <1>2, <2>1, Sizes, DelayParts
<1>4. Called' = 0
  <2>1. Times(0, d.rate) = 0
    BY <1>3, TimesFew
  <2>2. QED BY <2>1 DEF Called
<1>5. Given' = Given
  BY <1>2 DEF Given
<1>6. Taken' = Taken /\ Left' = Left
  <2>1. Taken' = Given' - Called' + cutWrites' /\ Left' = SampleDelay(d) + Called' - cutWrites'
    BY DEF Taken, Left
  <2>2. Taken' = Taken - 0 + 0 /\ Left' = Left + 0 - 0
    BY <1>1, <1>2, <1>4, <1>5, <2>1
  <2>3. Left \in Nat
    BY <1>1, <1>2, <1>3
  <2>4. QED BY <1>1, <2>2, <2>3
<1>7. ConfigInv(scenarios)'
  <2>1. SameSignal(d, cutScenario.start)
    BY Here DEF SameSignal
  <2>2. QED BY <2>1 DEF CutInv, ConfigInv
<1>8. CountInv'
  <2>1. history \in Seq(Points) /\ Dues(history, cutCfg)
    BY DEF CutInv, CountInv
  <2>2. Dues(history, d)
    BY <1>2, <2>1 DEF Dues, Due
  <2>3. Given \in Nat
    BY <1>1
  <2> HIDE DEF d
  <2>4. /\ 0 \in 0..d.calls /\ 0 <= cutCounter' /\ 0 \in 0..Samples(d) /\ 0 <= SampleDelay(d) + 0
        /\ 0 <= Given
    BY <1>3, <2>3
  <2>5. QED BY <1>4, <1>5, <2>1, <2>2, <2>4 DEF CountInv, d
<1>9. BufferInv'
  <2>1. Times(cutCounter' - cutCalls', d.rate) + cutWrites' = Times(cutCounter', d.rate)
    <3>1. cutCounter' - cutCalls' = cutCounter'
      <4> DEFINE k == cutCounter'  j == cutCalls'
      <4>1. k \in Nat /\ j = 0
        OBVIOUS
      <4> HIDE DEF k, j
      <4>2. k - j = k
        BY <4>1
      <4>3. QED BY <4>2 DEF k, j
    <3>2. Times(cutCounter', d.rate) \in Int
      <4> DEFINE k == cutCounter'  r == d.rate
      <4>1. k \in Nat /\ r \in Nat
        BY <1>3
      <4> HIDE DEF k, r
      <4>2. Times(k, r) \in Nat
        BY <4>1, TimesType
      <4>3. QED BY <4>2 DEF k, r
    <3>3. QED BY <3>1, <3>2
  <2>2. QED BY <1>6, <2>1 DEF BufferInv
<1>10. TimeInv'
  <2>1. now \in 0..MaxTime /\ next_read \in now..now + cutScenario.step /\ now \in Nat
    BY Here DEF CutInv, TimeInv
  <2>2. IsBetween(now, Taken, cutCfg)
    BY DEF CutInv, TimeInv
  <2>3. IsBetween(now, Taken, d)
    BY <1>2, <2>2 DEF IsBetween
  <2>4. Times(Taken' - cutWrites', d.timestep) = now
    <3>1. Taken' - cutWrites' = Taken
      <4> DEFINE a == Taken'
      <4>1. a = Taken
        BY <1>6
      <4> HIDE DEF a
      <4>2. a - 0 = Taken
        BY <1>1, <4>1
      <4>3. QED BY <4>2 DEF a
    <3>2. QED BY <1>1, <1>2, <3>1
  <2>5. now \in 0..now
    BY <2>1
  <2>6. IsBetween(now', Taken', d)
    BY <1>6, <2>3
  <2>7. QED BY <2>1, <2>4, <2>5, <2>6 DEF TimeInv
<1>11. SignalInv'
  <2>1. cutCfg.cut = "dt" => IsStep(port', history, Taken, now, d)
    BY <1>2 DEF CutInv, SignalInv, IsStep, Due
  <2>2. cutCfg.cut = "ct" => IsLine(port', history, Taken, d)
    BY <1>2 DEF CutInv, SignalInv, IsLine
  <2>3. QED BY <1>2, <1>6, <2>1, <2>2 DEF SignalInv
<1>12. QED BY <1>7, <1>8, <1>9, <1>10, <1>11 DEF CutInv

\* The same buffer goes on.
LEMMA NextPeriodStep ==
  ASSUME NEW scenarios, AllSteady(scenarios), CutInv(scenarios), NextPeriod
  PROVE  CutInv(scenarios)'
<1>1. /\ PeriodDone /\ period_start' = now /\ cutCalls' = 0 /\ cutWrites' = 0
      /\ UNCHANGED <<cutScenario, cutCfg, port, cutCounter, now, next_read, history>>
  BY DEF NextPeriod
<1>2. cutCfg \in Configs /\ EnoughDelay(cutCfg) /\ SameSignal(cutCfg, cutCfg) /\ cutCounter \in Nat
  BY Here DEF SameSignal
<1>3. port.read_cnt = Times(cutCounter, cutCfg.rate)
  BY <1>1, PeriodCounts
<1>4. /\ port \in Ports
      /\ port.size = BufferSize(cutCfg) /\ port.sample_delay = SampleDelay(cutCfg)
      /\ port.remaining = RemainingDelay(cutCfg)
      /\ port.buffer_out \in [0..port.size - 1 -> CutValues]
      /\ Holds(port.buffer_out, port.read_cnt, port.size, history, Taken, Left)
  BY DEF CutInv, BufferInv
<1>5. QED BY <1>1, <1>2, <1>3, <1>4, PeriodStep
-------------------------------------------------------------------------------
(* Re-scheduling *)

\* What a steady scenario lets change.
LEMMA ChangeIs ==
  ASSUME NEW scenarios, AllSteady(scenarios), CutInv(scenarios), NEW c,
         <<cutCfg, c>> \in cutScenario.changes
  PROVE  /\ c \in Configs /\ EnoughDelay(c) /\ SameSignal(c, cutCfg)
         /\ BufferSize(c) # BufferSize(cutCfg) /\ BufferSize(c) \in Nat \ {0}
         /\ Times(c.calls, c.rate) \in Nat
<1>1. IsPresent(cutScenario) /\ cutCfg \in Configs
  BY Here
<1>2. c = [cutCfg EXCEPT !.rate = c.rate, !.calls = c.calls] /\ Samples(cutCfg) # Samples(c)
  <2> DEFINE e == <<cutCfg, c>>
  <2>1. \A x \in cutScenario.changes : x[2] = [x[1] EXCEPT !.rate = x[2].rate, !.calls = x[2].calls]
                                       /\ Samples(x[1]) # Samples(x[2])
    BY <1>1 DEF IsPresent, Steady
  <2>2. e[1] = cutCfg /\ e[2] = c /\ e \in cutScenario.changes
    OBVIOUS
  <2> HIDE DEF e
  <2>3. e[2] = [e[1] EXCEPT !.rate = e[2].rate, !.calls = e[2].calls] /\ Samples(e[1]) # Samples(e[2])
    BY <2>1, <2>2, Zenon
  <2>4. QED BY <2>2, <2>3, Zenon
<1>3. c \in Configs /\ EnoughDelay(c)
  <2> DEFINE e == <<cutCfg, c>>
  <2>1. e[2] = c /\ e \in cutScenario.changes
    OBVIOUS
  <2> HIDE DEF e
  <2>2. e[2] \in Configs /\ EnoughDelay(e[2])
    BY <1>1, <2>1 DEF IsPresent
  <2>3. QED BY <2>1, <2>2
<1>4. SameSignal(c, cutCfg)
  <2>1. c.cut = cutCfg.cut /\ c.delay = cutCfg.delay /\ c.ct_delay = cutCfg.ct_delay /\ c.timestep = cutCfg.timestep
    BY <1>1, <1>2 DEF Configs
  <2>2. QED BY <2>1 DEF SameSignal
<1>5. BufferSize(c) # BufferSize(cutCfg) /\ BufferSize(c) \in Nat \ {0} /\ Times(c.calls, c.rate) \in Nat
  <2>1. /\ SampleDelay(c) = SampleDelay(cutCfg) /\ SampleDelay(c) \in Nat
        /\ BufferSize(c) = SampleDelay(c) + Samples(c) /\ Samples(c) \in Nat \ {0}
        /\ Samples(c) = Times(c.calls, c.rate) /\ BufferSize(c) \in Nat \ {0}
    BY <1>3, <1>4, SameDelays, DelayParts, Sizes
  <2>2. BufferSize(cutCfg) = SampleDelay(cutCfg) + Samples(cutCfg) /\ Samples(cutCfg) \in Nat \ {0}
    BY Here DEF AreSizes
  <2> DEFINE a == SampleDelay(cutCfg)  x == Samples(c)  y == Samples(cutCfg)
  <2>3. a \in Nat /\ x \in Nat /\ y \in Nat /\ x # y /\ BufferSize(c) = a + x /\ BufferSize(cutCfg) = a + y
    BY <1>2, <2>1, <2>2
  <2> HIDE DEF a, x, y
  <2>4. BufferSize(c) # BufferSize(cutCfg)
    BY <2>3
  <2>5. QED BY <2>1, <2>4
<1>6. QED BY <1>3, <1>4, <1>5

\* With the same delays there is nothing to follow.
LEMMA TimingKept ==
  ASSUME NEW p \in Ports, NEW c, p.remaining = RemainingDelay(c), p.sample_delay = SampleDelay(c)
  PROVE  reinitialize_port_timing(p, c) = p
<1>1. [p EXCEPT !.remaining = RemainingDelay(c), !.sample_delay = SampleDelay(c)] = p
  BY DEF Ports
<1>2. RemainingDelay(c) - p.remaining = 0
  <2>1. p.remaining \in Nat
    BY DEF Ports
  <2>2. QED BY <2>1
<1>3. recalculate_delays(p, c) = p
  BY <1>1, <1>2 DEF recalculate_delays
<1>4. QED BY <1>1, <1>3 DEF reinitialize_port_timing

\* A buffer of another size is a new one.
LEMMA PortMoved ==
  ASSUME NEW p \in Ports, NEW c, NEW counter, counter * c.rate \in Nat,
         BufferSize(c) \in Nat \ {0}, BufferSize(c) # p.size,
         p.remaining = RemainingDelay(c), p.sample_delay = SampleDelay(c),
         p.buffer_out \in [0..p.size - 1 -> CutValues]
  PROVE  LET q == reinitialize_port(p, c, counter)
             first == counter * c.rate
             n == BufferSize(c)
         IN /\ q \in Ports /\ q.size = n /\ q.read_cnt = first
            /\ q.sample_delay = p.sample_delay /\ q.remaining = p.remaining
            /\ q.buffer_out = Moved(p.buffer_out, p.read_cnt, p.size, first, n, SampleDelay(c))
            /\ q.buffer_out \in [0..n - 1 -> CutValues]
            /\ q.last_value = p.last_value /\ q.next_value = p.next_value
            /\ q.next_time = p.next_time /\ q.interpolator = p.interpolator
            /\ q.last_stored_time = p.last_stored_time
<1> DEFINE q == reinitialize_port(p, c, counter)  first == counter * c.rate  n == BufferSize(c)
           buf == Moved(p.buffer_out, p.read_cnt, p.size, first, n, SampleDelay(c))
<1>1. reinitialize_port_timing(p, c) = p
  BY TimingKept
<1>2. q = [p EXCEPT !.buffer_out = buf, !.size = n, !.read_cnt = first]
  BY <1>1 DEF reinitialize_port, Moved, Slot
<1>3. p.size \in Nat \ {0} /\ p.read_cnt \in Nat
  BY DEF Ports
<1>4. buf \in [0..n - 1 -> CutValues]
  <2>1. first \in Nat /\ n \in Nat \ {0}
    OBVIOUS
  <2> HIDE DEF first, n
  <2>2. QED BY <1>3, <2>1, MovedType
<1>5. first \in Nat /\ n \in Nat \ {0}
  OBVIOUS
<1> HIDE DEF buf, q, first, n
<1>6. buf \in Buffers
  BY <1>4, <1>5 DEF Buffers
<1>7. q \in Ports
  BY <1>2, <1>5, <1>6 DEF Ports
<1>8. /\ q.size = n /\ q.read_cnt = first /\ q.buffer_out = buf
      /\ q.sample_delay = p.sample_delay /\ q.remaining = p.remaining
      /\ q.last_value = p.last_value /\ q.next_value = p.next_value
      /\ q.next_time = p.next_time /\ q.interpolator = p.interpolator
      /\ q.last_stored_time = p.last_stored_time
  BY <1>2 DEF Ports
<1>9. QED BY <1>4, <1>7, <1>8 DEF q, buf, first, n

\* Initialized again, it has nothing to move.
LEMMA PortStays ==
  ASSUME NEW p \in Ports, NEW c, NEW counter, p.read_cnt = counter * c.rate,
         p.size = BufferSize(c), p.remaining = RemainingDelay(c), p.sample_delay = SampleDelay(c)
  PROVE  reinitialize_port(p, c, counter) = p
<1> DEFINE first == counter * c.rate  n == BufferSize(c)
<1>1. reinitialize_port_timing(p, c) = p
  BY TimingKept
<1>2. reinitialize_port(p, c, counter) = [p EXCEPT !.buffer_out = p.buffer_out, !.size = n, !.read_cnt = first]
  BY <1>1 DEF reinitialize_port
<1>3. p.size = n /\ p.read_cnt = first
  OBVIOUS
<1> HIDE DEF first, n
<1>4. [p EXCEPT !.buffer_out = p.buffer_out, !.size = n, !.read_cnt = first] = p
  BY <1>3 DEF Ports
<1>5. QED BY <1>2, <1>4

\* The first of the two initializations moves the samples, the second one finds them there.
LEMMA ClusterRescheduled ==
  ASSUME NEW scenarios, AllSteady(scenarios), CutInv(scenarios), NEW c, reschedule_cut_cluster(c)
  PROVE  CutInv(scenarios)'
<1> DEFINE first == c.calls * c.rate  n == BufferSize(c)  p == reinitialize_port(port, c, c.calls)
<1>1. /\ PeriodDone /\ <<cutCfg, c>> \in cutScenario.changes /\ cutCfg' = c /\ cutCounter' = c.calls
      /\ port' = reinitialize_port(p, c, c.calls)
      /\ period_start' = now /\ cutCalls' = 0 /\ cutWrites' = 0
      /\ UNCHANGED <<cutScenario, now, next_read, history>>
  BY DEF reschedule_cut_cluster
<1>2. /\ c \in Configs /\ EnoughDelay(c) /\ SameSignal(c, cutCfg)
      /\ n # BufferSize(cutCfg) /\ n \in Nat \ {0} /\ Times(c.calls, c.rate) \in Nat
  BY <1>1, ChangeIs
<1>3. SampleDelay(c) = SampleDelay(cutCfg) /\ RemainingDelay(c) = RemainingDelay(cutCfg) /\ c.calls \in Nat
  BY <1>2, SameDelays DEF Configs
<1>4. first = Times(c.calls, c.rate) /\ first \in Nat
  BY <1>2 DEF Times
<1>5. Left = SampleDelay(c) /\ Taken \in Nat
  BY <1>1, <1>3, PeriodCounts
<1>6. /\ port \in Ports /\ port.size = BufferSize(cutCfg) /\ port.sample_delay = SampleDelay(c)
      /\ port.remaining = RemainingDelay(c) /\ port.buffer_out \in [0..port.size - 1 -> CutValues]
      /\ Holds(port.buffer_out, port.read_cnt, port.size, history, Taken, Left)
      /\ port.size \in Nat \ {0} /\ port.read_cnt \in Nat
  BY <1>3 DEF CutInv, BufferInv, Ports
<1> DEFINE buf == Moved(port.buffer_out, port.read_cnt, port.size, first, n, SampleDelay(c))
<1>7. /\ p \in Ports /\ p.size = n /\ p.read_cnt = first
      /\ p.sample_delay = port.sample_delay /\ p.remaining = port.remaining
      /\ p.buffer_out = buf /\ p.buffer_out \in [0..n - 1 -> CutValues]
      /\ p.last_value = port.last_value /\ p.next_value = port.next_value
      /\ p.next_time = port.next_time /\ p.interpolator = port.interpolator
      /\ p.last_stored_time = port.last_stored_time
  BY <1>2, <1>4, <1>6, PortMoved
<1>8. Holds(buf, first, n, history, Taken, Left)
  <2>1. Left \in Nat /\ Left <= n
    <3>1. SampleDelay(c) \in Nat /\ n = SampleDelay(c) + Samples(c) /\ Samples(c) \in Nat \ {0}
      BY <1>2, DelayParts, Sizes
    <3> DEFINE a == SampleDelay(c)  b == Samples(c)
    <3> HIDE DEF a, b, n
    <3>2. a \in Nat /\ a <= n
      BY <3>1 DEF a, b
    <3>3. QED BY <1>5, <3>2 DEF a
  <2>2. buf = Moved(port.buffer_out, port.read_cnt, port.size, first, n, Left)
    BY <1>5
  <2> HIDE DEF buf, first, n
  <2>3. QED BY <1>2, <1>4, <1>5, <1>6, <2>1, <2>2, HoldsMoved
<1> HIDE DEF p, buf
<1>9. port' = p
  <2>1. reinitialize_port(p, c, c.calls) = p
    BY <1>6, <1>7, PortStays
  <2>2. QED BY <1>1, <2>1
<1>10. /\ port' \in Ports /\ port'.size = BufferSize(cutCfg') /\ port'.sample_delay = SampleDelay(cutCfg')
       /\ port'.remaining = RemainingDelay(cutCfg')
       /\ port'.buffer_out \in [0..port'.size - 1 -> CutValues]
       /\ port'.read_cnt = Times(cutCounter', cutCfg'.rate)
       /\ Holds(port'.buffer_out, port'.read_cnt, port'.size, history, Taken, Left)
  BY <1>1, <1>4, <1>6, <1>7, <1>8, <1>9
<1>11. /\ port'.last_value = port.last_value /\ port'.next_value = port.next_value
       /\ port'.next_time = port.next_time /\ port'.interpolator = port.interpolator
       /\ port'.last_stored_time = port.last_stored_time
  BY <1>7, <1>9
<1>12. cutCfg' \in Configs /\ EnoughDelay(cutCfg') /\ SameSignal(cutCfg', cutCfg) /\ cutCounter' \in Nat
  BY <1>1, <1>2, <1>3
<1>13. QED BY <1>1, <1>10, <1>11, <1>12, PeriodStep

\* The timestep does not change.
LEMMA NoTimingChange ==
  ASSUME NEW scenarios, AllSteady(scenarios), CutInv(scenarios), NEW c, reanalyze_cluster_timing(c)
  PROVE  FALSE
<1>1. <<cutCfg, c>> \in cutScenario.changes /\ c # cutCfg /\ [c EXCEPT !.timestep = cutCfg.timestep] = cutCfg
  BY DEF reanalyze_cluster_timing
<1>2. c \in Configs /\ c.timestep = cutCfg.timestep
  BY <1>1, ChangeIs DEF SameSignal
<1>3. [c EXCEPT !.timestep = cutCfg.timestep] = c
  BY <1>2 DEF Configs
<1>4. QED BY <1>1, <1>3

\* Only the writing cluster is re-scheduled.
LEMMA ReaderNotRescheduled ==
  ASSUME NEW scenarios, AllSteady(scenarios), CutInv(scenarios), reschedule_reading_cluster
  PROVE  FALSE
<1>1. cutScenario.reader = "never"
  <2>1. IsPresent(cutScenario)
    BY Here
  <2>2. QED BY <2>1, Zenon DEF IsPresent, Steady
<1>2. QED BY <1>1 DEF reschedule_reading_cluster
-------------------------------------------------------------------------------
(* Reads and time *)

\* What a read does to the port, and what it sees.
LEMMA ReadPort ==
  ASSUME NEW scenarios, AllSteady(scenarios), CutInv(scenarios)
  PROVE  LET p == IF cutCfg.cut = "dt" THEN read_dt(port) ELSE read_ct(port)
         IN /\ p \in Ports /\ p.buffer_out = port.buffer_out /\ p.size = port.size
            /\ p.read_cnt = port.read_cnt /\ p.sample_delay = port.sample_delay
            /\ p.remaining = port.remaining
            /\ cutCfg.cut = "dt" =>
                 /\ IsStep(p, history, Taken, now, cutCfg)
                 /\ \E i \in 1..Len(history) : IsBefore(history, now, i) /\ p.last_value = history[i].value
            /\ cutCfg.cut = "ct" =>
                 /\ p = port /\ CtTime(p) = now /\ IsLine(p, history, Taken, cutCfg)
                 /\ p.interpolator.previous.time <= now /\ now <= p.interpolator.next.time
                 /\ Promise!Reaches(now) /\ Line(p.interpolator, now) = Promise!LineAt(now)
<1> DEFINE p == IF cutCfg.cut = "dt" THEN read_dt(port) ELSE read_ct(port)
<1>1. /\ cutCfg \in Configs /\ EnoughDelay(cutCfg) /\ now \in Nat /\ now < Never /\ cutCfg.cut \in {"dt", "ct"}
  BY Here DEF Configs
<1>2. Taken \in Nat /\ Taken + 1 \in 1..Len(history)
  BY Here, Zenon DEF AreAmounts
<1>3. history \in Seq(Points) /\ Dues(history, cutCfg) /\ Len(history) \in Nat
  BY DEF CutInv, CountInv
<1>4. port \in Ports
  BY DEF CutInv, BufferInv
<1>5. IsBetween(now, Taken, cutCfg)
  BY DEF CutInv, TimeInv
<1>6. CASE cutCfg.cut = "dt"
  <2>1. p = read_dt(port)
    BY <1>6
  <2>2. IsStep(port, history, Taken, now, cutCfg)
    BY <1>6 DEF CutInv, SignalInv
  <2>3. p \in Ports /\ IsStep(p, history, Taken, now, cutCfg)
    BY <1>1, <1>2, <1>3, <1>4, <2>1, <2>2, DtReads, StepRead
  <2>4. \E i \in 1..Len(history) : IsBefore(history, now, i) /\ p.last_value = history[i].value
    BY <1>1, <1>2, <1>3, <1>4, <1>5, <1>6, <2>1, <2>2, StepSeen
  <2>5. /\ p.buffer_out = port.buffer_out /\ p.size = port.size /\ p.read_cnt = port.read_cnt
        /\ p.sample_delay = port.sample_delay /\ p.remaining = port.remaining
    BY <1>4, <2>1 DEF read_dt, Ports
  <2> HIDE DEF p
  <2>6. QED BY <1>6, <2>3, <2>4, <2>5 DEF p
<1>7. CASE cutCfg.cut = "ct"
  <2>1. p = read_ct(port)
    BY <1>7
  <2>2. IsLine(port, history, Taken, cutCfg) /\ RemainingDelay(cutCfg) = cutCfg.timestep
    BY <1>7, Steadiness DEF CutInv, SignalInv
  <2>3. /\ read_ct(port) = port /\ CtTime(port) = now
        /\ port.interpolator.previous.time <= now /\ now <= port.interpolator.next.time
        /\ Promise!Reaches(now)
        /\ Line(port.interpolator, now) = Promise!LineAt(now)
    BY <1>1, <1>2, <1>3, <1>4, <1>5, <1>7, <2>2, LineSeen
  <2>4. p = port
    BY <2>1, <2>3
  <2> HIDE DEF p
  <2>5. QED BY <1>4, <1>7, <2>2, <2>3, <2>4 DEF p
<1>8. QED BY <1>1, <1>6, <1>7

\* A read keeps the invariant.
LEMMA ReadStep ==
  ASSUME NEW scenarios, AllSteady(scenarios), CutInv(scenarios), cut_read_from_sc
  PROVE  CutInv(scenarios)'
<1> DEFINE p == IF cutCfg.cut = "dt" THEN read_dt(port) ELSE read_ct(port)
<1>1. /\ now = next_read /\ port' = p /\ next_read' = next_read + cutScenario.step
      /\ UNCHANGED <<cutScenario, cutCfg, cutCounter, now, period_start, cutCalls, cutWrites, history>>
  BY DEF cut_read_from_sc
<1>2. /\ p \in Ports /\ p.buffer_out = port.buffer_out /\ p.size = port.size
      /\ p.read_cnt = port.read_cnt /\ p.sample_delay = port.sample_delay
      /\ p.remaining = port.remaining
      /\ cutCfg.cut = "dt" => IsStep(p, history, Taken, now, cutCfg)
      /\ cutCfg.cut = "ct" => IsLine(p, history, Taken, cutCfg)
  BY ReadPort
<1> HIDE DEF p
<1>3. Called' = Called /\ Given' = Given /\ Taken' = Taken /\ Left' = Left
  <2>1. Called' = Called /\ Given' = Given
    BY <1>1 DEF Called, Given
  <2>2. QED BY <1>1, <2>1 DEF Taken, Left
<1>4. ConfigInv(scenarios)' /\ CountInv'
  BY <1>1, <1>3 DEF CutInv, ConfigInv, CountInv
<1>5. BufferInv'
  BY <1>1, <1>2, <1>3 DEF CutInv, BufferInv
<1>6. TimeInv'
  <2>1. next_read + cutScenario.step \in now..now + cutScenario.step
    <3>1. cutScenario.step \in Nat /\ now \in Nat
      BY Here DEF IsPresent
    <3>2. QED BY <1>1, <3>1
  <2>2. /\ now \in 0..MaxTime /\ period_start \in 0..now
        /\ period_start = Times(Taken - cutWrites, cutCfg.timestep) /\ IsBetween(now, Taken, cutCfg)
    BY DEF CutInv, TimeInv
  <2>3. QED BY <1>1, <1>3, <2>1, <2>2 DEF TimeInv
<1>7. SignalInv'
  BY <1>1, <1>2, <1>3 DEF SignalInv
<1>8. QED BY <1>4, <1>5, <1>6, <1>7 DEF CutInv

\* Time keeps the invariant.
LEMMA TickStep ==
  ASSUME NEW scenarios, AllSteady(scenarios), CutInv(scenarios), Tick
  PROVE  CutInv(scenarios)' /\ now' > now
<1>1. /\ now < WriteTime /\ now < next_read
      /\ now' = (IF WriteTime < next_read THEN WriteTime ELSE next_read) /\ now' <= MaxTime
      /\ UNCHANGED <<cutScenario, cutCfg, port, cutCounter, period_start, cutCalls, cutWrites,
                     next_read, history, seen>>
  BY DEF Tick
<1>2. /\ now \in Nat /\ MaxTime \in Nat /\ cutScenario.step \in Nat /\ WriteTime \in Nat
      /\ WriteTime = Times(Taken, cutCfg.timestep)
  BY Here, WriteTimeIs DEF IsPresent
<1>3. /\ period_start \in 0..now /\ next_read \in now..now + cutScenario.step
      /\ period_start = Times(Taken - cutWrites, cutCfg.timestep) /\ IsBetween(now, Taken, cutCfg)
  BY DEF CutInv, TimeInv
<1> DEFINE t == now'
<1>4. /\ t \in Nat /\ t > now /\ t <= WriteTime /\ t <= MaxTime /\ t \in 0..MaxTime
      /\ period_start \in 0..t /\ next_read \in t..t + cutScenario.step
  <2>1. t = (IF WriteTime < next_read THEN WriteTime ELSE next_read) /\ t <= MaxTime
    BY <1>1
  <2> DEFINE k == cutScenario.step
  <2>2. k \in Nat /\ next_read \in now..now + k
    BY <1>2, <1>3
  <2> HIDE DEF t, k
  <2>3. /\ t \in Nat /\ t > now /\ t <= WriteTime /\ t \in 0..MaxTime
        /\ period_start \in 0..t /\ next_read \in t..t + k
    BY <1>1, <1>2, <1>3, <2>1, <2>2
  <2>4. QED BY <2>1, <2>3 DEF k
<1>5. Called' = Called /\ Given' = Given /\ Taken' = Taken /\ Left' = Left
  <2>1. Called' = Called /\ Given' = Given
    BY <1>1 DEF Called, Given
  <2>2. QED BY <1>1, <2>1 DEF Taken, Left
<1>6. ConfigInv(scenarios)' /\ CountInv'
  BY <1>1, <1>5 DEF CutInv, ConfigInv, CountInv
<1>7. BufferInv'
  BY <1>1, <1>5 DEF CutInv, BufferInv
<1>8. TimeInv'
  <2>1. IsBetween(t, Taken, cutCfg)
    <3> DEFINE x == Times(Taken - 1, cutCfg.timestep)
    <3>1. Taken > 0 => x <= now /\ x \in Int
      <4>1. cutCfg.timestep \in Int /\ Taken \in Nat
        <5>1. cutCfg.timestep \in Int
          BY Here DEF AreSizes
        <5>2. Taken \in Nat
          BY Here, Zenon DEF AreAmounts
        <5>3. QED BY <5>1, <5>2
      <4>2. QED BY <1>3, <4>1 DEF IsBetween, Times
    <3> HIDE DEF x, t
    <3>2. Taken > 0 => x <= t
      BY <1>2, <1>4, <3>1
    <3>3. QED BY <1>2, <1>4, <3>2 DEF IsBetween, x
  <2>2. IsBetween(now', Taken', cutCfg') /\ period_start' = Times(Taken' - cutWrites', cutCfg.timestep')
    BY <1>1, <1>3, <1>5, <2>1
  <2>3. QED BY <1>1, <1>4, <2>2 DEF TimeInv
<1>9. SignalInv'
  <2>1. cutCfg.cut = "dt" => IsStep(port, history, Taken, t, cutCfg)
    <3>1. history[Taken + 1].due \in Int
      <4>1. Taken + 1 \in 1..Len(history)
        BY Here, Zenon DEF AreAmounts
      <4>2. history \in Seq(Points)
        BY DEF CutInv, CountInv
      <4>3. history[Taken + 1] \in Points
        BY <4>1, <4>2
      <4>4. QED BY <4>3 DEF Points
    <3> HIDE DEF t
    <3>2. now > history[Taken + 1].due => t > history[Taken + 1].due
      BY <1>2, <1>4, <3>1
    <3>3. QED BY <3>2 DEF CutInv, SignalInv, IsStep
  <2>2. cutCfg.cut = "ct" => IsLine(port, history, Taken, cutCfg)
    BY DEF CutInv, SignalInv
  <2>3. QED BY <1>1, <1>5, <2>1, <2>2 DEF SignalInv
<1>10. QED BY <1>4, <1>6, <1>7, <1>8, <1>9 DEF CutInv

\* The invariant is about the variables.
LEMMA CutStays ==
  ASSUME NEW scenarios, CutInv(scenarios), UNCHANGED cutVars
  PROVE  CutInv(scenarios)'
<1>1. UNCHANGED <<cutScenario, cutCfg, port, cutCounter, now, period_start, cutCalls, cutWrites,
                  next_read, history, seen>>
  BY DEF cutVars
<1>2. Called' = Called /\ Given' = Given /\ Taken' = Taken /\ Left' = Left
  <2>1. Called' = Called /\ Given' = Given
    BY <1>1 DEF Called, Given
  <2>2. QED BY <1>1, <2>1 DEF Taken, Left
<1>3. ConfigInv(scenarios)' /\ CountInv'
  BY <1>1, <1>2 DEF CutInv, ConfigInv, CountInv
<1>4. BufferInv'
  BY <1>1, <1>2 DEF CutInv, BufferInv
<1>5. TimeInv'
  BY <1>1, <1>2 DEF CutInv, TimeInv
<1>6. SignalInv'
  BY <1>1, <1>2 DEF CutInv, SignalInv
<1>7. QED BY <1>3, <1>4, <1>5, <1>6 DEF CutInv

\* The invariant is inductive.
LEMMA CutInvKept ==
  ASSUME NEW scenarios, AllSteady(scenarios), CutInv(scenarios), [CutNext]_cutVars
  PROVE  CutInv(scenarios)'
<1>1. CASE CutCall
  BY <1>1, CallStep
<1>2. CASE cut_write_to_sc
  BY <1>2, WriteStep
<1>3. CASE NextPeriod
  BY <1>3, NextPeriodStep
<1>4. CASE \E e \in cutScenario.changes : reschedule_cut_cluster(e[2])
  BY <1>4, ClusterRescheduled
<1>5. CASE \E e \in cutScenario.changes : reanalyze_cluster_timing(e[2])
  BY <1>5, NoTimingChange
<1>6. CASE cut_read_from_sc
  BY <1>6, ReadStep
<1>7. CASE reschedule_reading_cluster
  BY <1>7, ReaderNotRescheduled
<1>8. CASE Tick
  BY <1>8, TickStep
<1>9. CASE CutRest \/ UNCHANGED cutVars
  BY <1>9, CutStays DEF CutRest
<1>10. QED BY <1>1, <1>2, <1>3, <1>4, <1>5, <1>6, <1>7, <1>8, <1>9 DEF CutNext
-------------------------------------------------------------------------------
(* What the invariant says *)

\* The invariant implies the types.
LEMMA TypeCorrect ==
  ASSUME NEW scenarios, AllSteady(scenarios), CutInv(scenarios)
  PROVE  CutTypeOK
<1>1. /\ cutCfg \in Configs /\ cutCounter \in Nat
      /\ now \in 0..MaxTime /\ period_start \in 0..now /\ next_read \in now..now + cutScenario.step
      /\ cutCalls \in 0..cutCfg.calls /\ cutWrites \in 0..Samples(cutCfg)
  BY DEF CutInv, ConfigInv, CountInv, TimeInv
<1>2. port \in Ports /\ port.buffer_out \in [0..port.size - 1 -> CutValues]
  BY DEF CutInv, BufferInv
<1>3. /\ port.size \in Nat \ {0} /\ port.sample_delay \in Nat /\ port.remaining \in Nat
      /\ port.read_cnt \in Nat /\ port.last_value \in CutValues /\ port.next_value \in CutValues
      /\ port.last_stored_time \in Int /\ port.next_time \in Int
  BY <1>2 DEF Ports
<1>4. /\ DOMAIN port.buffer_out = 0..port.size - 1
      /\ \A i \in DOMAIN port.buffer_out : port.buffer_out[i] \in CutValues
  BY <1>2
<1>5. QED BY <1>1, <1>3, <1>4 DEF CutTypeOK

\* A reader asks within the two points.
LEMMA InRange ==
  ASSUME NEW scenarios, AllSteady(scenarios), CutInv(scenarios), [CutNext]_cutVars,
         cutCfg.cut = "ct", next_read' # next_read
  PROVE  LET i == port'.interpolator
             t == CtTime(port')
         IN i.previous.time <= t /\ t <= i.next.time
<1>1. cut_read_from_sc
  BY DEF CutNext, CutCall, cut_write_to_sc, NextPeriod, reschedule_cut_cluster, reanalyze_cluster_timing,
         reschedule_reading_cluster, Tick, CutRest, cutVars
<1> DEFINE p == IF cutCfg.cut = "dt" THEN read_dt(port) ELSE read_ct(port)
<1>2. port' = p
  BY <1>1 DEF cut_read_from_sc
<1>3. CtTime(p) = now /\ p.interpolator.previous.time <= now /\ now <= p.interpolator.next.time
  BY ReadPort
<1> HIDE DEF p
<1>4. QED BY <1>2, <1>3

\* No change moves the points of a line.
LEMMA NoBends ==
  ASSUME NEW scenarios, AllSteady(scenarios), CutInv(scenarios)
  PROVE  ~Bends
<1>1. SUFFICES ASSUME NEW e \in cutScenario.changes PROVE e[1].timestep = e[2].timestep
  BY Zenon DEF Bends
<1>2. cutScenario \in scenarios
  BY DEF CutInv, ConfigInv
<1>3. e[1] \in Configs
  BY <1>2 DEF AllSteady, AreScenarios
<1>4. IsPresent(cutScenario)
  BY Here
<1>5. e[2] = [e[1] EXCEPT !.rate = e[2].rate, !.calls = e[2].calls]
  BY <1>4, Zenon DEF IsPresent, Steady
<1> DEFINE a == e[1]  r == e[2].rate  n == e[2].calls
<1>6. a \in Configs /\ e[2] = [a EXCEPT !.rate = r, !.calls = n]
  BY <1>3, <1>5
<1> HIDE DEF a, r, n
<1>7. e[2].timestep = a.timestep
  BY <1>6 DEF Configs
<1>8. QED BY <1>7 DEF a

\* What the reader looks at.
Shape == CASE cutCfg.cut = "dt" -> "step"
           [] cutCfg.cut = "ct" -> IF Bends THEN "bent" ELSE "line"

\* A DT cut is a step and a CT cut a line,
LEMMA ShapeIs ==
  ASSUME NEW scenarios, AllSteady(scenarios), CutInv(scenarios)
  PROVE  \/ cutCfg.cut = "dt" /\ Shape = "step"
         \/ cutCfg.cut = "ct" /\ Shape = "line"
<1>1. cutCfg.cut \in {"dt", "ct"} /\ ~Bends
  BY NoBends, Here DEF Configs
<1>2. QED BY <1>1 DEF Shape

\* all the time.
LEMMA ShapeKept ==
  ASSUME NEW scenarios, AllSteady(scenarios), CutInv(scenarios), CutInv(scenarios)', cutScenario' = cutScenario
  PROVE  Shape' = Shape
<1>1. cutCfg'.cut = cutCfg.cut
  <2>1. SameSignal(cutCfg, cutScenario.start) /\ SameSignal(cutCfg', cutScenario'.start)
    BY DEF CutInv, ConfigInv
  <2>2. QED BY <2>1 DEF SameSignal
<1>2. Bends' = Bends
  BY DEF Bends
<1>3. QED BY <1>1, <1>2 DEF Shape
-------------------------------------------------------------------------------
(* The delayed signal *)

\* The start is one of the abstract signal.
LEMMA StartsDelayed ==
  ASSUME NEW scenarios, AllSteady(scenarios), CutInit(scenarios)
  PROVE  Promise!DelayedInit
<1>1. CutInv(scenarios)
  BY InitInv
<1>2. Shape \in {"step", "line", "bent"}
  BY <1>1, ShapeIs
<1>3. cutCfg \in Configs /\ EnoughDelay(cutCfg) /\ cutCfg.cut \in {"dt", "ct"}
  BY <1>1, Here DEF Configs
<1>4. history \in Seq(Points) /\ Dues(history, cutCfg)
  BY <1>1 DEF CutInv, CountInv
<1>5. Taken + 1 \in 1..Len(history) /\ Taken \in Nat
  BY <1>1, Here, Zenon DEF AreAmounts
<1>6. now = 0 /\ seen = << >>
  BY DEF CutInit
<1>7. history # << >> /\ history[1].due <= now
  BY <1>3, <1>4, <1>5, <1>6 DEF Dues
<1>8. ASSUME NEW i \in 2..Len(history) PROVE history[i].due > history[i - 1].due
  <2>1. i - 1 \in 1..Len(history) /\ i \in 1..Len(history) /\ i - 1 < i
    BY <1>4
  <2>2. history[i - 1].due < history[i].due /\ history[i - 1].due \in Int /\ history[i].due \in Int
    BY <1>3, <1>4, <2>1, DuesOrdered
  <2>3. QED BY <2>2
<1>9. QED BY <1>2, <1>6, <1>7, <1>8 DEF Promise!DelayedInit, Shape

\* A call gives the next samples, none of them for the past.
LEMMA CallGives ==
  ASSUME NEW scenarios, AllSteady(scenarios), CutInv(scenarios), CutCall
  PROVE  Promise!Give
<1> DEFINE f == history'  h == history
<1>1. /\ cutCfg \in Configs /\ EnoughDelay(cutCfg) /\ now \in Nat /\ cutCfg.timestep \in Nat
      /\ RemainingDelay(cutCfg) \in Nat
  BY Here DEF AreSizes
<1>2. Taken \in Nat /\ Left \in Nat /\ Len(h) = Taken + 1 + Left
  BY Here, Zenon DEF AreAmounts
<1>3. cutCfg.rate \in Nat \ {0}
  BY Here DEF AreSizes
<1>4. f \in Seq(Points) /\ Len(f) = Len(h) + cutCfg.rate /\ SubSeq(f, 1, Len(h)) = h /\ Dues(f, cutCfg)
  BY CallPoints DEF IsJoin
<1>5. IsBetween(now, Taken, cutCfg)
  BY DEF CutInv, TimeInv
<1> HIDE DEF f, h
<1>6. Len(f) > Len(h) /\ Len(h) \in Nat
  BY <1>2, <1>3, <1>4
<1>7. ASSUME NEW i \in Len(h)..Len(f) - 1
      PROVE  f[i + 1].due > f[i].due /\ f[i + 1].due >= now
  <2>1. i \in 1..Len(f) /\ i + 1 \in 1..Len(f) /\ i < i + 1 /\ i + 1 \in 2..Len(f) /\ i + 1 \in Int
        /\ Taken + 2 \in Int /\ Taken + 2 <= i + 1 /\ Taken + 2 - 2 = Taken
    BY <1>2, <1>4, <1>6
  <2>2. f[i].due < f[i + 1].due /\ f[i].due \in Int /\ f[i + 1].due \in Int
    BY <1>1, <1>4, <2>1, DuesOrdered
  <2>3. f[i + 1].due = Due(i + 1, cutCfg)
    BY <1>4, <2>1 DEF Dues
  <2>4. Due(Taken + 2, cutCfg) <= Due(i + 1, cutCfg)
    BY <1>1, <2>1, DueOrder
  <2>5. Due(Taken + 2, cutCfg) = Times(Taken, cutCfg.timestep) + RemainingDelay(cutCfg)
    <3>1. PICK j \in Int : j = Taken + 2
      BY <2>1
    <3>2. Due(j, cutCfg) = Times(j - 2, cutCfg.timestep) + RemainingDelay(cutCfg)
      BY Zenon DEF Due
    <3>3. j - 2 = Taken
      BY <1>2, <3>1
    <3>4. QED BY <3>1, <3>2, <3>3
  <2>6. now <= Times(Taken, cutCfg.timestep) /\ Times(Taken, cutCfg.timestep) \in Nat
    BY <1>1, <1>2, <1>5, TimesType DEF IsBetween
  <2> DEFINE a == Times(Taken, cutCfg.timestep)  b == RemainingDelay(cutCfg)  x == Due(Taken + 2, cutCfg)
             y == f[i + 1].due  z == f[i].due
  <2>7. a \in Nat /\ b \in Nat /\ x = a + b /\ y \in Int /\ x <= y /\ z < y /\ z \in Int /\ now <= a
    BY <1>1, <2>2, <2>3, <2>4, <2>5, <2>6
  <2> HIDE DEF a, b, x, y, z
  <2>8. y > z /\ y >= now
    BY <1>1, <2>7
  <2>9. QED BY <2>8 DEF y, z
<1>8. UNCHANGED <<Shape, now, seen>>
  <2>1. UNCHANGED <<cutScenario, cutCfg, now, seen>>
    BY DEF CutCall
  <2>2. Shape' = Shape
    BY <2>1 DEF Shape, Bends
  <2>3. QED BY <2>1, <2>2
<1>9. QED BY <1>4, <1>6, <1>7, <1>8 DEF Promise!Give, Shape, f, h

\* A read sees the signal as it is due.
LEMMA ReadLooks ==
  ASSUME NEW scenarios, AllSteady(scenarios), CutInv(scenarios), cut_read_from_sc
  PROVE  Promise!Look
<1> DEFINE p == IF cutCfg.cut = "dt" THEN read_dt(port) ELSE read_ct(port)
           v == IF cutCfg.cut = "dt" THEN p.last_value ELSE Line(p.interpolator, CtTime(p))
<1>1. seen' = <<now, v>> /\ UNCHANGED <<cutScenario, cutCfg, now, history>>
  BY DEF cut_read_from_sc
<1>2. Len(seen') = 2 /\ seen'[1] = now /\ seen'[2] = v
  <2> HIDE DEF v
  <2>1. QED BY <1>1
<1>3. \/ cutCfg.cut = "dt" /\ Shape = "step"
      \/ cutCfg.cut = "ct" /\ Shape = "line"
  BY ShapeIs
<1>4. /\ cutCfg.cut = "dt" =>
           \E i \in 1..Len(history) : IsBefore(history, now, i) /\ p.last_value = history[i].value
      /\ cutCfg.cut = "ct" =>
           CtTime(p) = now /\ Promise!Reaches(now) /\ Line(p.interpolator, now) = Promise!LineAt(now)
  BY ReadPort
<1> HIDE DEF p
<1>5. Promise!MaySee(v)
  <2>1. CASE cutCfg.cut = "dt" /\ Shape = "step"
    <3>1. PICK i \in 1..Len(history) : IsBefore(history, now, i) /\ p.last_value = history[i].value
      BY <1>4, <2>1
    <3>2. Promise!Before(now) = i
      <4>1. /\ cutCfg \in Configs /\ EnoughDelay(cutCfg) /\ history \in Seq(Points) /\ Dues(history, cutCfg)
            /\ now \in Int
        BY Here DEF CutInv, CountInv
      <4>2. QED BY <3>1, <4>1, BeforeIs
    <3>3. v = Promise!StepAt(now)
      BY <2>1, <3>1, <3>2 DEF Promise!StepAt
    <3>4. QED BY <2>1, <3>3 DEF Promise!MaySee, Shape
  <2>2. CASE cutCfg.cut = "ct" /\ Shape = "line"
    <3>1. Promise!Reaches(now) /\ v = Promise!LineAt(now)
      BY <1>4, <2>2
    <3>2. QED BY <2>2, <3>1 DEF Promise!MaySee, Shape
  <2>3. QED BY <1>3, <2>1, <2>2
<1>6. Shape' = Shape
  BY <1>1 DEF Shape, Bends
<1> HIDE DEF v
<1>7. QED BY <1>1, <1>2, <1>5, <1>6 DEF Promise!Look, Shape

\* Every step is one of the abstract signal or a stutter.
LEMMA PromiseKept ==
  ASSUME NEW scenarios, AllSteady(scenarios), CutInv(scenarios), [CutNext]_cutVars
  PROVE  [Promise!DelayedNext]_(Promise!delayedVars)
<1>1. ASSUME UNCHANGED <<cutScenario, now, history, seen>>
      PROVE  UNCHANGED Promise!delayedVars
  <2>1. CutInv(scenarios)'
    BY CutInvKept
  <2>2. Shape' = Shape
    BY <1>1, <2>1, ShapeKept
  <2>3. QED BY <1>1, <2>2 DEF Promise!delayedVars, Shape
<1>2. CASE CutCall
  BY <1>2, CallGives DEF Promise!DelayedNext
<1>3. CASE cut_read_from_sc
  BY <1>3, ReadLooks DEF Promise!DelayedNext
<1>4. CASE Tick
  <2>1. now' > now /\ UNCHANGED <<cutScenario, cutCfg, history, seen>>
    BY <1>4, TickStep DEF Tick
  <2>2. Shape' = Shape
    BY <2>1 DEF Shape, Bends
  <2>3. QED BY <2>1, <2>2 DEF Promise!DelayedNext, Promise!TimePasses, Shape
<1>5. CASE cut_write_to_sc \/ NextPeriod
  BY <1>1, <1>5 DEF cut_write_to_sc, NextPeriod
<1>6. CASE \E e \in cutScenario.changes : reschedule_cut_cluster(e[2])
  BY <1>1, <1>6 DEF reschedule_cut_cluster
<1>7. CASE \E e \in cutScenario.changes : reanalyze_cluster_timing(e[2])
  BY <1>7, NoTimingChange
<1>8. CASE reschedule_reading_cluster
  BY <1>8, ReaderNotRescheduled
<1>9. CASE CutRest \/ UNCHANGED cutVars
  BY <1>1, <1>9 DEF CutRest, cutVars
<1>10. QED BY <1>2, <1>3, <1>4, <1>5, <1>6, <1>7, <1>8, <1>9 DEF CutNext

\* For all attributes of a steady port, all steps of the reading cluster and all
\* interleavings of the two processes: the reading cluster sees the samples of the writing
\* cluster behind the whole delay of the port, as a step or as a line, whichever process is
\* first and wherever re-schedulings of the writing cluster put the samples, and the line is
\* never asked for a time outside its two points.
THEOREM CutPortsAlwaysDeliver ==
  ASSUME NEW CONSTANT scenarios, AllSteady(scenarios)
  PROVE  CutSpec(scenarios) => CutPortsDeliver
<1> DEFINE Inv == CutInv(scenarios)
           InRangeStep == cutCfg.cut = "ct" /\ next_read' # next_read =>
                            LET i == port'.interpolator
                                t == CtTime(port')
                            IN i.previous.time <= t /\ t <= i.next.time
<1>1. CutInit(scenarios) => Inv /\ Promise!DelayedInit
  BY InitInv, StartsDelayed
<1>2. Inv /\ [CutNext]_cutVars =>
        Inv' /\ [Promise!DelayedNext]_(Promise!delayedVars) /\ [InRangeStep]_cutVars
  BY CutInvKept, PromiseKept, InRange
<1>3. Inv => CutTypeOK
  BY TypeCorrect
<1> HIDE DEF Inv
<1>4. QED
  BY <1>1, <1>2, <1>3, PTL DEF CutSpec, CutPortsDeliver, SeenIsDelayedSignal, PortSound,
     NeverExtrapolates, Promise!DelayedSpec
===============================================================================
