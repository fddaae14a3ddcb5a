----------------------------- MODULE TdfPortProofs -----------------------------
(***************************************************************************)
(* Proofs about the ports of a TDF module. ConverterPort, for all rates,   *)
(* delays and calls and without a bound on the samples: in both directions *)
(* a ring buffer implements the stream, and initial values reach the       *)
(* sample they are for. TdfAttributes, for every number of calls and all   *)
(* values a module may ask for: what a port remembers of its attributes    *)
(* are those of its last two calls, the schedule in force was made for the *)
(* present ones, and a callback is told the permission it started with.    *)
(***************************************************************************)
EXTENDS ConverterPort, TdfAttributes, ProofFacts

-------------------------------------------------------------------------------
(* ConverterPort: a window of a ring buffer *)

\* The element of a ring of n elements at which position k is.
Slot(k, n) == k % n

LEMMA SlotIs ==
  ASSUME NEW n \in Nat \ {0}, NEW k \in Int
  PROVE  Slot(k, n) \in 0..n-1
BY DivMod DEF Slot

LEMMA SlotShift ==
  ASSUME NEW a \in Nat, NEW b \in Nat, NEW c \in Nat, NEW n \in Nat \ {0}, Slot(a, n) = Slot(b, n)
  PROVE  Slot(a + c, n) = Slot(b + c, n)
BY ModShift, ZenonT(40) DEF Slot

LEMMA SlotApart ==
  ASSUME NEW a \in Nat, NEW b \in Nat, NEW n \in Nat \ {0}, a < b, b - a < n
  PROVE  Slot(a, n) # Slot(b, n)
<1>1. a - b < n /\ b - a < n /\ a # b
  OBVIOUS
<1>2. QED BY <1>1, ModWindow, Zenon DEF Slot

LEMMA SlotSame ==
  ASSUME NEW a \in Nat, NEW b \in Nat, NEW n \in Nat \ {0}, a - b < n, b - a < n, Slot(a, n) = Slot(b, n)
  PROVE  a = b
BY ModWindow, Zenon DEF Slot

LEMMA SlotSmall ==
  ASSUME NEW a \in Nat, NEW n \in Nat \ {0}, a < n
  PROVE  Slot(a, n) = a
BY SmallMod, Zenon DEF Slot

\* Position end is the one behind the len positions from pos on.
Behind(end, pos, len, n) ==
  /\ n \in Nat \ {0} /\ pos \in Nat /\ len \in Nat /\ end \in Nat
  /\ Slot(end, n) = Slot(pos + len, n)

\* The len samples of the ring buf of n elements from position pos on.
Window(buf, pos, len, n) == [i \in 1..len |-> buf[Slot(pos + i - 1, n)]]

LEMMA WindowIs ==
  ASSUME NEW n, NEW pos, NEW len \in Nat, NEW buf
  PROVE  /\ HasLen(Window(buf, pos, len, n), len)
         /\ Len(Window(buf, pos, len, n)) = len
         /\ \A i \in 1..len : Window(buf, pos, len, n)[i] = buf[Slot(pos + i - 1, n)]
<1> DEFINE W == Window(buf, pos, len, n)
<1>1. HasLen(W, len) /\ \A i \in 1..len : W[i] = buf[Slot(pos + i - 1, n)]
  BY DEF HasLen, Window
<1> HIDE DEF W
<1>2. Len(W) = len
  BY <1>1, IsSequence, Zenon
<1>3. QED BY <1>1, <1>2 DEF W

\* Equal slots stay equal further on.
SameSlots(a, b, n) == \A k \in Nat : Slot(a + k, n) = Slot(b + k, n)

\* The positions behind a window, and that its own are different elements.
LEMMA SlotsBehind ==
  ASSUME NEW n, NEW pos, NEW end, NEW len, Behind(end, pos, len, n)
  PROVE  SameSlots(end, pos + len, n)
<1>1. n \in Nat \ {0} /\ end \in Nat /\ pos + len \in Nat /\ Slot(end, n) = Slot(pos + len, n)
  BY DEF Behind
<1>2. QED BY <1>1, SlotShift DEF SameSlots

LEMMA WindowSlots ==
  ASSUME NEW n, NEW pos, NEW end, NEW len, NEW r \in Nat,
         len + r <= n, Behind(end, pos, len, n)
  PROVE  \A i \in 1..len, k \in 0..r-1 : Slot(pos + i - 1, n) # Slot(end + k, n)
<1> SUFFICES ASSUME NEW i \in 1..len, NEW k \in 0..r-1
             PROVE  Slot(pos + i - 1, n) # Slot(end + k, n)
  OBVIOUS
<1>0. n \in Nat \ {0} /\ pos \in Nat /\ len \in Nat
  BY DEF Behind
<1>1. k \in Nat /\ pos + i - 1 \in Nat /\ pos + len + k \in Nat
  BY <1>0
<1>2. Slot(end + k, n) = Slot(pos + len + k, n)
  <2>1. SameSlots(end, pos + len, n)
    BY SlotsBehind
  <2>2. QED BY <1>1, <2>1 DEF SameSlots
<1>3. pos + i - 1 < pos + len + k /\ (pos + len + k) - (pos + i - 1) < n
  BY <1>0
<1>4. Slot(pos + i - 1, n) # Slot(pos + len + k, n)
  BY <1>0, <1>1, <1>3, SlotApart
<1>5. QED BY <1>2, <1>4

\* Samples are added behind the window and taken from its front.
LEMMA BehindNext ==
  ASSUME NEW n, NEW pos, NEW end, NEW len, Behind(end, pos, len, n), NEW k \in Nat
  PROVE  Behind(end + k, pos, len + k, n)
<1>1. n \in Nat \ {0} /\ pos \in Nat /\ end \in Nat /\ len \in Nat
  BY DEF Behind
<1>2. SameSlots(end, pos + len, n)
  BY SlotsBehind
<1>3. pos + (len + k) = pos + len + k /\ end + k \in Nat /\ len + k \in Nat
  BY <1>1
<1>4. QED BY <1>1, <1>2, <1>3 DEF Behind, SameSlots

LEMMA BehindTake ==
  ASSUME NEW n, NEW pos, NEW end, NEW len, Behind(end, pos, len, n), NEW k \in Nat, k <= len
  PROVE  Behind(end, pos + k, len - k, n)
<1>1. n \in Nat \ {0} /\ pos \in Nat /\ end \in Nat /\ len \in Nat /\ Slot(end, n) = Slot(pos + len, n)
  BY DEF Behind
<1>2. pos + k + (len - k) = pos + len /\ pos + k \in Nat /\ len - k \in Nat
  BY <1>1
<1>3. QED BY <1>1, <1>2 DEF Behind

IsRing(buf, n) == DOMAIN buf = 0..n - 1

Put(buf, k, v) == [buf EXCEPT ![k] = v]

\* The next r samples after the first b.
Fresh(b, r) == [i \in 1..r |-> b + i]

Continues(new, old, b, r) == new = old \o Fresh(b, r)

\* A sample written behind the window is its next one.
LEMMA WindowAppend ==
  ASSUME NEW n, NEW pos, NEW end, NEW len, Behind(end, pos, len, n), len < n, NEW b \in Nat,
         NEW buf, IsRing(buf, n)
  PROVE  Continues(Window(Put(buf, Slot(end, n), b + 1), pos, len + 1, n),
                   Window(buf, pos, len, n), b, 1)
<1>0. n \in Nat \ {0} /\ pos \in Nat /\ end \in Nat /\ len \in Nat
  BY DEF Behind
<1> USE <1>0
<1> DEFINE new == Put(buf, Slot(end, n), b + 1)
           W == Window(buf, pos, len, n)
           X == Window(new, pos, len + 1, n)
           one == Fresh(b, 1)
<1>1. Slot(end, n) \in 0..n-1
  BY SlotIs
<1>2. new[Slot(end, n)] = b + 1 /\ \A j \in 0..n-1 : j # Slot(end, n) => new[j] = buf[j]
  BY <1>1 DEF Put, IsRing
<1>3. len + 1 \in Nat
  OBVIOUS
<1> HIDE DEF new
<1>4. HasLen(W, len) /\ \A i \in 1..len : W[i] = buf[Slot(pos + i - 1, n)]
  BY DEF Window, HasLen
<1>5. HasLen(X, len + 1) /\ \A i \in 1..len+1 : X[i] = new[Slot(pos + i - 1, n)]
  BY <1>3 DEF Window, HasLen
<1> HIDE DEF W, X
<1>6. ASSUME NEW i \in 1..len PROVE X[i] = W[i]
  <2>1. Slot(pos + i - 1, n) # Slot(end + 0, n)
    <3>1. 1 \in Nat /\ len + 1 <= n /\ 0 \in 0..1-1
      OBVIOUS
    <3>2. \A m \in 1..len, k \in 0..1-1 : Slot(pos + m - 1, n) # Slot(end + k, n)
      BY <3>1, WindowSlots
    <3>3. QED BY <3>1, <3>2, Zenon
  <2>2. end + 0 = end /\ pos + i - 1 \in Int /\ i \in 1..len+1
    OBVIOUS
  <2>3. Slot(pos + i - 1, n) \in 0..n-1
    BY <2>2, SlotIs
  <2>4. QED BY <1>2, <1>4, <1>5, <2>1, <2>2, <2>3
<1>7. X[len + 1] = b + 1
  <2>1. pos + (len + 1) - 1 = pos + len /\ len + 1 \in 1..len+1
    OBVIOUS
  <2>2. QED BY <1>2, <1>5, <2>1 DEF Behind
<1>8. HasLen(one, 1) /\ \A i \in 1..1 : X[len + i] = one[i]
  BY <1>7 DEF HasLen, Fresh
<1> HIDE DEF one
<1>9. W \o one = X
  <2>1. \A i \in 1..len : X[i] = W[i]
    BY <1>6
  <2>2. QED BY <1>4, <1>5, <2>1, <1>8, ConcatIs, ZenonT(40)
<1>10. QED BY <1>9 DEF W, X, new, one, Continues

\* The writes of a call, among those behind position end, that reach the element j.
Mine(end, r, n, j) == {k \in 0..r-1 : Slot(end + k, n) = j}
Latest(S) == CHOOSE k \in S : \A o \in S : o <= k
Overwritten(buf, end, r, n, b) ==
  [j \in DOMAIN buf |->
     IF Mine(end, r, n, j) = {} THEN buf[j] ELSE b + 1 + Latest(Mine(end, r, n, j))]

LEMMA LatestOne ==
  ASSUME NEW k \in Int
  PROVE  Latest({k}) = k
BY DEF Latest

LEMMA MineIs ==
  ASSUME NEW n \in Nat \ {0}, NEW end \in Nat, NEW r \in Nat, r <= n, NEW k \in 0..r-1
  PROVE  Mine(end, r, n, Slot(end + k, n)) = {k}
<1>1. ASSUME NEW o \in 0..r-1, Slot(end + o, n) = Slot(end + k, n) PROVE o = k
  <2>1. end + o \in Nat /\ end + k \in Nat /\ (end + o) - (end + k) < n /\ (end + k) - (end + o) < n
    OBVIOUS
  <2>2. end + o = end + k
    BY <1>1, <2>1, SlotSame, Zenon
  <2>3. QED BY <2>1, <2>2
<1>2. QED BY <1>1 DEF Mine

LEMMA OverwrittenType ==
  ASSUME NEW n \in Nat \ {0}, NEW end \in Nat, NEW r \in Nat, r <= n, NEW b \in Nat,
         NEW buf \in [0..n-1 -> Values]
  PROVE  Overwritten(buf, end, r, n, b) \in [0..n-1 -> Values]
<1>1. ASSUME NEW j \in 0..n-1, Mine(end, r, n, j) # {}
      PROVE  b + 1 + Latest(Mine(end, r, n, j)) \in Values
  <2>1. PICK k \in 0..r-1 : Slot(end + k, n) = j
    BY <1>1 DEF Mine
  <2>2. Mine(end, r, n, j) = {k}
    BY <2>1, MineIs
  <2>3. Latest({k}) = k
    BY LatestOne
  <2>4. b + 1 + k \in Nat
    OBVIOUS
  <2>5. QED BY <2>2, <2>3, <2>4 DEF Values
<1>2. QED BY <1>1 DEF Overwritten

\* The samples of a call, b samples after the start, are the next ones of the window.
LEMMA WindowAppendCall ==
  ASSUME NEW n, NEW pos, NEW end, NEW len, Behind(end, pos, len, n),
         NEW r \in Nat, len + r <= n, NEW b \in Nat, NEW buf, IsRing(buf, n)
  PROVE  Continues(Window(Overwritten(buf, end, r, n, b), pos, len + r, n),
                   Window(buf, pos, len, n), b, r)
<1>a. n \in Nat \ {0} /\ pos \in Nat /\ end \in Nat /\ len \in Nat
  BY DEF Behind
<1>0. \A m \in Nat : Slot(end + m, n) = Slot(pos + len + m, n)
  <2>1. SameSlots(end, pos + len, n)
    BY SlotsBehind
  <2>2. QED BY <2>1 DEF SameSlots
<1> USE <1>a
<1> DEFINE new == Overwritten(buf, end, r, n, b)
           W == Window(buf, pos, len, n)
           X == Window(new, pos, len + r, n)
           fresh == Fresh(b, r)
<1>1. \A j \in 0..n-1 : new[j] =
         IF Mine(end, r, n, j) = {} THEN buf[j] ELSE b + 1 + Latest(Mine(end, r, n, j))
  BY DEF Overwritten, IsRing
<1> HIDE DEF new
<1>2. HasLen(W, len) /\ \A i \in 1..len : W[i] = buf[Slot(pos + i - 1, n)]
  BY DEF Window, HasLen
<1>3. HasLen(X, len + r) /\ \A i \in 1..len+r : X[i] = new[Slot(pos + i - 1, n)]
  <2>1. len + r \in Nat
    OBVIOUS
  <2>2. QED BY <2>1 DEF Window, HasLen
<1> HIDE DEF W, X
<1>4. ASSUME NEW i \in 1..len PROVE X[i] = W[i]
  <2> DEFINE j == Slot(pos + i - 1, n)
  <2>1. pos + i - 1 \in Int /\ i \in 1..len+r
    OBVIOUS
  <2>2. j \in 0..n-1
    BY <2>1, SlotIs
  <2>3. \A k \in 0..r-1 : j # Slot(end + k, n)
    BY WindowSlots
  <2>4. Mine(end, r, n, j) = {}
    BY <2>3 DEF Mine
  <2>5. new[j] = buf[j]
    BY <1>1, <2>2, <2>4
  <2>6. QED BY <1>2, <1>3, <2>1, <2>5
<1>5. ASSUME NEW i \in 1..r PROVE X[len + i] = b + i
  <2>1. PICK k \in 0..r-1 : i = k + 1
    <3>1. i - 1 \in 0..r-1 /\ i = (i - 1) + 1
      OBVIOUS
    <3>2. QED BY <3>1
  <2> DEFINE j == Slot(end + k, n)
  <2>2. end + k \in Nat /\ k \in Nat /\ len + i \in 1..len+r /\ b + 1 + k = b + i /\ r <= n
        /\ pos + (len + i) - 1 = pos + len + k /\ pos + len \in Nat
    BY <2>1
  <2>3. j \in 0..n-1
    <3>1. end + k \in Int
      BY <2>2
    <3>2. QED BY <3>1, SlotIs
  <2>4. Slot(pos + len + k, n) = j
    BY <1>0, <2>2
  <2>5. Mine(end, r, n, j) = {k}
    BY <2>2, MineIs
  <2> HIDE DEF j
  <2>6. new[j] = b + 1 + Latest({k}) /\ {k} # {}
    BY <1>1, <2>3, <2>5
  <2>7. Latest({k}) = k
    BY LatestOne
  <2>8. X[len + i] = new[j]
    BY <1>3, <2>2, <2>4
  <2>9. QED BY <2>2, <2>6, <2>7, <2>8
<1>6. HasLen(fresh, r) /\ \A i \in 1..r : X[len + i] = fresh[i]
  BY <1>5 DEF HasLen, Fresh
<1> HIDE DEF fresh
<1>7. W \o fresh = X
  <2>1. \A i \in 1..len : X[i] = W[i]
    BY <1>4
  <2>2. QED BY <1>2, <1>3, <2>1, <1>6, ConcatIs, Zenon
<1>8. QED BY <1>7 DEF W, X, fresh, new, Continues

\* SubSeq, element by element.
Slice(f, a, m) == [i \in 1..m |-> f[a + i]]

LEMMA SubSeqSlice ==
  ASSUME NEW f, NEW a \in Int, NEW m \in Nat
  PROVE  SubSeq(f, a + 1, a + m) = Slice(f, a, m)
<1> DEFINE h == Slice(f, a, m)
           U == {h[i] : i \in 1..m}
<1>1. HasLen(h, m) /\ \A i \in 1..m : h[i] = f[a + i]
  BY DEF Slice, HasLen
<1> HIDE DEF h
<1>2. h \in Seq(U) /\ Len(h) = m
  BY <1>1, IsSequence
<1>3. PICK x \in Int, y \in Int : x = a + 1 /\ y = a + m /\ y - x + 1 = m
  OBVIOUS
<1>4. \A j \in x..y : f[j] \in U
  <2> SUFFICES ASSUME NEW j \in x..y PROVE f[j] \in U
    OBVIOUS
  <2>1. j - a \in 1..m /\ a + (j - a) = j
    BY <1>3
  <2>2. h[j - a] = f[j]
    BY <1>1, <2>1
  <2>3. QED BY <2>1, <2>2
<1> HIDE DEF U
<1>5. /\ SubSeq(f, x, y) \in Seq(U)
      /\ Len(SubSeq(f, x, y)) = (IF x <= y THEN y-x+1 ELSE 0)
      /\ \A i \in 1..y-x+1 : SubSeq(f, x, y)[i] = f[x+i-1]
  BY <1>4, SubSeqProperties
<1>6. Len(SubSeq(f, x, y)) = m
  BY <1>3, <1>5
<1>7. \A i \in 1..m : SubSeq(f, x, y)[i] = h[i]
  <2>1. \A i \in 1..m : x + i - 1 = a + i
    BY <1>3
  <2>2. QED BY <1>1, <1>3, <1>5, <2>1
<1>8. SubSeq(f, x, y) = h
  BY <1>2, <1>5, <1>6, <1>7, SeqEqual
<1>9. QED BY <1>3, <1>8 DEF h

\* Reading k samples takes them from the front.
Splits(whole, front, rest, k) ==
  /\ Len(whole) >= k
  /\ SubSeq(whole, 1, k) = front
  /\ SubSeq(whole, k + 1, Len(whole)) = rest

LEMMA WindowTake ==
  ASSUME NEW n, NEW pos, NEW end, NEW len, Behind(end, pos, len, n), NEW k \in Nat, k <= len, NEW buf
  PROVE  Splits(Window(buf, pos, len, n), Window(buf, pos, k, n), Window(buf, pos + k, len - k, n), k)
<1>0. pos \in Nat /\ len \in Nat
  BY DEF Behind
<1> DEFINE W == Window(buf, pos, len, n)
           F == Window(buf, pos, k, n)
           R == Window(buf, pos + k, len - k, n)
<1>1. HasLen(W, len) /\ \A i \in 1..len : W[i] = buf[Slot(pos + i - 1, n)]
  BY <1>0 DEF Window, HasLen
<1>2. HasLen(F, k) /\ \A i \in 1..k : F[i] = buf[Slot(pos + i - 1, n)]
  BY DEF Window, HasLen
<1>3. HasLen(R, len - k) /\ \A i \in 1..len-k : R[i] = buf[Slot(pos + k + i - 1, n)]
  BY <1>0 DEF Window, HasLen
<1> HIDE DEF W, F, R
<1>4. SubSeq(W, 1, k) = F
  <2>1. 0 \in Int /\ 0 + 1 = 1 /\ 0 + k = k /\ \A i \in 1..k : i \in 1..len /\ 0 + i = i
    BY <1>0
  <2>2. F = Slice(W, 0, k)
    BY <1>1, <1>2, <2>1 DEF HasLen, Slice
  <2>3. SubSeq(W, 0 + 1, 0 + k) = Slice(W, 0, k)
    BY <2>1, SubSeqSlice
  <2>4. QED BY <2>1, <2>2, <2>3
<1>5. SubSeq(W, k + 1, len) = R
  <2>1. PICK m \in Nat : m = len - k /\ len = k + m
    BY <1>0
  <2>2. \A i \in 1..m : k + i \in 1..len /\ pos + (k + i) - 1 = pos + k + i - 1
    BY <1>0, <2>1
  <2>3. R = Slice(W, k, m)
    <3>1. HasLen(R, m) /\ \A i \in 1..m : R[i] = buf[Slot(pos + k + i - 1, n)]
      BY <1>3, <2>1
    <3>2. \A i \in 1..m : R[i] = W[k + i]
      BY <1>1, <2>2, <3>1
    <3>3. QED BY <3>1, <3>2 DEF HasLen, Slice
  <2>4. k \in Int
    OBVIOUS
  <2>5. SubSeq(W, k + 1, k + m) = R
    BY <2>3, <2>4, SubSeqSlice
  <2>6. QED BY <2>1, <2>5
<1>6. Len(W) = len
  BY <1>0, <1>1, IsSequence, Zenon
<1>7. QED BY <1>0, <1>4, <1>5, <1>6 DEF W, F, R, Splits

IsPut(new, old, k, v) == new = [old EXCEPT ![k] = v]

\* A window from position 0 on shows the elements in place.
LEMMA WindowSet ==
  ASSUME NEW n \in Nat \ {0}, NEW len \in Nat, len <= n, NEW buf, IsRing(buf, n), NEW v, NEW k \in 0..len-1
  PROVE  IsPut(Window(Put(buf, k, v), 0, len, n), Window(buf, 0, len, n), k + 1, v)
<1>1. \A i \in 1..len : Slot(0 + i - 1, n) = i - 1 /\ i - 1 \in 0..n-1
  <2> SUFFICES ASSUME NEW i \in 1..len PROVE Slot(0 + i - 1, n) = i - 1 /\ i - 1 \in 0..n-1
    OBVIOUS
  <2>1. 0 + i - 1 = i - 1 /\ i - 1 \in Nat /\ i - 1 < n /\ i - 1 \in 0..n-1
    OBVIOUS
  <2>2. QED BY <2>1, SlotSmall
<1>2. k \in 0..n-1 /\ k + 1 \in 1..len
  OBVIOUS
<1>3. \A i \in 1..len : [buf EXCEPT ![k] = v][i - 1] = IF i = k + 1 THEN v ELSE buf[i - 1]
  BY <1>1, <1>2 DEF IsRing
<1>4. QED BY <1>1, <1>2, <1>3 DEF Window, Put, IsRing, IsPut

-------------------------------------------------------------------------------
(* The invariant                                                           *)

\* Where the next call starts in both rings, and how much the calls of this period
\* have read and written.
InPos   == call_counter * cfg.inRate
OutPos  == call_counter * cfg.outRate
InDone  == calls * cfg.inRate
OutDone == calls * cfg.outRate

\* The samples between the accesses and the calls.
InLen  == cfg.inDelay + reads - InDone
OutLen == cfg.outDelay + OutDone - writes

Ring(size) == [buffer : [0..size - 1 -> Values], size : {size}, cnt : Nat]
NoRing == [buffer |-> << >>, size |-> 0, cnt |-> 0]

ScalarInv ==
  /\ scenario \in Scenarios /\ IsConfig(cfg)
  /\ phase \in {"elaborate", "bound", "initialize", "run", "reinitialize"}
  /\ call_counter \in Nat /\ heard \in Nat /\ produced \in Nat
  /\ in_forced \in BOOLEAN /\ out_forced \in BOOLEAN
  /\ reads \in Nat /\ calls \in Nat /\ writes \in Nat
  /\ reads <= InSamples(cfg) /\ calls <= cfg.calls /\ writes <= OutSamples(cfg)

PhaseInv ==
  /\ ~Started => inp = NoRing /\ outp = NoRing /\ heard = 0 /\ produced = 0
                 /\ got = << >> /\ sent = << >>
  /\ phase \notin {"run", "reinitialize"} => call_counter = 0
  /\ phase = "initialize" => inp.cnt = cfg.inDelay /\ outp.cnt = 0
  /\ phase # "run" => reads = 0 /\ calls = 0 /\ writes = 0

\* The next sample read goes behind the samples on the way to the module, and the
\* next sample of the module behind those on the way to SystemC.
InRing ==
  Started => /\ inp \in Ring(InSize(cfg))
             /\ InDone <= cfg.inDelay + reads
             /\ Behind(inp.cnt, InPos, InLen, inp.size)

OutRing ==
  Started => /\ outp \in Ring(OutSize(cfg))
             /\ writes <= cfg.outDelay + OutDone
             /\ Behind(OutPos + cfg.outDelay, outp.cnt, OutLen, outp.size)

ValueInv ==
  /\ de_signal \in Values /\ got \in Seq(Values)
  /\ \A q \in {initialization_pendig, asked, sent} : q \in Seq(Values) /\ Len(q) <= 1

\* A value given before the simulation is kept or is that of the signal.
StartInv ==
  /\ ~Started => IF asked = << >> THEN initialization_pendig = << >>
                 ELSE \/ initialization_pendig = asked
                      \/ initialization_pendig = << >> /\ de_signal = asked[1]
  /\ Started => initialization_pendig = << >>
  /\ SignalInitialized

PortInv == ScalarInv /\ PhaseInv /\ InRing /\ OutRing /\ ValueInv /\ StartInv

LEMMA ConfigSizes ==
  ASSUME NEW c, IsConfig(c)
  PROVE  /\ c.calls \in Nat \ {0} /\ c.inRate \in Nat \ {0} /\ c.outRate \in Nat \ {0}
         /\ c.inDelay \in Nat /\ c.outDelay \in Nat
         /\ InSamples(c) \in Nat \ {0} /\ OutSamples(c) \in Nat \ {0}
         /\ InSize(c) = c.inDelay + InSamples(c) /\ OutSize(c) = c.outDelay + OutSamples(c)
         /\ InSize(c) \in Nat \ {0} /\ OutSize(c) \in Nat \ {0}
<1>1. c.calls \in Nat \ {0} /\ c.inRate \in Nat \ {0} /\ c.outRate \in Nat \ {0}
      /\ c.inDelay \in Nat /\ c.outDelay \in Nat
  BY DEF IsConfig
<1>2. \A x, y \in Nat \ {0} : x * y \in Nat \ {0}
  OBVIOUS
<1>3. InSamples(c) \in Nat \ {0} /\ OutSamples(c) \in Nat \ {0}
  BY <1>1, <1>2, Zenon DEF InSamples, OutSamples
<1>4. InSize(c) = c.inDelay + InSamples(c) /\ OutSize(c) = c.outDelay + OutSamples(c)
  BY DEF InSize, OutSize
<1>5. QED BY <1>1, <1>3, <1>4

\* Of the calls before the last there is room for another.
LEMMA CallFits ==
  ASSUME NEW a \in Nat, NEW b \in Nat, NEW r \in Nat, a < b
  PROVE  a * r + r <= r * b
<1>1. a + 1 \in Nat /\ a + 1 <= b
  OBVIOUS
<1>2. (a + 1) * r <= b * r
  BY <1>1, TimesMonotone
<1>3. (a + 1) * r = a * r + r /\ b * r = r * b
  OBVIOUS
<1>4. QED BY <1>2, <1>3

\* Numbers in a reachable state.
LEMMA Numbers ==
  ASSUME ScalarInv
  PROVE  /\ InPos \in Nat /\ OutPos \in Nat /\ InDone \in Nat /\ OutDone \in Nat
         /\ cfg.calls \in Nat \ {0} /\ cfg.inRate \in Nat \ {0} /\ cfg.outRate \in Nat \ {0}
         /\ cfg.inDelay \in Nat /\ cfg.outDelay \in Nat
         /\ InSamples(cfg) \in Nat \ {0} /\ OutSamples(cfg) \in Nat \ {0}
         /\ InSize(cfg) = cfg.inDelay + InSamples(cfg) /\ OutSize(cfg) = cfg.outDelay + OutSamples(cfg)
         /\ InSize(cfg) \in Nat \ {0} /\ OutSize(cfg) \in Nat \ {0}
<1>1. IsConfig(cfg) /\ call_counter \in Nat /\ calls \in Nat
  BY DEF ScalarInv
<1>2. cfg.inRate \in Nat /\ cfg.outRate \in Nat
  BY <1>1, ConfigSizes
<1>3. InPos \in Nat /\ OutPos \in Nat /\ InDone \in Nat /\ OutDone \in Nat
  BY <1>1, <1>2, TimesNat, Zenon DEF InPos, OutPos, InDone, OutDone
<1>4. QED BY <1>1, <1>3, ConfigSizes

\* The samples on the way, as windows of the rings.
PendingFacts ==
  /\ InPending = Window(inp.buffer, InPos, InLen, inp.size)
  /\ OutPending = Window(outp.buffer, outp.cnt, OutLen, outp.size)

LEMMA PendingIs == PortInv /\ Started => PendingFacts
<1> SUFFICES ASSUME PortInv, Started PROVE PendingFacts
  OBVIOUS
<1>1. InPos \in Nat /\ outp.cnt \in Nat
  <2>1. InPos \in Nat
    BY Numbers DEF PortInv
  <2>2. outp.cnt \in Nat
    BY DEF PortInv, OutRing, Ring
  <2>3. QED BY <2>1, <2>2
<1>2. InPosition(0) = InPos + 0
  BY DEF InPosition, InPos
<1>3. InPending = [i \in 1..InLen |-> inp.buffer[(InPos + 0 + i - 1) % inp.size]]
  BY <1>2 DEF InPending, InLen, InDone
<1>4. \A i \in 1..InLen : InPos + 0 + i - 1 = InPos + i - 1
  BY <1>1
<1>5. InPending = Window(inp.buffer, InPos, InLen, inp.size)
  BY <1>3, <1>4 DEF Window, Slot
<1>6. OutPending = Window(outp.buffer, outp.cnt, OutLen, outp.size)
  BY DEF OutPending, Window, Slot, OutLen, OutDone
<1>7. QED BY <1>5, <1>6 DEF PendingFacts

LEMMA PendingNext == PortInv' /\ Started' => PendingFacts'
<1>1. PortInv /\ Started => PendingFacts
  BY PendingIs
<1>2. QED BY <1>1, PTL

LEMMA InitInv == Init => PortInv
<1> SUFFICES ASSUME Init PROVE PortInv
  OBVIOUS
<1>1. IsConfig(cfg)
  <2>1. scenario \in Scenarios /\ cfg = scenario.start
    BY DEF Init
  <2>2. QED BY <2>1, ConverterAssumption
<1>2. InSamples(cfg) \in Nat /\ OutSamples(cfg) \in Nat /\ cfg.calls \in Nat
  BY <1>1, ConfigSizes
<1>3. ScalarInv
  <2>1. 0 <= InSamples(cfg) /\ 0 <= OutSamples(cfg) /\ 0 <= cfg.calls
    BY <1>2
  <2>2. /\ scenario \in Scenarios /\ phase = "elaborate" /\ call_counter = 0
        /\ heard = 0 /\ produced = 0 /\ reads = 0 /\ calls = 0 /\ writes = 0
        /\ in_forced = FALSE /\ out_forced = FALSE
    BY DEF Init
  <2>3. in_forced \in BOOLEAN /\ out_forced \in BOOLEAN
    BY <2>2
  <2>4. QED BY <1>1, <2>1, <2>2, <2>3 DEF ScalarInv
<1>4. PhaseInv
  BY DEF Init, PhaseInv, Started, NoRing
<1>5. InRing /\ OutRing
  BY DEF Init, InRing, OutRing, Started
<1>6. ValueInv
  <2>1. << >> \in Seq(Values) /\ Len(<< >>) <= 1
    OBVIOUS
  <2>2. Initial \in Values
    BY DEF Values
  <2>3. QED BY <2>1, <2>2 DEF Init, ValueInv
<1>7. StartInv
  BY DEF Init, StartInv, Started, SignalInitialized
<1>8. QED BY <1>3, <1>4, <1>5, <1>6, <1>7 DEF PortInv

LEMMA TypeCorrect == PortInv => TypeOK
<1> SUFFICES ASSUME PortInv PROVE TypeOK
  OBVIOUS
<1>1. InSamples(cfg) \in Nat /\ OutSamples(cfg) \in Nat /\ cfg.calls \in Nat
      /\ InSize(cfg) \in Nat /\ OutSize(cfg) \in Nat
  BY Numbers DEF PortInv
<1>2. /\ inp \in Ring(InSize(cfg)) \/ inp = NoRing
      /\ outp \in Ring(OutSize(cfg)) \/ outp = NoRing
  BY DEF PortInv, PhaseInv, InRing, OutRing
<1>3. ASSUME NEW p, NEW n \in Nat, p \in Ring(n) \/ p = NoRing
      PROVE  /\ p.size \in Nat /\ p.cnt \in Nat
             /\ \A i \in DOMAIN p.buffer : i \in 0..p.size - 1 /\ p.buffer[i] \in Values
  <2>1. CASE p \in Ring(n)
    BY <2>1 DEF Ring
  <2>2. CASE p = NoRing
    BY <2>2 DEF NoRing
  <2>3. QED BY <1>3, <2>1, <2>2
<1>4. \A p \in {inp, outp} :
        /\ p.size \in Nat /\ p.cnt \in Nat
        /\ \A i \in DOMAIN p.buffer : i \in 0..p.size - 1 /\ p.buffer[i] \in Values
  BY <1>1, <1>2, <1>3
<1>5. ScalarInv /\ ValueInv
  BY DEF PortInv
<1>6. reads \in 0..InSamples(cfg) /\ calls \in 0..cfg.calls /\ writes \in 0..OutSamples(cfg)
  BY <1>1, <1>5 DEF ScalarInv
<1>7. QED BY <1>4, <1>5, <1>6 DEF ScalarInv, ValueInv, TypeOK

-------------------------------------------------------------------------------
(* The steps of a period                                                   *)

\* What does not touch a ring leaves its samples alone.
LEMMA InQuiet ==
  ASSUME Started' = Started, UNCHANGED <<cfg, call_counter, inp, reads, calls>>
  PROVE  InPending' = InPending
BY DEF InPending, InPosition

LEMMA OutQuiet ==
  ASSUME Started' = Started, UNCHANGED <<cfg, outp, calls, writes>>
  PROVE  OutPending' = OutPending
BY DEF OutPending

LEMMA InRingQuiet ==
  ASSUME InRing, Started' = Started, UNCHANGED <<cfg, call_counter, inp, reads, calls>>
  PROVE  InRing'
BY DEF InRing, InDone, InPos, InLen

LEMMA OutRingQuiet ==
  ASSUME OutRing, Started' = Started, UNCHANGED <<cfg, call_counter, outp, calls, writes>>
  PROVE  OutRing'
BY DEF OutRing, OutDone, OutPos, OutLen

LEMMA StartQuiet ==
  ASSUME ValueInv, StartInv, Started' = Started, UNCHANGED <<startVars, de_signal, got, sent>>
  PROVE  ValueInv' /\ StartInv'
BY DEF ValueInv, StartInv, SignalInitialized, startVars

\* read_from_sc adds the sample it read to those on the way to the module.
LEMMA ReadStep ==
  ASSUME PortInv, read_from_sc
  PROVE  /\ PortInv'
         /\ InPending' = InPending \o Fresh(heard, 1)
         /\ OutPending' = OutPending
<1>1. /\ phase = "run" /\ phase' = "run" /\ Started /\ Started' /\ Started' = Started
      /\ reads < InSamples(cfg) /\ reads' = reads + 1 /\ heard' = heard + 1
      /\ inp' = [inp EXCEPT !.buffer[inp.cnt % inp.size] = heard + 1, !.cnt = @ + 1]
      /\ UNCHANGED <<scenario, cfg, phase, call_counter, outp, forceVars, startVars,
                     de_signal, produced, calls, writes, got, sent>>
  BY DEF read_from_sc, Started
<1>2. /\ ScalarInv /\ PhaseInv /\ InRing /\ OutRing /\ ValueInv /\ StartInv
      /\ inp \in Ring(InSize(cfg)) /\ Behind(inp.cnt, InPos, InLen, inp.size)
      /\ InDone <= cfg.inDelay + reads
  BY <1>1 DEF PortInv, InRing
<1>3. /\ InPos \in Nat /\ InDone \in Nat /\ InSamples(cfg) \in Nat /\ cfg.inDelay \in Nat
      /\ InSize(cfg) = cfg.inDelay + InSamples(cfg) /\ InSize(cfg) \in Nat \ {0}
      /\ reads \in Nat /\ heard \in Nat
  BY <1>2, Numbers DEF ScalarInv
<1>4. InLen \in Nat /\ InLen < InSize(cfg)
  BY <1>1, <1>2, <1>3 DEF InLen
<1>5. inp.size = InSize(cfg) /\ inp.cnt \in Nat /\ inp.buffer \in [0..InSize(cfg) - 1 -> Values]
  BY <1>2 DEF Ring
<1>6. /\ inp'.buffer = Put(inp.buffer, Slot(inp.cnt, inp.size), heard + 1)
      /\ inp'.cnt = inp.cnt + 1 /\ inp'.size = inp.size
      /\ inp' = [buffer |-> inp'.buffer, size |-> inp'.size, cnt |-> inp'.cnt]
  <2>1. inp = [buffer |-> inp.buffer, size |-> inp.size, cnt |-> inp.cnt]
    BY <1>2 DEF Ring
  <2>2. QED BY <1>1, <2>1 DEF Slot, Put
<1>7. heard + 1 \in Values
  BY <1>3 DEF Values
<1>8. inp' \in Ring(InSize(cfg))
  <2>1. inp'.buffer \in [0..InSize(cfg) - 1 -> Values]
    BY <1>5, <1>6, <1>7 DEF Put
  <2>2. inp'.cnt \in Nat
    BY <1>5, <1>6
  <2>3. QED BY <1>5, <1>6, <2>1, <2>2 DEF Ring
<1>9. InPos' = InPos /\ InDone' = InDone /\ InLen' = InLen + 1 /\ InSize(cfg)' = InSize(cfg)
  BY <1>1, <1>3 DEF InPos, InDone, InLen
<1>10. InRing'
  <2>1. Behind(inp.cnt + 1, InPos, InLen + 1, inp.size)
    BY <1>2, BehindNext
  <2>2. Behind(inp'.cnt, InPos', InLen', inp'.size)
    BY <1>6, <1>9, <2>1
  <2>3. InDone' <= cfg.inDelay + reads'
    BY <1>1, <1>2, <1>3, <1>9
  <2>4. QED BY <1>1, <1>8, <1>9, <2>2, <2>3 DEF InRing
<1>11. ScalarInv'
  BY <1>1, <1>2, <1>3 DEF ScalarInv, forceVars
<1>12. PhaseInv'
  BY <1>1, <1>2 DEF PhaseInv, Started
<1>13. OutRing'
  BY <1>1, <1>2, OutRingQuiet
<1>14. ValueInv' /\ StartInv'
  BY <1>1, <1>2, StartQuiet
<1>15. PortInv'
  BY <1>10, <1>11, <1>12, <1>13, <1>14 DEF PortInv
<1>16. InPending' = InPending \o Fresh(heard, 1)
  <2>1. PendingFacts /\ PendingFacts'
    BY <1>1, <1>15, PendingIs, PendingNext
  <2>2. Window(inp'.buffer, InPos, InLen + 1, inp.size)
          = Window(inp.buffer, InPos, InLen, inp.size) \o Fresh(heard, 1)
    <3>1. /\ Behind(inp.cnt, InPos, InLen, inp.size)
          /\ InLen < inp.size /\ IsRing(inp.buffer, inp.size)
          /\ heard \in Nat
      BY <1>2, <1>3, <1>4, <1>5 DEF IsRing
    <3>2. Continues(Window(Put(inp.buffer, Slot(inp.cnt, inp.size), heard + 1), InPos, InLen + 1, inp.size),
                    Window(inp.buffer, InPos, InLen, inp.size), heard, 1)
      BY <3>1, WindowAppend, Zenon
    <3>3. QED BY <1>6, <3>2 DEF Continues
  <2>3. InPending' = Window(inp'.buffer, InPos, InLen + 1, inp.size)
    BY <1>6, <1>9, <2>1 DEF PendingFacts
  <2>4. QED BY <2>1, <2>2, <2>3 DEF PendingFacts
<1>17. OutPending' = OutPending
  BY <1>1, OutQuiet
<1>18. QED BY <1>15, <1>16, <1>17

\* A call takes its samples from those on the way to the module and adds its own to
\* those on the way to SystemC.
LEMMA CallStep ==
  ASSUME PortInv, Call
  PROVE  /\ PortInv'
         /\ Len(InPending) >= cfg.inRate
         /\ InPending' = SubSeq(InPending, cfg.inRate + 1, Len(InPending))
         /\ got' = IF in_forced THEN [i \in 1..cfg.inRate |-> Forced]
                   ELSE SubSeq(InPending, 1, cfg.inRate)
         /\ OutPending' = OutPending \o Fresh(produced, cfg.outRate)
<1> DEFINE ri == cfg.inRate
           ro == cfg.outRate
           end == OutPos + cfg.outDelay
           new == Overwritten(outp.buffer, end, ro, outp.size, produced)
<1>1. /\ phase = "run" /\ phase' = "run" /\ Started /\ Started' /\ Started' = Started
      /\ calls < cfg.calls /\ calls' = calls + 1 /\ call_counter' = call_counter + 1
      /\ produced' = produced + ro
      /\ UNCHANGED <<scenario, cfg, phase, inp, forceVars, startVars, de_signal, heard,
                     reads, writes, sent>>
  BY DEF Call, Started
<1>2. /\ ScalarInv /\ PhaseInv /\ InRing /\ OutRing /\ ValueInv /\ StartInv
      /\ inp \in Ring(InSize(cfg)) /\ Behind(inp.cnt, InPos, InLen, inp.size)
      /\ outp \in Ring(OutSize(cfg)) /\ Behind(end, outp.cnt, OutLen, outp.size)
      /\ InDone <= cfg.inDelay + reads /\ writes <= cfg.outDelay + OutDone
  BY <1>1 DEF PortInv, InRing, OutRing
<1>3. /\ InPos \in Nat /\ InDone \in Nat /\ OutPos \in Nat /\ OutDone \in Nat
      /\ ri \in Nat \ {0} /\ ro \in Nat \ {0} /\ cfg.inDelay \in Nat /\ cfg.outDelay \in Nat
      /\ cfg.calls \in Nat /\ InSamples(cfg) \in Nat /\ OutSamples(cfg) \in Nat
      /\ InSize(cfg) = cfg.inDelay + InSamples(cfg) /\ InSize(cfg) \in Nat \ {0}
      /\ OutSize(cfg) = cfg.outDelay + OutSamples(cfg) /\ OutSize(cfg) \in Nat \ {0}
  BY <1>2, Numbers
<1>4. reads \in Nat /\ writes \in Nat /\ calls \in Nat /\ call_counter \in Nat /\ produced \in Nat
  BY <1>2 DEF ScalarInv
<1>5. /\ inp.size = InSize(cfg) /\ inp.buffer \in [0..InSize(cfg) - 1 -> Values]
      /\ outp.size = OutSize(cfg) /\ outp.buffer \in [0..OutSize(cfg) - 1 -> Values]
      /\ outp.cnt \in Nat
  BY <1>2 DEF Ring
<1>6. \A x \in Nat, y \in Nat : (x + 1) * y = x * y + y
  OBVIOUS
<1>7. /\ InPos' = InPos + ri /\ OutPos' = OutPos + ro
      /\ InDone' = InDone + ri /\ OutDone' = OutDone + ro
      /\ (calls + 1) * ri = InDone + ri
  <2>1. cfg' = cfg /\ ri \in Nat /\ ro \in Nat
    BY <1>1, <1>3
  <2>2. InPos' = (call_counter + 1) * ri /\ OutPos' = (call_counter + 1) * ro
    BY <1>1, <2>1 DEF InPos, OutPos
  <2>3. InDone' = (calls + 1) * ri /\ OutDone' = (calls + 1) * ro
    BY <1>1, <2>1 DEF InDone, OutDone
  <2> HIDE DEF ri, ro
  <2>4. /\ (call_counter + 1) * ri = call_counter * ri + ri
        /\ (call_counter + 1) * ro = call_counter * ro + ro
        /\ (calls + 1) * ri = calls * ri + ri
        /\ (calls + 1) * ro = calls * ro + ro
    BY <1>4, <1>6, <2>1, Zenon
  <2>5. QED BY <2>2, <2>3, <2>4 DEF InPos, OutPos, InDone, OutDone, ri, ro
<1>8. InDone + ri <= cfg.inDelay + reads
  <2>1. reads + cfg.inDelay >= (calls + 1) * ri
    BY DEF Call
  <2> HIDE DEF ri
  <2>2. QED BY <1>3, <1>4, <1>7, <2>1
<1>9. OutDone + ro <= OutSamples(cfg)
  <2>1. calls * ro + ro <= ro * cfg.calls
    <3>1. ro \in Nat
      BY <1>3
    <3> HIDE DEF ro
    <3>2. QED BY <1>1, <1>3, <1>4, <3>1, CallFits
  <2>2. QED BY <2>1 DEF OutDone, OutSamples
<1> HIDE DEF ri, ro
<1>10. /\ InLen \in Nat /\ ri <= InLen /\ ri \in Nat /\ ro \in Nat
       /\ OutLen \in Nat /\ OutLen + ro <= outp.size /\ ro <= outp.size /\ end \in Nat
  <2>1. InLen \in Nat /\ ri <= InLen
    BY <1>3, <1>4, <1>8 DEF InLen
  <2>2. OutLen \in Nat /\ OutLen + ro <= cfg.outDelay + OutSamples(cfg)
    BY <1>2, <1>3, <1>4, <1>9 DEF OutLen
  <2>3. cfg.outDelay + OutSamples(cfg) = outp.size /\ ri \in Nat /\ ro \in Nat /\ end \in Nat
    BY <1>3, <1>5, SMTT(30)
  <2>4. outp.size \in Nat
    BY <1>3, <1>5
  <2> HIDE DEF end
  <2>5. QED BY <2>1, <2>2, <2>3, <2>4
<1>11. InLen' = InLen - ri /\ OutLen' = OutLen + ro /\ end' = end + ro
  <2>1. cfg' = cfg /\ reads' = reads /\ writes' = writes
    BY <1>1
  <2>2. QED BY <1>3, <1>4, <1>7, <2>1 DEF InLen, OutLen
<1>12. outp' = [buffer |-> new, size |-> outp.size, cnt |-> outp.cnt]
  <2>1. \A j : Mine(end, cfg.outRate, outp.size, j)
                 = {n \in 0..cfg.outRate - 1 : OutPosition(n) % outp.size = j}
    BY DEF Mine, Slot, OutPosition, OutPos
  <2>2. outp = [buffer |-> outp.buffer, size |-> outp.size, cnt |-> outp.cnt]
    BY <1>2 DEF Ring
  <2> DEFINE mine(j) == {n \in 0..cfg.outRate - 1 : OutPosition(n) % outp.size = j}
             last(j) == CHOOSE n \in mine(j) : \A o \in mine(j) : o <= n
             written == [j \in DOMAIN outp.buffer |->
                           IF mine(j) = {} THEN outp.buffer[j] ELSE produced + 1 + last(j)]
  <2>3. outp' = [outp EXCEPT !.buffer = written]
    BY DEF Call
  <2>4. written = new
    <3>1. \A j : mine(j) = Mine(end, ro, outp.size, j)
      BY <2>1 DEF ro
    <3> HIDE DEF mine
    <3>2. ASSUME NEW j
          PROVE  last(j) = Latest(Mine(end, ro, outp.size, j))
      <4>1. Latest(mine(j)) = last(j)
        BY DEF Latest
      <4>2. QED BY <3>1, <4>1
    <3> HIDE DEF last, end
    <3>3. QED BY <3>1, <3>2 DEF Overwritten
  <2> HIDE DEF written
  <2> HIDE DEF new
  <2>5. QED BY <2>2, <2>3, <2>4
<1>13. new \in [0..outp.size - 1 -> Values]
  BY <1>3, <1>4, <1>5, <1>10, OverwrittenType
<1> HIDE DEF new, end
<1>14. InRing'
  <2>1. Behind(inp.cnt, InPos + ri, InLen - ri, inp.size)
    BY <1>2, <1>10, BehindTake, Zenon
  <2>2. Behind(inp'.cnt, InPos', InLen', inp'.size)
    BY <1>1, <1>7, <1>11, <2>1
  <2>3. InDone' <= cfg'.inDelay + reads'
    BY <1>1, <1>7, <1>8
  <2>4. inp' \in Ring(InSize(cfg'))
    BY <1>1, <1>2
  <2>5. QED BY <2>2, <2>3, <2>4 DEF InRing
<1>15. OutRing'
  <2>1. Behind(end + ro, outp.cnt, OutLen + ro, outp.size)
    BY <1>2, <1>10, BehindNext, Zenon
  <2>2. Behind(end', outp'.cnt, OutLen', outp'.size)
    BY <1>11, <1>12, <2>1
  <2>3. writes' <= cfg'.outDelay + OutDone'
    BY <1>1, <1>2, <1>3, <1>4, <1>7, <1>10
  <2>4. outp' \in Ring(OutSize(cfg'))
    BY <1>1, <1>5, <1>12, <1>13 DEF Ring
  <2>5. QED BY <2>2, <2>3, <2>4 DEF OutRing, end
<1>16. ScalarInv'
  <2>1. produced' \in Nat /\ calls' \in Nat /\ call_counter' \in Nat /\ calls' <= cfg'.calls
    BY <1>1, <1>3, <1>4, <1>10
  <2>2. QED BY <1>1, <1>2, <2>1 DEF ScalarInv, forceVars
<1>17. PhaseInv'
  BY <1>1, <1>2 DEF PhaseInv, Started
<1>18. got' = IF in_forced THEN [i \in 1..ri |-> Forced] ELSE Window(inp.buffer, InPos, ri, inp.size)
  <2>1. \A i \in 1..ri : read(i - 1) = IF in_forced THEN Forced ELSE inp.buffer[Slot(InPos + i - 1, inp.size)]
    <3>1. \A i \in 1..ri : InPos + (i - 1) = InPos + i - 1
      BY <1>3
    <3>2. QED BY <3>1 DEF read, InPosition, InPos, Slot
  <2>2. got' = [i \in 1..ri |-> read(i - 1)]
    BY DEF Call, ri
  <2>3. QED BY <2>1, <2>2 DEF Window
<1>19. ValueInv' /\ StartInv'
  <2>1. got' \in Seq(Values)
    <3>1. ASSUME NEW i \in 1..ri PROVE inp.buffer[Slot(InPos + i - 1, inp.size)] \in Values
      <4>1. InPos + i - 1 \in Int
        BY <1>3
      <4>2. Slot(InPos + i - 1, inp.size) \in 0..inp.size - 1
        BY <1>3, <1>5, <4>1, SlotIs
      <4>3. QED BY <1>5, <4>2
    <3>2. Forced \in Values
      BY DEF Values
    <3>3. got' \in [1..ri -> Values]
      BY <1>18, <3>1, <3>2 DEF Window
    <3>4. QED BY <1>10, <3>3, SeqDef
  <2>2. QED BY <1>1, <1>2, <2>1 DEF ValueInv, StartInv, SignalInitialized, startVars
<1>20. PortInv'
  BY <1>14, <1>15, <1>16, <1>17, <1>19 DEF PortInv
<1>21. PendingFacts /\ PendingFacts'
  BY <1>1, <1>20, PendingIs, PendingNext
<1>22. Splits(InPending, Window(inp.buffer, InPos, ri, inp.size), InPending', ri)
  <2>1. Splits(Window(inp.buffer, InPos, InLen, inp.size), Window(inp.buffer, InPos, ri, inp.size),
               Window(inp.buffer, InPos + ri, InLen - ri, inp.size), ri)
    BY <1>2, <1>10, WindowTake, Zenon
  <2>2. InPending' = Window(inp.buffer, InPos + ri, InLen - ri, inp.size)
    BY <1>1, <1>7, <1>11, <1>21 DEF PendingFacts
  <2>3. QED BY <1>21, <2>1, <2>2 DEF PendingFacts
<1>23. OutPending' = OutPending \o Fresh(produced, ro)
  <2>1. IsRing(outp.buffer, outp.size)
    BY <1>5 DEF IsRing
  <2>2. Continues(Window(new, outp.cnt, OutLen + ro, outp.size),
                  Window(outp.buffer, outp.cnt, OutLen, outp.size), produced, ro)
    BY <1>2, <1>4, <1>10, <2>1, WindowAppendCall, Zenon DEF new
  <2>3. OutPending' = Window(new, outp.cnt, OutLen + ro, outp.size)
    BY <1>11, <1>12, <1>21 DEF PendingFacts
  <2>4. QED BY <1>21, <2>2, <2>3 DEF PendingFacts, Continues
<1>24. QED BY <1>18, <1>20, <1>22, <1>23 DEF Splits, ri, ro

\* write_to_sc takes the oldest sample on the way to SystemC.
LEMMA WriteStep ==
  ASSUME PortInv, write_to_sc
  PROVE  /\ PortInv'
         /\ Len(OutPending) >= 1
         /\ OutPending' = SubSeq(OutPending, 1 + 1, Len(OutPending))
         /\ sent' = IF out_forced THEN [i \in 1..1 |-> Forced] ELSE SubSeq(OutPending, 1, 1)
         /\ InPending' = InPending
<1> DEFINE end == OutPos + cfg.outDelay
<1>1. /\ phase = "run" /\ phase' = "run" /\ Started /\ Started' /\ Started' = Started
      /\ writes < OutSamples(cfg) /\ writes' = writes + 1
      /\ writes < cfg.outDelay + OutDone
      /\ outp' = [outp EXCEPT !.cnt = @ + 1]
      /\ de_signal' = (IF out_forced THEN Forced ELSE outp.buffer[Slot(outp.cnt, outp.size)])
      /\ sent' = <<de_signal'>>
      /\ UNCHANGED <<scenario, cfg, phase, call_counter, inp, forceVars, startVars, heard,
                     produced, reads, calls, got>>
  BY DEF write_to_sc, Started, OutDone, Slot
<1>2. /\ ScalarInv /\ PhaseInv /\ InRing /\ OutRing /\ ValueInv /\ StartInv
      /\ outp \in Ring(OutSize(cfg)) /\ Behind(end, outp.cnt, OutLen, outp.size)
  BY <1>1 DEF PortInv, OutRing
<1>3. /\ OutPos \in Nat /\ OutDone \in Nat /\ cfg.outDelay \in Nat /\ OutSamples(cfg) \in Nat
      /\ OutSize(cfg) \in Nat \ {0} /\ writes \in Nat
  BY <1>2, Numbers DEF ScalarInv
<1>4. /\ outp.size = OutSize(cfg) /\ outp.buffer \in [0..OutSize(cfg) - 1 -> Values]
      /\ outp.cnt \in Nat
      /\ outp' = [buffer |-> outp.buffer, size |-> outp.size, cnt |-> outp.cnt + 1]
  <2>1. outp = [buffer |-> outp.buffer, size |-> outp.size, cnt |-> outp.cnt]
    BY <1>2 DEF Ring
  <2>2. QED BY <1>1, <1>2, <2>1 DEF Ring
<1>5. OutLen \in Nat /\ 1 <= OutLen /\ 1 \in Nat
  BY <1>1, <1>3 DEF OutLen
<1>6. OutLen' = OutLen - 1 /\ OutPos' = OutPos /\ OutDone' = OutDone /\ cfg' = cfg
  BY <1>1, <1>3 DEF OutLen, OutPos, OutDone
<1>7. OutRing'
  <2>1. Behind(end, outp.cnt + 1, OutLen - 1, outp.size)
    BY <1>2, <1>5, BehindTake, Zenon
  <2>2. Behind(end', outp'.cnt, OutLen', outp'.size)
    BY <1>4, <1>6, <2>1
  <2>3. writes' <= cfg'.outDelay + OutDone'
    BY <1>1, <1>3, <1>6
  <2>4. outp' \in Ring(OutSize(cfg'))
    <3>1. outp.cnt + 1 \in Nat
      BY <1>4
    <3>2. QED BY <1>4, <1>6, <3>1 DEF Ring
  <2>5. QED BY <2>2, <2>3, <2>4 DEF OutRing
<1>8. ScalarInv'
  <2>1. writes' \in Nat /\ writes' <= OutSamples(cfg')
    BY <1>1, <1>3, <1>6
  <2>2. QED BY <1>1, <1>2, <2>1 DEF ScalarInv, forceVars
<1>9. PhaseInv'
  BY <1>1, <1>2 DEF PhaseInv, Started
<1>10. InRing'
  BY <1>1, <1>2, InRingQuiet
<1>11. ValueInv' /\ StartInv'
  <2>1. de_signal' \in Values
    <3>1. Slot(outp.cnt, outp.size) \in 0..outp.size - 1
      <4>1. outp.cnt \in Int /\ outp.size \in Nat \ {0}
        BY <1>3, <1>4
      <4>2. QED BY <4>1, SlotIs
    <3>2. Forced \in Values
      BY DEF Values
    <3>3. QED BY <1>1, <1>4, <3>1, <3>2
  <2>2. sent' \in Seq(Values) /\ Len(sent') <= 1 /\ sent' # << >>
    BY <1>1, <2>1
  <2>3. QED BY <1>1, <1>2, <2>1, <2>2 DEF ValueInv, StartInv, SignalInitialized, startVars
<1>12. PortInv'
  BY <1>7, <1>8, <1>9, <1>10, <1>11 DEF PortInv
<1>13. PendingFacts /\ PendingFacts'
  BY <1>1, <1>12, PendingIs, PendingNext
<1>14. Splits(OutPending, Window(outp.buffer, outp.cnt, 1, outp.size), OutPending', 1)
  <2>1. Splits(Window(outp.buffer, outp.cnt, OutLen, outp.size), Window(outp.buffer, outp.cnt, 1, outp.size),
               Window(outp.buffer, outp.cnt + 1, OutLen - 1, outp.size), 1)
    BY <1>2, <1>5, WindowTake, Zenon
  <2>2. OutPending' = Window(outp.buffer, outp.cnt + 1, OutLen - 1, outp.size)
    BY <1>4, <1>6, <1>13 DEF PendingFacts
  <2>3. QED BY <1>13, <2>1, <2>2 DEF PendingFacts
<1>15. Window(outp.buffer, outp.cnt, 1, outp.size) = <<outp.buffer[Slot(outp.cnt, outp.size)]>>
  <2>1. \A i \in 1..1 : outp.cnt + i - 1 = outp.cnt
    BY <1>4
  <2>2. QED BY <2>1 DEF Window
<1>16. sent' = IF out_forced THEN [i \in 1..1 |-> Forced] ELSE Window(outp.buffer, outp.cnt, 1, outp.size)
  BY <1>1, <1>15
<1>17. InPending' = InPending
  BY <1>1, InQuiet
<1>18. QED BY <1>12, <1>14, <1>16, <1>17 DEF Splits

\* Starting and ending a period, forcing and releasing values and ending a run change
\* no sample on the way.
LEMMA PeriodStep ==
  ASSUME PortInv, StartPeriod \/ EndPeriod
  PROVE  /\ PortInv'
         /\ InPending' = InPending /\ OutPending' = OutPending
         /\ UNCHANGED <<cfg, got, sent, heard, produced, forceVars>>
<1>1. /\ Started /\ Started' /\ Started' = Started
      /\ phase' \in {"run", "reinitialize"} /\ phase \in {"initialize", "run", "reinitialize"}
      /\ reads' = 0 /\ calls' = 0 /\ writes' = 0
      /\ UNCHANGED <<scenario, cfg, call_counter, inp, outp, forceVars, startVars,
                     de_signal, heard, produced, got, sent>>
  BY DEF StartPeriod, EndPeriod, Started, portVars
<1>2. ScalarInv /\ PhaseInv /\ InRing /\ OutRing /\ ValueInv /\ StartInv
  BY DEF PortInv
<1>3. /\ cfg.inRate \in Nat /\ cfg.outRate \in Nat /\ cfg.inDelay \in Nat /\ cfg.outDelay \in Nat
      /\ InSamples(cfg) \in Nat /\ OutSamples(cfg) \in Nat /\ cfg.calls \in Nat
      /\ InDone \in Nat /\ OutDone \in Nat
  BY <1>2, Numbers
<1>4. reads = InDone /\ writes = OutDone
  <2>1. CASE phase = "run"
    <3>1. EndPeriod
      BY <2>1 DEF StartPeriod
    <3>2. calls = cfg.calls /\ reads = cfg.inRate * cfg.calls /\ writes = cfg.outRate * cfg.calls
      BY <3>1 DEF EndPeriod, InSamples, OutSamples
    <3>3. cfg.inRate * cfg.calls = cfg.calls * cfg.inRate /\ cfg.outRate * cfg.calls = cfg.calls * cfg.outRate
      BY <1>3
    <3>4. QED BY <3>2, <3>3 DEF InDone, OutDone
  <2>2. CASE phase # "run"
    <3>1. reads = 0 /\ calls = 0 /\ writes = 0
      BY <1>2, <2>2 DEF PhaseInv
    <3>2. 0 * cfg.inRate = 0 /\ 0 * cfg.outRate = 0
      BY <1>3
    <3>3. QED BY <3>1, <3>2 DEF InDone, OutDone
  <2>3. QED BY <2>1, <2>2
<1>5. /\ InDone' = 0 /\ OutDone' = 0 /\ InPos' = InPos /\ OutPos' = OutPos
      /\ InLen' = InLen /\ OutLen' = OutLen
  <2>1. 0 * cfg.inRate = 0 /\ 0 * cfg.outRate = 0
    BY <1>3
  <2>2. InDone' = 0 /\ OutDone' = 0 /\ InPos' = InPos /\ OutPos' = OutPos
    BY <1>1, <2>1 DEF InDone, OutDone, InPos, OutPos
  <2>3. QED BY <1>1, <1>3, <1>4, <2>2 DEF InLen, OutLen
<1>6. InRing' /\ OutRing'
  <2>1. InDone' <= cfg'.inDelay + reads' /\ writes' <= cfg'.outDelay + OutDone'
    BY <1>1, <1>3, <1>5
  <2>2. QED BY <1>1, <1>2, <1>5, <2>1 DEF InRing, OutRing
<1>7. ScalarInv'
  <2>1. reads' <= InSamples(cfg') /\ calls' <= cfg'.calls /\ writes' <= OutSamples(cfg')
        /\ reads' \in Nat /\ calls' \in Nat /\ writes' \in Nat
    BY <1>1, <1>3
  <2>2. QED BY <1>1, <1>2, <2>1 DEF ScalarInv, forceVars
<1>8. PhaseInv'
  BY <1>1, <1>2 DEF PhaseInv, Started
<1>9. ValueInv' /\ StartInv'
  BY <1>1, <1>2, StartQuiet
<1>10. PortInv'
  BY <1>6, <1>7, <1>8, <1>9 DEF PortInv
<1>11. PendingFacts /\ PendingFacts'
  BY <1>1, <1>10, PendingIs, PendingNext
<1>12. InPending' = InPending /\ OutPending' = OutPending
  BY <1>1, <1>5, <1>11 DEF PendingFacts
<1>13. QED BY <1>1, <1>10, <1>12

LEMMA ForceStep ==
  ASSUME PortInv, force_typed_value \/ release_value
  PROVE  /\ PortInv'
         /\ InPending' = InPending /\ OutPending' = OutPending
         /\ in_forced' \in BOOLEAN /\ out_forced' \in BOOLEAN
         /\ UNCHANGED <<cfg, got, sent, heard, produced>>
<1>1. ScalarInv /\ PhaseInv /\ InRing /\ OutRing /\ ValueInv /\ StartInv
  BY DEF PortInv
<1>2. in_forced \in BOOLEAN /\ out_forced \in BOOLEAN
  BY <1>1 DEF ScalarInv
<1>3. in_forced' \in BOOLEAN /\ out_forced' \in BOOLEAN
  BY <1>2 DEF force_typed_value, release_value
<1>4. UNCHANGED <<scenario, cfg, phase, call_counter, inp, outp, startVars, de_signal,
                  heard, produced, reads, calls, writes, got, sent>>
  BY DEF force_typed_value, release_value, portVars, periodVars
<1>5. Started' = Started
  BY <1>4 DEF Started
<1>6. ScalarInv'
  BY <1>1, <1>3, <1>4 DEF ScalarInv
<1>7. PhaseInv'
  BY <1>1, <1>4 DEF PhaseInv, Started
<1>8. InRing' /\ OutRing'
  BY <1>1, <1>4, <1>5, InRingQuiet, OutRingQuiet
<1>9. ValueInv' /\ StartInv'
  BY <1>1, <1>4, <1>5, StartQuiet
<1>10. InPending' = InPending /\ OutPending' = OutPending
  BY <1>4, <1>5, InQuiet, OutQuiet
<1>11. QED BY <1>3, <1>4, <1>6, <1>7, <1>8, <1>9, <1>10 DEF PortInv

LEMMA RestStep ==
  ASSUME PortInv, UNCHANGED vars
  PROVE  /\ PortInv'
         /\ InPending' = InPending /\ OutPending' = OutPending
         /\ UNCHANGED <<cfg, got, sent, heard, produced, forceVars>>
<1>1. ScalarInv /\ PhaseInv /\ InRing /\ OutRing /\ ValueInv /\ StartInv
  BY DEF PortInv
<1>2. UNCHANGED <<scenario, cfg, phase, call_counter, inp, outp, forceVars, startVars, de_signal,
                  heard, produced, reads, calls, writes, got, sent>>
  BY DEF vars, portVars, periodVars
<1>3. Started' = Started
  BY <1>2 DEF Started
<1>4. ScalarInv'
  BY <1>1, <1>2 DEF ScalarInv, forceVars
<1>5. PhaseInv'
  BY <1>1, <1>2 DEF PhaseInv, Started
<1>6. InRing' /\ OutRing'
  BY <1>1, <1>2, <1>3, InRingQuiet, OutRingQuiet
<1>7. ValueInv' /\ StartInv'
  BY <1>1, <1>2, <1>3, StartQuiet
<1>8. InPending' = InPending /\ OutPending' = OutPending
  BY <1>2, <1>3, InQuiet, OutQuiet
<1>9. QED BY <1>2, <1>4, <1>5, <1>6, <1>7, <1>8 DEF PortInv

-------------------------------------------------------------------------------
(* The start of the simulation                                             *)

LEMMA BeforeStep ==
  ASSUME PortInv, initialize_de_signal(Preset) \/ CompleteBinding
  PROVE  /\ PortInv'
         /\ InPending' = InPending /\ OutPending' = OutPending
         /\ UNCHANGED <<cfg, got, sent, heard, produced, forceVars>>
<1>1. ScalarInv /\ PhaseInv /\ InRing /\ OutRing /\ ValueInv /\ StartInv
  BY DEF PortInv
<1>2. /\ phase \in {"elaborate", "bound"} /\ phase' \in {"elaborate", "bound"}
      /\ ~Started /\ ~Started' /\ Started' = Started
      /\ UNCHANGED <<scenario, cfg, call_counter, inp, outp, forceVars, heard, produced,
                     reads, calls, writes, got, sent>>
  BY DEF initialize_de_signal, CompleteBinding, Started, portVars, periodVars
<1>3. ScalarInv'
  BY <1>1, <1>2 DEF ScalarInv, forceVars
<1>4. PhaseInv'
  BY <1>1, <1>2 DEF PhaseInv, Started
<1>5. InRing' /\ OutRing'
  BY <1>2 DEF InRing, OutRing
<1>6. ValueInv' /\ StartInv'
  <2>1. CASE CompleteBinding
    <3>1. UNCHANGED <<startVars, de_signal>>
      BY <2>1 DEF CompleteBinding
    <3>2. QED BY <1>1, <1>2, <3>1, StartQuiet
  <2>2. CASE initialize_de_signal(Preset)
    <3>1. asked = << >> /\ initialization_pendig = << >>
      <4>1. asked \in Seq(Values) /\ Len(asked) = 0
        BY <1>1, <2>2 DEF ValueInv, initialize_de_signal
      <4>2. asked = << >>
        BY <4>1
      <4>3. QED BY <1>1, <1>2, <4>2 DEF StartInv
    <3>2. Preset \in Values
      BY DEF Values
    <3>3. /\ asked' = <<Preset>>
          /\ \/ de_signal' = Preset /\ initialization_pendig' = << >>
             \/ de_signal' = de_signal /\ initialization_pendig' = <<Preset>>
      BY <2>2, <3>1 DEF initialize_de_signal
    <3>4. <<Preset>> \in Seq(Values) /\ Len(<<Preset>>) = 1 /\ <<Preset>>[1] = Preset /\ <<Preset>> # << >>
      BY <3>2
    <3>5. ValueInv'
      <4>1. de_signal' \in Values
        BY <1>1, <3>2, <3>3 DEF ValueInv
      <4>2. \A q \in {initialization_pendig', asked'} : q \in Seq(Values) /\ Len(q) <= 1
        <5>1. << >> \in Seq(Values) /\ Len(<< >>) = 0
          OBVIOUS
        <5>a. Len(<< >>) <= 1 /\ Len(<<Preset>>) <= 1
          BY <3>4, <5>1
        <5>2. \A q \in {<< >>, <<Preset>>} : q \in Seq(Values) /\ Len(q) <= 1
          BY <3>4, <5>1, <5>a, Zenon
        <5>3. initialization_pendig' \in {<< >>, <<Preset>>} /\ asked' \in {<< >>, <<Preset>>}
          BY <3>1, <3>3, <2>2 DEF initialize_de_signal
        <5>4. QED BY <5>2, <5>3
      <4>3. QED BY <1>1, <1>2, <4>1, <4>2 DEF ValueInv
    <3>6. StartInv'
      BY <1>2, <3>3, <3>4 DEF StartInv, SignalInitialized
    <3>7. QED BY <3>5, <3>6
  <2>3. QED BY <2>1, <2>2
<1>7. InPending' = InPending /\ OutPending' = OutPending
  BY <1>2 DEF InPending, OutPending
<1>8. QED BY <1>2, <1>3, <1>4, <1>5, <1>6, <1>7 DEF PortInv

\* A buffer with the same value everywhere.
AllAre(s, len, v) == s = [i \in 1..len |-> v]

LEMMA FilledWindow ==
  ASSUME NEW n \in Nat \ {0}, NEW pos \in Nat, NEW len \in Nat, NEW v
  PROVE  AllAre(Window(Filled(n, v), pos, len, n), len, v)
<1>1. ASSUME NEW i \in 1..len PROVE Filled(n, v)[Slot(pos + i - 1, n)] = v
  <2>1. pos + i - 1 \in Int
    OBVIOUS
  <2>2. Slot(pos + i - 1, n) \in 0..n - 1
    BY <2>1, SlotIs
  <2>3. QED BY <2>2 DEF Filled
<1>2. QED BY <1>1 DEF Window, AllAre

LEMMA StartStep ==
  ASSUME PortInv, initialize_port
  PROVE  /\ PortInv'
         /\ InPending' = InPending /\ OutPending' = OutPending
         /\ UNCHANGED <<cfg, got, sent, heard, produced, forceVars>>
<1>1. ScalarInv /\ PhaseInv /\ ValueInv /\ StartInv
  BY DEF PortInv
<1>2. /\ phase = "bound" /\ phase' = "initialize" /\ ~Started /\ Started'
      /\ inp' = NewInPort(cfg) /\ outp' = NewOutPort(cfg)
      /\ initialization_pendig' = << >>
      /\ UNCHANGED <<scenario, cfg, call_counter, forceVars, asked, heard, produced,
                     reads, calls, writes, got, sent>>
      /\ de_signal' = IF initialization_pendig # << >> THEN initialization_pendig[1] ELSE de_signal
  BY DEF initialize_port, Started, periodVars
<1>3. /\ call_counter = 0 /\ reads = 0 /\ calls = 0 /\ writes = 0
      /\ got = << >> /\ sent = << >>
  BY <1>1, <1>2 DEF PhaseInv
<1>4. /\ cfg.inRate \in Nat /\ cfg.outRate \in Nat /\ cfg.inDelay \in Nat /\ cfg.outDelay \in Nat
      /\ InSize(cfg) \in Nat \ {0} /\ OutSize(cfg) \in Nat \ {0}
  BY <1>1, Numbers
<1>5. /\ InPos' = 0 /\ InDone' = 0 /\ OutPos' = 0 /\ OutDone' = 0
      /\ InLen' = cfg.inDelay /\ OutLen' = cfg.outDelay
  <2>1. 0 * cfg.inRate = 0 /\ 0 * cfg.outRate = 0
    BY <1>4
  <2>2. InPos' = 0 /\ InDone' = 0 /\ OutPos' = 0 /\ OutDone' = 0
    BY <1>2, <1>3, <2>1 DEF InPos, InDone, OutPos, OutDone
  <2>3. QED BY <1>2, <1>3, <1>4, <2>2 DEF InLen, OutLen
<1>6. /\ inp' \in Ring(InSize(cfg)) /\ outp' \in Ring(OutSize(cfg))
      /\ inp'.cnt = cfg.inDelay /\ outp'.cnt = 0
      /\ inp'.size = InSize(cfg) /\ outp'.size = OutSize(cfg)
      /\ inp'.buffer = Filled(InSize(cfg), Initial) /\ outp'.buffer = Filled(OutSize(cfg), Unset)
  <2>1. Initial \in Values /\ Unset \in Values
    BY DEF Values
  <2>2. /\ Filled(InSize(cfg), Initial) \in [0..InSize(cfg) - 1 -> Values]
        /\ Filled(OutSize(cfg), Unset) \in [0..OutSize(cfg) - 1 -> Values]
    BY <2>1 DEF Filled
  <2>3. QED BY <1>2, <1>4, <2>2 DEF NewInPort, NewOutPort, Ring
<1>7. InRing'
  <2>1. Behind(cfg.inDelay, 0, cfg.inDelay, InSize(cfg))
    BY <1>4 DEF Behind
  <2>2. QED BY <1>2, <1>3, <1>4, <1>5, <1>6, <2>1 DEF InRing
<1>8. OutRing'
  <2>1. Behind(0 + cfg.outDelay, 0, cfg.outDelay, OutSize(cfg))
    BY <1>4 DEF Behind
  <2>2. QED BY <1>2, <1>3, <1>4, <1>5, <1>6, <2>1 DEF OutRing
<1>9. ScalarInv'
  BY <1>1, <1>2 DEF ScalarInv, forceVars
<1>10. PhaseInv'
  BY <1>1, <1>2, <1>3, <1>6 DEF PhaseInv, Started
<1>11. ValueInv' /\ StartInv'
  <2>1. CASE initialization_pendig = << >>
    <3>1. de_signal' = de_signal
      BY <1>2, <2>1
    <3>2. ValueInv'
      BY <1>1, <1>2, <2>1, <3>1 DEF ValueInv
    <3>3. asked # << >> => de_signal = asked[1]
      BY <1>1, <1>2, <2>1 DEF StartInv
    <3>4. QED BY <1>2, <3>1, <3>2, <3>3 DEF StartInv, SignalInitialized
  <2>2. CASE initialization_pendig # << >>
    <3>1. initialization_pendig = asked
      BY <1>1, <1>2, <2>2 DEF StartInv
    <3>2. de_signal' = asked[1] /\ asked \in Seq(Values) /\ asked # << >>
      BY <1>1, <1>2, <2>2, <3>1 DEF ValueInv
    <3>3. de_signal' \in Values
      BY <3>2
    <3>4. << >> \in Seq(Values) /\ Len(<< >>) <= 1
      OBVIOUS
    <3>5. ValueInv'
      BY <1>1, <1>2, <3>3, <3>4 DEF ValueInv
    <3>6. QED BY <1>2, <3>2, <3>5 DEF StartInv, SignalInitialized
  <2>3. QED BY <2>1, <2>2
<1>12. PortInv'
  BY <1>7, <1>8, <1>9, <1>10, <1>11 DEF PortInv
<1>13. PendingFacts'
  BY <1>2, <1>12, PendingNext
<1>17. 0 \in Nat
  OBVIOUS
<1>14. InPending' = InPending
  <2>1. InPending = [i \in 1..cfg.inDelay |-> Initial]
    BY <1>2 DEF InPending
  <2>2. InPending' = Window(Filled(InSize(cfg), Initial), 0, cfg.inDelay, InSize(cfg))
    BY <1>5, <1>6, <1>13 DEF PendingFacts
  <2>3. AllAre(Window(Filled(InSize(cfg), Initial), 0, cfg.inDelay, InSize(cfg)), cfg.inDelay, Initial)
    BY <1>4, <1>17, FilledWindow, Zenon
  <2>4. QED BY <2>1, <2>2, <2>3 DEF AllAre
<1>15. OutPending' = OutPending
  <2>1. OutPending = [i \in 1..cfg.outDelay |-> Unset]
    BY <1>2 DEF OutPending
  <2>2. OutPending' = Window(Filled(OutSize(cfg), Unset), 0, cfg.outDelay, OutSize(cfg))
    BY <1>5, <1>6, <1>13 DEF PendingFacts
  <2>3. AllAre(Window(Filled(OutSize(cfg), Unset), 0, cfg.outDelay, OutSize(cfg)), cfg.outDelay, Unset)
    BY <1>4, <1>17, FilledWindow, Zenon
  <2>4. QED BY <2>1, <2>2, <2>3 DEF AllAre
<1>16. QED BY <1>2, <1>12, <1>14, <1>15

\* initialize sets one of the delay samples, all of which are on the way.
LEMMA PresetInStep ==
  ASSUME PortInv, NEW n \in 0..cfg.inDelay - 1, initialize_in(n)
  PROVE  /\ PortInv'
         /\ Len(InPending) = cfg.inDelay
         /\ InPending' = [InPending EXCEPT ![n + 1] = Preset]
         /\ OutPending' = OutPending
         /\ UNCHANGED <<cfg, got, sent, heard, produced, forceVars>>
<1>1. ScalarInv /\ PhaseInv /\ InRing /\ OutRing /\ ValueInv /\ StartInv
  BY DEF PortInv
<1>2. /\ phase = "initialize" /\ phase' = phase /\ Started /\ Started' /\ Started' = Started
      /\ inp' = [inp EXCEPT !.buffer[n] = Preset]
      /\ UNCHANGED <<scenario, cfg, phase, call_counter, outp, forceVars, startVars,
                     de_signal, heard, produced, reads, calls, writes, got, sent>>
  BY DEF initialize_in, Started, periodVars
<1>3. inp \in Ring(InSize(cfg)) /\ InSize(cfg) \in Nat \ {0} /\ InSize(cfg) = cfg.inDelay + InSamples(cfg)
      /\ InSamples(cfg) \in Nat /\ cfg.inDelay \in Nat /\ cfg.inRate \in Nat
  BY <1>1, <1>2, Numbers DEF InRing
<1>4. inp.size = InSize(cfg) /\ inp.buffer \in [0..inp.size - 1 -> Values]
  BY <1>3 DEF Ring
<1>5. inp' = [buffer |-> Put(inp.buffer, n, Preset), size |-> inp.size, cnt |-> inp.cnt]
  <2>1. inp = [buffer |-> inp.buffer, size |-> inp.size, cnt |-> inp.cnt]
    BY <1>3 DEF Ring
  <2>2. QED BY <1>2, <2>1 DEF Put
<1>6. inp' \in Ring(InSize(cfg))
  <2>1. Preset \in Values
    BY DEF Values
  <2>2. Put(inp.buffer, n, Preset) \in [0..inp.size - 1 -> Values]
    BY <1>4, <2>1 DEF Put
  <2>3. inp.cnt \in Nat
    BY <1>3 DEF Ring
  <2>4. QED BY <1>4, <1>5, <2>2, <2>3 DEF Ring
<1>7. InPos' = InPos /\ InDone' = InDone /\ InLen' = InLen
  BY <1>2 DEF InPos, InDone, InLen
<1>8. InRing'
  BY <1>1, <1>2, <1>4, <1>5, <1>6, <1>7 DEF InRing
<1>9. OutRing'
  BY <1>1, <1>2, OutRingQuiet
<1>10. ScalarInv'
  BY <1>1, <1>2 DEF ScalarInv, forceVars
<1>11. PhaseInv'
  BY <1>1, <1>2, <1>5 DEF PhaseInv, Started
<1>12. ValueInv' /\ StartInv'
  BY <1>1, <1>2, StartQuiet
<1>13. PortInv'
  BY <1>8, <1>9, <1>10, <1>11, <1>12 DEF PortInv
<1>14. PendingFacts /\ PendingFacts'
  BY <1>2, <1>13, PendingIs, PendingNext
<1>15. InPos = 0 /\ InLen = cfg.inDelay
  <2>1. call_counter = 0 /\ reads = 0 /\ calls = 0
    BY <1>1, <1>2 DEF PhaseInv
  <2>2. 0 * cfg.inRate = 0
    BY <1>3
  <2>3. QED BY <1>3, <2>1, <2>2 DEF InPos, InLen, InDone
<1>16. InPending = Window(inp.buffer, 0, cfg.inDelay, inp.size)
  BY <1>14, <1>15 DEF PendingFacts
<1>17. InPending' = Window(Put(inp.buffer, n, Preset), 0, cfg.inDelay, inp.size)
  BY <1>5, <1>7, <1>14, <1>15 DEF PendingFacts
<1>18. InPending' = [InPending EXCEPT ![n + 1] = Preset]
  <2>1. IsRing(inp.buffer, inp.size) /\ inp.size \in Nat \ {0} /\ cfg.inDelay <= inp.size
    BY <1>3, <1>4 DEF IsRing
  <2>2. IsPut(Window(Put(inp.buffer, n, Preset), 0, cfg.inDelay, inp.size),
              Window(inp.buffer, 0, cfg.inDelay, inp.size), n + 1, Preset)
    BY <1>3, <2>1, WindowSet, Zenon
  <2>3. QED BY <1>16, <1>17, <2>2 DEF IsPut
<1>19. Len(InPending) = cfg.inDelay
  BY <1>3, <1>16, WindowIs
<1>20. OutPending' = OutPending
  BY <1>2, OutQuiet
<1>21. QED BY <1>2, <1>13, <1>18, <1>19, <1>20

LEMMA PresetOutStep ==
  ASSUME DelaysStay, PortInv, NEW n \in 0..cfg.outDelay - 1, initialize_out(n)
  PROVE  /\ PortInv'
         /\ Len(OutPending) = cfg.outDelay
         /\ OutPending' = [OutPending EXCEPT ![n + 1] = Preset]
         /\ InPending' = InPending
         /\ UNCHANGED <<cfg, got, sent, heard, produced, forceVars>>
<1>1. ScalarInv /\ PhaseInv /\ InRing /\ OutRing /\ ValueInv /\ StartInv
  BY DEF PortInv
<1>2. phase = "initialize"
  <2>1. scenario \in Scenarios /\ "reinitialize" \notin scenario.presets
    BY <1>1 DEF ScalarInv, DelaysStay, KeepsDelays
  <2>2. QED BY <2>1 DEF initialize_out
<1>3. /\ phase' = phase /\ Started /\ Started' /\ Started' = Started
      /\ outp' = [outp EXCEPT !.buffer[n % outp.size] = Preset]
      /\ UNCHANGED <<scenario, cfg, phase, call_counter, inp, forceVars, startVars,
                     de_signal, heard, produced, reads, calls, writes, got, sent>>
  BY <1>2 DEF initialize_out, Started, periodVars
<1>4. outp \in Ring(OutSize(cfg)) /\ OutSize(cfg) \in Nat \ {0} /\ OutSize(cfg) = cfg.outDelay + OutSamples(cfg)
      /\ OutSamples(cfg) \in Nat /\ cfg.outDelay \in Nat /\ cfg.outRate \in Nat
  BY <1>1, <1>3, Numbers DEF OutRing
<1>5. outp.size = OutSize(cfg) /\ outp.buffer \in [0..outp.size - 1 -> Values]
  BY <1>4 DEF Ring
<1>6. n % outp.size = n
  <2>1. n \in Nat /\ outp.size \in Nat \ {0} /\ n < outp.size
    BY <1>4, <1>5
  <2>2. QED BY <2>1, SmallMod
<1>7. outp' = [buffer |-> Put(outp.buffer, n, Preset), size |-> outp.size, cnt |-> outp.cnt]
  <2>1. outp = [buffer |-> outp.buffer, size |-> outp.size, cnt |-> outp.cnt]
    BY <1>4 DEF Ring
  <2>2. QED BY <1>3, <1>6, <2>1 DEF Put
<1>8. outp' \in Ring(OutSize(cfg))
  <2>1. Preset \in Values
    BY DEF Values
  <2>2. Put(outp.buffer, n, Preset) \in [0..outp.size - 1 -> Values]
    BY <1>5, <2>1 DEF Put
  <2>3. outp.cnt \in Nat
    BY <1>4 DEF Ring
  <2>4. QED BY <1>5, <1>7, <2>2, <2>3 DEF Ring
<1>9. OutPos' = OutPos /\ OutDone' = OutDone /\ OutLen' = OutLen
  BY <1>3 DEF OutPos, OutDone, OutLen
<1>10. OutRing'
  BY <1>1, <1>3, <1>5, <1>7, <1>8, <1>9 DEF OutRing
<1>11. InRing'
  BY <1>1, <1>3, InRingQuiet
<1>12. ScalarInv'
  BY <1>1, <1>3 DEF ScalarInv, forceVars
<1>13. PhaseInv'
  BY <1>1, <1>3, <1>7 DEF PhaseInv, Started
<1>14. ValueInv' /\ StartInv'
  BY <1>1, <1>3, StartQuiet
<1>15. PortInv'
  BY <1>10, <1>11, <1>12, <1>13, <1>14 DEF PortInv
<1>16. PendingFacts /\ PendingFacts'
  BY <1>3, <1>15, PendingIs, PendingNext
<1>17. outp.cnt = 0 /\ OutLen = cfg.outDelay
  <2>1. outp.cnt = 0 /\ calls = 0 /\ writes = 0
    BY <1>1, <1>2 DEF PhaseInv
  <2>2. 0 * cfg.outRate = 0
    BY <1>4
  <2>3. QED BY <1>4, <2>1, <2>2 DEF OutLen, OutDone
<1>18. OutPending = Window(outp.buffer, 0, cfg.outDelay, outp.size)
  BY <1>16, <1>17 DEF PendingFacts
<1>19. OutPending' = Window(Put(outp.buffer, n, Preset), 0, cfg.outDelay, outp.size)
  BY <1>7, <1>9, <1>16, <1>17 DEF PendingFacts
<1>20. OutPending' = [OutPending EXCEPT ![n + 1] = Preset]
  <2>1. IsRing(outp.buffer, outp.size) /\ outp.size \in Nat \ {0} /\ cfg.outDelay <= outp.size
    BY <1>4, <1>5 DEF IsRing
  <2>2. IsPut(Window(Put(outp.buffer, n, Preset), 0, cfg.outDelay, outp.size),
              Window(outp.buffer, 0, cfg.outDelay, outp.size), n + 1, Preset)
    BY <1>4, <2>1, WindowSet, Zenon
  <2>3. QED BY <1>18, <1>19, <2>2 DEF IsPut
<1>21. Len(OutPending) = cfg.outDelay
  BY <1>4, <1>18, WindowIs
<1>22. InPending' = InPending
  BY <1>3, InQuiet
<1>23. QED BY <1>3, <1>15, <1>20, <1>21, <1>22

-------------------------------------------------------------------------------
(* A re-scheduling without delays                                          *)

\* Without a delay reinitialize_port copies nothing.
LEMMA ReinitIn ==
  ASSUME NEW p, p.cnt \in Nat, NEW c, c.inDelay = 0
  PROVE  reinitialize_in_port(p, c)
           = [buffer |-> IF InSize(c) = p.size THEN p.buffer ELSE Filled(InSize(c), Unset),
              size |-> InSize(c), cnt |-> 0]
<1> DEFINE d == c.inDelay
           first == IF d <= p.cnt THEN d ELSE p.cnt + 1
           keep == InSize(c) = p.size
           base == IF keep THEN p.buffer ELSE Filled(InSize(c), Unset)
           seq == [i \in 1..first |-> first + 1 - i]
           Copy(b, idx) ==
             [b EXCEPT ![d - idx] =
                (IF keep THEN b ELSE p.buffer)[UnsignedMod(p.cnt - 1 - idx, p.size)]]
           P(it) == it = [s \in SUBSET DOMAIN seq |->
                            IF s = {} THEN base ELSE Copy(it[s \ {Max(s)}], seq[Max(s)])]
           w == [s \in SUBSET DOMAIN seq |-> base]
<1>1. DOMAIN seq = {}
  <2>1. first = 0
    OBVIOUS
  <2> HIDE DEF first
  <2>2. QED BY <2>1
<1>2. P(w)
  <2> HIDE DEF base, Copy, seq
  <2>1. \A s \in SUBSET DOMAIN seq : s = {}
    BY <1>1
  <2>2. QED BY <2>1
<1>3. P(CHOOSE it : P(it))
  <2> HIDE DEF P
  <2>1. QED BY <1>2
<1>4. reinitialize_in_port(p, c)
        = [buffer |-> (CHOOSE it : P(it))[DOMAIN seq], size |-> InSize(c), cnt |-> c.inDelay]
  BY DEF reinitialize_in_port, FoldLeft, MapThenFoldSet
<1>5. (CHOOSE it : P(it))[{}] = base
  <2> DEFINE g == CHOOSE it : P(it)
  <2> HIDE DEF base, Copy, seq
  <2>1. P(g) 
    BY <1>3
  <2> HIDE DEF g
  <2>2. g[{}] = base 
    BY <2>1, <1>1
  <2>3. QED BY <2>2 DEF g
<1>6. QED BY <1>1, <1>4, <1>5

LEMMA ReinitOut ==
  ASSUME NEW p, NEW c, c.outDelay = 0
  PROVE  reinitialize_out_port(p, c)
           = [buffer |-> IF OutSize(c) = p.size THEN p.buffer ELSE Filled(OutSize(c), Unset),
              size |-> OutSize(c), cnt |-> 0]
<1> DEFINE keep == OutSize(c) = p.size
           base == IF keep THEN p.buffer ELSE Filled(OutSize(c), Unset)
           seq == [i \in 1..c.outDelay |-> i - 1]
           from(idx) == (p.cnt + idx) % OutSize(c)
           Copy(b, idx) ==
             [b EXCEPT ![idx] = IF keep THEN b[from(idx)]
                                ELSE IF from(idx) < p.size THEN p.buffer[from(idx)] ELSE Unset]
           P(it) == it = [s \in SUBSET DOMAIN seq |->
                            IF s = {} THEN base ELSE Copy(it[s \ {Max(s)}], seq[Max(s)])]
           w == [s \in SUBSET DOMAIN seq |-> base]
<1>1. DOMAIN seq = {}
  OBVIOUS
<1>2. P(w)
  <2> HIDE DEF base, Copy, seq
  <2>1. \A s \in SUBSET DOMAIN seq : s = {}
    BY <1>1
  <2>2. QED BY <2>1
<1>3. P(CHOOSE it : P(it))
  <2> HIDE DEF P
  <2>1. QED BY <1>2
<1>4. reinitialize_out_port(p, c)
        = [buffer |-> (CHOOSE it : P(it))[DOMAIN seq], size |-> OutSize(c), cnt |-> 0]
  BY DEF reinitialize_out_port, FoldLeft, MapThenFoldSet
<1>5. (CHOOSE it : P(it))[{}] = base
  <2> DEFINE g == CHOOSE it : P(it)
  <2> HIDE DEF base, Copy, seq
  <2>1. P(g) 
    BY <1>3
  <2> HIDE DEF g
  <2>2. g[{}] = base 
    BY <2>1, <1>1
  <2>3. QED BY <2>2 DEF g
<1>6. QED BY <1>1, <1>4, <1>5

\* What a re-scheduling makes of a ring without delay.
Renewed(p, size) ==
  [buffer |-> IF size = p.size THEN p.buffer ELSE Filled(size, Unset), size |-> size, cnt |-> 0]

LEMMA RenewedType ==
  ASSUME NEW n \in Nat \ {0}, NEW p \in Ring(n), NEW size \in Nat \ {0}
  PROVE  Renewed(p, size) \in Ring(size) /\ Renewed(Renewed(p, size), size) = Renewed(p, size)
<1>1. Filled(size, Unset) \in [0..size - 1 -> Values]
  BY DEF Filled, Values
<1>2. size = p.size => p.buffer \in [0..size - 1 -> Values]
  BY DEF Ring
<1>3. Renewed(p, size).buffer \in [0..size - 1 -> Values]
  BY <1>1, <1>2 DEF Renewed
<1>4. Renewed(p, size).size = size
  BY DEF Renewed
<1>5. Renewed(p, size) = [buffer |-> Renewed(p, size).buffer, size |-> size, cnt |-> 0]
  BY DEF Renewed
<1>6. Renewed(p, size) \in Ring(size)
  BY <1>3, <1>5 DEF Ring
<1>7. Renewed(Renewed(p, size), size) = [buffer |-> Renewed(p, size).buffer, size |-> size, cnt |-> 0]
  BY <1>4 DEF Renewed
<1>8. QED BY <1>5, <1>6, <1>7

\* The position after a whole period is the start of a ring without delay.
LEMMA BehindPeriod ==
  ASSUME NEW n \in Nat \ {0}
  PROVE  Behind(0, n, 0, n) /\ Behind(n, 0, 0, n)
<1>1. n % n = 0 /\ 0 % n = 0
  OBVIOUS
<1>2. n + 0 = n /\ 0 + 0 = 0
  OBVIOUS
<1>3. QED BY <1>1, <1>2 DEF Behind, Slot

LEMMA RescheduleStep ==
  ASSUME DelaysStay, PortInv, NEW c, reschedule_cluster(c)
  PROVE  /\ PortInv'
         /\ InPending = << >> /\ InPending' = << >> /\ OutPending = << >> /\ OutPending' = << >>
         /\ cfg.inDelay = 0 /\ cfg.outDelay = 0 /\ cfg'.inDelay = 0 /\ cfg'.outDelay = 0
         /\ UNCHANGED <<got, sent, heard, produced, forceVars>>
<1>1. ScalarInv /\ PhaseInv /\ InRing /\ OutRing /\ ValueInv /\ StartInv
  BY DEF PortInv
<1>2. /\ phase = "reinitialize" /\ phase' = phase /\ Started /\ Started' /\ Started' = Started
      /\ <<cfg, c>> \in scenario.changes /\ cfg' = c /\ call_counter' = c.calls
      /\ inp' = reinitialize_in_port(reinitialize_in_port(inp, c), c)
      /\ outp' = reinitialize_out_port(reinitialize_out_port(outp, c), c)
      /\ UNCHANGED <<scenario, phase, forceVars, startVars, de_signal, heard, produced,
                     reads, calls, writes, got, sent>>
  BY DEF reschedule_cluster, Started, periodVars
<1>3. /\ cfg.inDelay = 0 /\ cfg.outDelay = 0 /\ c.inDelay = 0 /\ c.outDelay = 0 /\ IsConfig(c)
  <2>1. scenario \in Scenarios /\ <<cfg, c>>[1] = cfg /\ <<cfg, c>>[2] = c
    BY <1>1 DEF ScalarInv
  <2>2. IsConfig(c)
    BY <1>2, <2>1, ConverterAssumption
  <2>3. \A d \in {cfg, c} : d.inDelay = 0 /\ d.outDelay = 0
    BY <1>2, <2>1 DEF DelaysStay, KeepsDelays
  <2>4. QED BY <2>2, <2>3
<1>4. /\ inp \in Ring(InSize(cfg)) /\ outp \in Ring(OutSize(cfg))
      /\ InSize(cfg) \in Nat \ {0} /\ OutSize(cfg) \in Nat \ {0}
      /\ inp.cnt \in Nat
  BY <1>1, <1>2, Numbers DEF InRing, OutRing, Ring
<1>5. /\ c.calls \in Nat \ {0} /\ c.inRate \in Nat \ {0} /\ c.outRate \in Nat \ {0}
      /\ InSamples(c) \in Nat \ {0} /\ OutSamples(c) \in Nat \ {0}
      /\ InSize(c) = InSamples(c) /\ OutSize(c) = OutSamples(c)
  <2>1. InSize(c) = c.inDelay + InSamples(c) /\ OutSize(c) = c.outDelay + OutSamples(c)
    BY <1>3, ConfigSizes
  <2>2. /\ c.calls \in Nat \ {0} /\ c.inRate \in Nat \ {0} /\ c.outRate \in Nat \ {0}
        /\ InSamples(c) \in Nat \ {0} /\ OutSamples(c) \in Nat \ {0}
    BY <1>3, ConfigSizes
  <2>3. QED BY <1>3, <2>1, <2>2
<1>6. inp' = Renewed(inp, InSize(c)) /\ inp' \in Ring(InSize(c))
  <2>1. reinitialize_in_port(inp, c) = Renewed(inp, InSize(c))
    BY <1>3, <1>4, ReinitIn DEF Renewed
  <2>2. Renewed(inp, InSize(c)) \in Ring(InSize(c))
        /\ Renewed(Renewed(inp, InSize(c)), InSize(c)) = Renewed(inp, InSize(c))
    BY <1>4, <1>5, RenewedType
  <2>3. Renewed(inp, InSize(c)).cnt \in Nat
    BY DEF Renewed
  <2>4. reinitialize_in_port(Renewed(inp, InSize(c)), c) = Renewed(Renewed(inp, InSize(c)), InSize(c))
    <3>1. PICK p : p = Renewed(inp, InSize(c))
      OBVIOUS
    <3>2. reinitialize_in_port(p, c) = Renewed(p, InSize(c))
      BY <1>3, <2>3, <3>1, ReinitIn DEF Renewed
    <3>3. QED BY <3>1, <3>2
  <2>5. QED BY <1>2, <2>1, <2>2, <2>4
<1>7. outp' = Renewed(outp, OutSize(c)) /\ outp' \in Ring(OutSize(c))
  <2>1. reinitialize_out_port(outp, c) = Renewed(outp, OutSize(c))
    BY <1>3, ReinitOut DEF Renewed
  <2>2. Renewed(outp, OutSize(c)) \in Ring(OutSize(c))
        /\ Renewed(Renewed(outp, OutSize(c)), OutSize(c)) = Renewed(outp, OutSize(c))
    BY <1>4, <1>5, RenewedType
  <2>3. reinitialize_out_port(Renewed(outp, OutSize(c)), c) = Renewed(Renewed(outp, OutSize(c)), OutSize(c))
    <3>1. PICK p : p = Renewed(outp, OutSize(c))
      OBVIOUS
    <3>2. reinitialize_out_port(p, c) = Renewed(p, OutSize(c))
      BY <1>3, ReinitOut DEF Renewed
    <3>3. QED BY <3>1, <3>2
  <2>4. QED BY <1>2, <2>1, <2>2, <2>3
<1>8. reads = 0 /\ calls = 0 /\ writes = 0
  BY <1>1, <1>2 DEF PhaseInv
<1>9. /\ InPos' = InSamples(c) /\ OutPos' = OutSamples(c)
      /\ InDone' = 0 /\ OutDone' = 0 /\ InLen' = 0 /\ OutLen' = 0
  <2>1. c.calls * c.inRate = c.inRate * c.calls /\ c.calls * c.outRate = c.outRate * c.calls
        /\ 0 * c.inRate = 0 /\ 0 * c.outRate = 0
    BY <1>5
  <2>2. InPos' = InSamples(c) /\ OutPos' = OutSamples(c) /\ InDone' = 0 /\ OutDone' = 0
    BY <1>2, <1>8, <2>1 DEF InPos, OutPos, InDone, OutDone, InSamples, OutSamples
  <2>3. QED BY <1>2, <1>3, <1>8, <2>2 DEF InLen, OutLen
<1>10. inp'.cnt = 0 /\ inp'.size = InSamples(c) /\ outp'.cnt = 0 /\ outp'.size = OutSamples(c)
  BY <1>5, <1>6, <1>7 DEF Renewed
<1>11. InRing'
  <2>1. Behind(0, InSamples(c), 0, InSamples(c))
    BY <1>5, BehindPeriod
  <2>2. QED BY <1>2, <1>3, <1>6, <1>8, <1>9, <1>10, <2>1 DEF InRing
<1>12. OutRing'
  <2>1. Behind(OutSamples(c), 0, 0, OutSamples(c)) /\ OutSamples(c) + 0 = OutSamples(c)
    BY <1>5, BehindPeriod
  <2>2. QED BY <1>2, <1>3, <1>7, <1>8, <1>9, <1>10, <2>1 DEF OutRing
<1>13. ScalarInv'
  <2>1. call_counter' \in Nat /\ reads' <= InSamples(c) /\ calls' <= c.calls /\ writes' <= OutSamples(c)
    BY <1>2, <1>5, <1>8
  <2>2. QED BY <1>1, <1>2, <1>3, <2>1 DEF ScalarInv, forceVars
<1>14. PhaseInv'
  BY <1>1, <1>2, <1>8 DEF PhaseInv, Started
<1>15. ValueInv' /\ StartInv'
  BY <1>1, <1>2, StartQuiet
<1>16. PortInv'
  BY <1>11, <1>12, <1>13, <1>14, <1>15 DEF PortInv
<1>17. PendingFacts /\ PendingFacts'
  BY <1>2, <1>16, PendingIs, PendingNext
<1>18. InLen = 0 /\ OutLen = 0
  <2>1. cfg.inRate \in Nat /\ cfg.outRate \in Nat
    BY <1>1, Numbers
  <2>2. 0 * cfg.inRate = 0 /\ 0 * cfg.outRate = 0
    BY <2>1
  <2>3. QED BY <1>3, <1>8, <2>2 DEF InLen, OutLen, InDone, OutDone
<1>19. \A buf, pos, n : Window(buf, pos, 0, n) = << >>
  BY DEF Window
<1>20. InPending = << >> /\ InPending' = << >> /\ OutPending = << >> /\ OutPending' = << >>
  BY <1>9, <1>17, <1>18, <1>19 DEF PendingFacts
<1>21. QED BY <1>2, <1>3, <1>16, <1>20

-------------------------------------------------------------------------------
(* Every step is a step of the streams, or of none *)

LEMMA FromStutter ==
  ASSUME UNCHANGED <<cfg, got, heard, in_forced>>, InPending' = InPending
  PROVE  UNCHANGED FromSystemC!streamVars
BY DEF FromSystemC!streamVars

LEMMA FromProduce ==
  ASSUME UNCHANGED <<cfg, got, in_forced>>, heard' = heard + 1,
         InPending' = InPending \o Fresh(heard, 1)
  PROVE  FromSystemC!Produce
BY DEF FromSystemC!Produce, Fresh

LEMMA FromConsume ==
  ASSUME UNCHANGED <<cfg, heard, in_forced>>, Len(InPending) >= cfg.inRate,
         InPending' = SubSeq(InPending, cfg.inRate + 1, Len(InPending)),
         got' = IF in_forced THEN [i \in 1..cfg.inRate |-> Forced]
                ELSE SubSeq(InPending, 1, cfg.inRate)
  PROVE  FromSystemC!Consume("in")
BY DEF FromSystemC!Consume

LEMMA FromSetDelay ==
  ASSUME UNCHANGED <<cfg, got, heard, in_forced>>, cfg.inDelay \in Nat,
         NEW n \in 0..cfg.inDelay - 1, Len(InPending) = cfg.inDelay,
         InPending' = [InPending EXCEPT ![n + 1] = Preset]
  PROVE  FromSystemC!SetDelaySample("in", n + 1) /\ n + 1 \in 1..cfg.inDelay
<1>1. n + 1 \in 1..cfg.inDelay
  OBVIOUS
<1>2. FromSystemC!OnlyDelays
  BY DEF FromSystemC!OnlyDelays
<1>3. QED BY <1>1, <1>2 DEF FromSystemC!SetDelaySample

LEMMA FromForce ==
  ASSUME UNCHANGED <<cfg, got, heard>>, InPending' = InPending, in_forced' \in BOOLEAN
  PROVE  FromSystemC!SwitchForce
BY DEF FromSystemC!SwitchForce

LEMMA ToStutter ==
  ASSUME UNCHANGED <<cfg, sent, produced, out_forced>>, OutPending' = OutPending
  PROVE  UNCHANGED ToSystemC!streamVars
BY DEF ToSystemC!streamVars

LEMMA ToProduce ==
  ASSUME UNCHANGED <<cfg, sent, out_forced>>, produced' = produced + cfg.outRate,
         OutPending' = OutPending \o Fresh(produced, cfg.outRate)
  PROVE  ToSystemC!Produce
BY DEF ToSystemC!Produce, Fresh

LEMMA ToConsume ==
  ASSUME UNCHANGED <<cfg, produced, out_forced>>, Len(OutPending) >= 1,
         OutPending' = SubSeq(OutPending, 1 + 1, Len(OutPending)),
         sent' = IF out_forced THEN [i \in 1..1 |-> Forced] ELSE SubSeq(OutPending, 1, 1)
  PROVE  ToSystemC!Consume("sc")
BY DEF ToSystemC!Consume

LEMMA ToSetDelay ==
  ASSUME UNCHANGED <<cfg, sent, produced, out_forced>>, cfg.outDelay \in Nat,
         NEW n \in 0..cfg.outDelay - 1, Len(OutPending) = cfg.outDelay,
         OutPending' = [OutPending EXCEPT ![n + 1] = Preset]
  PROVE  ToSystemC!SetDelaySample("sc", n + 1) /\ n + 1 \in 1..cfg.outDelay
<1>1. n + 1 \in 1..cfg.outDelay
  OBVIOUS
<1>2. ToSystemC!OnlyDelays
  BY DEF ToSystemC!OnlyDelays
<1>3. QED BY <1>1, <1>2 DEF ToSystemC!SetDelaySample

LEMMA ToForce ==
  ASSUME UNCHANGED <<cfg, sent, produced>>, OutPending' = OutPending, out_forced' \in BOOLEAN
  PROVE  ToSystemC!SwitchForce
BY DEF ToSystemC!SwitchForce

\* Without samples there is nothing a new size could change.
LEMMA EmptyResize ==
  /\ FromSystemC!Resize(SubSeq(<< >>, 1, 0), 0)
       \o FromSystemC!Resize(SubSeq(<< >>, 0 + 1, Len(<< >>)), 0) = << >>
  /\ ToSystemC!Resize(SubSeq(<< >>, 1, 0), 0)
       \o ToSystemC!Resize(SubSeq(<< >>, 0 + 1, Len(<< >>)), 0) = << >>
<1>1. SubSeq(<< >>, 1, 0) = << >> /\ Len(<< >>) = 0 /\ << >> \o << >> = << >> /\ 0 + 1 = 1
  OBVIOUS
<1>2. FromSystemC!Zeros(0) = << >> /\ ToSystemC!Zeros(0) = << >>
  BY DEF FromSystemC!Zeros, ToSystemC!Zeros
<1>3. FromSystemC!Resize(<< >>, 0) = << >> /\ ToSystemC!Resize(<< >>, 0) = << >>
  BY <1>1, <1>2 DEF FromSystemC!Resize, ToSystemC!Resize
<1>4. SubSeq(<< >>, 0 + 1, Len(<< >>)) = << >>
  BY <1>1
<1>5. QED BY <1>1, <1>3, <1>4, Zenon

LEMMA FromReshape ==
  ASSUME UNCHANGED <<got, heard, in_forced>>, InPending = << >>, InPending' = << >>,
         cfg.inDelay = 0, cfg'.inDelay = 0
  PROVE  FromSystemC!StreamNext
<1>1. FromSystemC!OnlyDelays
  BY DEF FromSystemC!OnlyDelays
<1>2. QED BY <1>1, EmptyResize DEF FromSystemC!StreamNext, FromSystemC!Reshape

LEMMA ToReshape ==
  ASSUME UNCHANGED <<sent, produced, out_forced>>, OutPending = << >>, OutPending' = << >>,
         cfg.outDelay = 0, cfg'.outDelay = 0
  PROVE  ToSystemC!StreamNext
<1>1. ToSystemC!OnlyDelays
  BY DEF ToSystemC!OnlyDelays
<1>2. QED BY <1>1, EmptyResize DEF ToSystemC!StreamNext, ToSystemC!Reshape

\* Before the simulation the delay samples, and no others, are on the way.
LEMMA InitialStreams == Init => FromSystemC!StreamInit /\ ToSystemC!StreamInit
<1> SUFFICES ASSUME Init PROVE FromSystemC!StreamInit /\ ToSystemC!StreamInit
  OBVIOUS
<1>1. cfg.inDelay \in Nat /\ cfg.outDelay \in Nat
  <2>1. ScalarInv
    BY InitInv DEF PortInv
  <2>2. QED BY <2>1, Numbers
<1>2. ~Started
  BY DEF Init, Started
<1>3. InPending = [i \in 1..cfg.inDelay |-> Initial] /\ OutPending = [i \in 1..cfg.outDelay |-> Unset]
  BY <1>2 DEF InPending, OutPending
<1>4. \A v : \A d \in Nat : [i \in 1..d |-> v] \o << >> = [i \in 1..d |-> v]
  <2> SUFFICES ASSUME NEW d \in Nat, NEW v
               PROVE  [i \in 1..d |-> v] \o << >> = [i \in 1..d |-> v]
    OBVIOUS
  <2>1. HasLen([i \in 1..d |-> v], d) /\ HasLen(<< >>, 0) /\ d + 0 = d /\ 1..0 = {}
    BY DEF HasLen
  <2>2. QED BY <2>1, ConcatIs
<1>5. FromSystemC!Zeros(0) = << >> /\ ToSystemC!Zeros(0) = << >>
  BY DEF FromSystemC!Zeros, ToSystemC!Zeros
<1>6. heard = 0 /\ produced = 0 /\ got = << >> /\ sent = << >> /\ in_forced = FALSE /\ out_forced = FALSE
  BY DEF Init
<1>7. FromSystemC!StreamInit
  BY <1>1, <1>3, <1>4, <1>5, <1>6 DEF FromSystemC!StreamInit
<1>8. ToSystemC!StreamInit
  BY <1>1, <1>3, <1>4, <1>5, <1>6 DEF ToSystemC!StreamInit
<1>9. QED BY <1>7, <1>8

\* initialize sets the sample of the delay it names.
PresetHits ==
  /\ \A n \in 0..cfg.inDelay - 1 :
       initialize_in(n) => InPending' = [InPending EXCEPT ![n + 1] = Preset]
  /\ \A n \in 0..cfg.outDelay - 1 :
       initialize_out(n) => OutPending' = [OutPending EXCEPT ![n + 1] = Preset]

StreamsStep ==
  /\ PortInv'
  /\ [FromSystemC!StreamNext]_(FromSystemC!streamVars)
  /\ [ToSystemC!StreamNext]_(ToSystemC!streamVars)

LEMMA PresetCorrect == ASSUME PortInv, DelaysStay PROVE PresetHits
BY PresetInStep, PresetOutStep, Zenon DEF PresetHits

LEMMA PortsStep ==
  ASSUME PortInv, DelaysStay, [Next]_vars
  PROVE  StreamsStep
<1>1. /\ cfg.inDelay \in Nat /\ cfg.outDelay \in Nat
      /\ in_forced \in BOOLEAN /\ out_forced \in BOOLEAN
  <2>1. ScalarInv
    BY DEF PortInv
  <2>2. QED BY <2>1, Numbers DEF ScalarInv
<1>2. ASSUME initialize_de_signal(Preset) \/ CompleteBinding PROVE StreamsStep
  BY <1>2, BeforeStep, FromStutter, ToStutter DEF StreamsStep, forceVars
<1>3. ASSUME initialize_port PROVE StreamsStep
  BY <1>3, StartStep, FromStutter, ToStutter DEF StreamsStep, forceVars
<1>4. ASSUME NEW n \in 0..cfg.inDelay - 1, initialize_in(n) PROVE StreamsStep
  <2>1. /\ PortInv' /\ Len(InPending) = cfg.inDelay
        /\ InPending' = [InPending EXCEPT ![n + 1] = Preset] /\ OutPending' = OutPending
    BY <1>4, PresetInStep
  <2>2. UNCHANGED <<cfg, got, heard, in_forced>> /\ UNCHANGED <<cfg, sent, produced, out_forced>>
    BY <1>4 DEF initialize_in, forceVars
  <2>3. FromSystemC!SetDelaySample("in", n + 1) /\ n + 1 \in 1..cfg.inDelay
    BY <1>1, <2>1, <2>2, FromSetDelay
  <2>4. FromSystemC!StreamNext
    BY <2>3 DEF FromSystemC!StreamNext
  <2>5. QED BY <2>1, <2>2, <2>4, ToStutter DEF StreamsStep
<1>5. ASSUME NEW n \in 0..cfg.outDelay - 1, initialize_out(n) PROVE StreamsStep
  <2>1. /\ PortInv' /\ Len(OutPending) = cfg.outDelay
        /\ OutPending' = [OutPending EXCEPT ![n + 1] = Preset] /\ InPending' = InPending
    BY <1>5, PresetOutStep
  <2>2. UNCHANGED <<cfg, got, heard, in_forced>> /\ UNCHANGED <<cfg, sent, produced, out_forced>>
    BY <1>5 DEF initialize_out, forceVars
  <2>3. ToSystemC!SetDelaySample("sc", n + 1) /\ n + 1 \in 1..cfg.outDelay
    BY <1>1, <2>1, <2>2, ToSetDelay
  <2>4. ToSystemC!StreamNext
    BY <2>3 DEF ToSystemC!StreamNext
  <2>5. QED BY <2>1, <2>2, <2>4, FromStutter DEF StreamsStep
<1>6. ASSUME StartPeriod \/ EndPeriod PROVE StreamsStep
  <2>1. UNCHANGED <<cfg, got, heard, in_forced>> /\ UNCHANGED <<cfg, sent, produced, out_forced>>
    BY <1>6 DEF StartPeriod, EndPeriod, forceVars
  <2>2. QED BY <1>6, <2>1, PeriodStep, FromStutter, ToStutter DEF StreamsStep
<1>7. ASSUME read_from_sc PROVE StreamsStep
  <2>1. /\ PortInv' /\ InPending' = InPending \o Fresh(heard, 1) /\ OutPending' = OutPending
    BY <1>7, ReadStep
  <2>2. heard' = heard + 1 /\ UNCHANGED <<cfg, got, in_forced>> /\ UNCHANGED <<cfg, sent, produced, out_forced>>
    BY <1>7 DEF read_from_sc, forceVars
  <2>3. FromSystemC!StreamNext
    BY <2>1, <2>2, FromProduce DEF FromSystemC!StreamNext
  <2>4. QED BY <2>1, <2>2, <2>3, ToStutter DEF StreamsStep
<1>8. ASSUME Call PROVE StreamsStep
  <2>1. /\ PortInv' /\ Len(InPending) >= cfg.inRate
        /\ InPending' = SubSeq(InPending, cfg.inRate + 1, Len(InPending))
        /\ got' = IF in_forced THEN [i \in 1..cfg.inRate |-> Forced]
                  ELSE SubSeq(InPending, 1, cfg.inRate)
        /\ OutPending' = OutPending \o Fresh(produced, cfg.outRate)
    BY <1>8, CallStep
  <2>2. /\ UNCHANGED <<cfg, heard, in_forced>> /\ UNCHANGED <<cfg, sent, out_forced>>
        /\ produced' = produced + cfg.outRate
    BY <1>8 DEF Call, forceVars
  <2>3. FromSystemC!Consume("in")
    BY <2>1, <2>2, FromConsume
  <2>4. ToSystemC!Produce
    BY <2>1, <2>2, ToProduce
  <2>5. QED BY <2>1, <2>3, <2>4 DEF StreamsStep, FromSystemC!StreamNext, ToSystemC!StreamNext
<1>9. ASSUME write_to_sc PROVE StreamsStep
  <2>1. /\ PortInv' /\ Len(OutPending) >= 1
        /\ OutPending' = SubSeq(OutPending, 1 + 1, Len(OutPending))
        /\ sent' = IF out_forced THEN [i \in 1..1 |-> Forced] ELSE SubSeq(OutPending, 1, 1)
        /\ InPending' = InPending
    BY <1>9, WriteStep
  <2>2. UNCHANGED <<cfg, got, heard, in_forced>> /\ UNCHANGED <<cfg, produced, out_forced>>
    BY <1>9 DEF write_to_sc, forceVars
  <2>3. ToSystemC!Consume("sc")
    BY <2>1, <2>2, ToConsume
  <2>4. QED BY <2>1, <2>2, <2>3, FromStutter DEF StreamsStep, ToSystemC!StreamNext
<1>10. ASSUME NEW c, reschedule_cluster(c) PROVE StreamsStep
  <2>1. /\ PortInv' /\ InPending = << >> /\ InPending' = << >>
        /\ OutPending = << >> /\ OutPending' = << >>
        /\ cfg.inDelay = 0 /\ cfg'.inDelay = 0 /\ cfg.outDelay = 0 /\ cfg'.outDelay = 0
        /\ UNCHANGED <<got, sent, heard, produced, forceVars>>
    BY <1>10, RescheduleStep
  <2>2. FromSystemC!StreamNext
    BY <2>1, FromReshape DEF forceVars
  <2>3. ToSystemC!StreamNext
    BY <2>1, ToReshape DEF forceVars
  <2>4. QED BY <2>1, <2>2, <2>3 DEF StreamsStep
<1>11. ASSUME force_typed_value \/ release_value PROVE StreamsStep
  <2>1. /\ PortInv' /\ InPending' = InPending /\ OutPending' = OutPending
        /\ in_forced' \in BOOLEAN /\ out_forced' \in BOOLEAN
        /\ UNCHANGED <<cfg, got, sent, heard, produced>>
    BY <1>11, ForceStep
  <2>2. FromSystemC!SwitchForce
    BY <2>1, FromForce
  <2>3. ToSystemC!SwitchForce
    BY <2>1, ToForce
  <2>4. QED BY <2>1, <2>2, <2>3 DEF StreamsStep, FromSystemC!StreamNext, ToSystemC!StreamNext
<1>12. ASSUME UNCHANGED vars PROVE StreamsStep
  <2>1. UNCHANGED <<cfg, got, heard, in_forced>> /\ UNCHANGED <<cfg, sent, produced, out_forced>>
    BY <1>12 DEF vars, forceVars
  <2>2. QED BY <1>12, <2>1, RestStep, FromStutter, ToStutter DEF StreamsStep
<1>13. QED
  BY <1>2, <1>3, <1>4, <1>5, <1>6, <1>7, <1>8, <1>9, <1>10, <1>11, <1>12, Zenon DEF Next, Rest

-------------------------------------------------------------------------------
(* The result *)

\* The converter ports deliver: whatever the rates, the delays, the number of calls, the
\* order of accesses and calls, the forced values, the presets before the simulation and
\* the re-schedulings without delays, the module reads every sample of the SystemC signal
\* once and in order behind the delay samples, SystemC gets every sample of the module
\* likewise, initialize sets the sample it names, and the signal keeps the value of
\* initialize_de_signal until the first sample.
THEOREM PortsDeliver == ASSUME DelaysStay PROVE Spec => ConverterPortsDeliver
<1>1. Init => PortInv /\ FromSystemC!StreamInit /\ ToSystemC!StreamInit
  BY InitInv, InitialStreams
<1>2. PortInv /\ [Next]_vars => StreamsStep
  BY PortsStep
<1>3. PortInv => TypeOK /\ SignalInitialized
  BY TypeCorrect DEF PortInv, StartInv
<1>4. PortInv => PresetHits
  BY PresetCorrect
<1>5. PortInv /\ [Next]_vars =>
        /\ PortInv'
        /\ [FromSystemC!StreamNext]_(FromSystemC!streamVars)
        /\ [ToSystemC!StreamNext]_(ToSystemC!streamVars)
        /\ [PresetHits]_vars
  BY <1>2, <1>4 DEF StreamsStep
<1>6. QED
  BY <1>1, <1>3, <1>5, PTL DEF Spec, ConverterPortsDeliver, PortsImplementStream,
     ReadsImplementStream, WritesImplementStream, InitialValuesArrive, PresetSetsDelay,
     PresetHits, FromSystemC!StreamSpec, ToSystemC!StreamSpec
-------------------------------------------------------------------------------
(* TdfAttributes: the invariant *)

Attribute == [now : Nat, last : Nat, last_last : Nat, change_id : Nat, last_change_id : Nat]
Flag == [now : BOOLEAN, last : BOOLEAN, id : Int]
ExecutedCall == [rate : Nat, delay : Nat]
Callbacks == {"set_attributes", "initialize", "processing", "change_attributes",
              "reinitialize", "error"}

\* The permissions and the mode of the cluster, and what was asked for.
AttrTypeOK ==
  /\ attrScenario \in AttrScenarios
  /\ callback \in Callbacks
  /\ id_counter \in Nat /\ executions \in Nat /\ calls_per_period \in attrScenario.calls
  /\ rate \in Attribute /\ delay \in Attribute
  /\ resched \in BOOLEAN /\ flags_touched \in BOOLEAN /\ permitted \in BOOLEAN
  /\ does_flag \in Flag /\ accept_flag \in Flag
  /\ permits \in [all : BOOLEAN, but_one : BOOLEAN, dynamic : BOOLEAN]
  /\ mode \in [was_dynamic : BOOLEAN, is_first : BOOLEAN]
  /\ scheduled \in ExecutedCall
  /\ executed \in Seq(ExecutedCall) /\ Len(executed) <= 2

\* Before the first call an attribute has one value only; after call number n it keeps the
\* value e of that call, which a change since then has made the last one.
Untouched(a) == a.last = a.now /\ a.last_last = a.now /\ a.change_id = 0 /\ a.last_change_id = 0
Remembers(a, n, e) == IF a.change_id = n THEN a.last = e ELSE a.now = e

\* During change_attributes() it also keeps the value of the call before.
RemembersTwo(a, n, e) ==
  IF a.change_id = n
  THEN IF a.last_change_id = n - 1 THEN a.last_last = e ELSE a.last = e
  ELSE IF a.change_id = n - 1 THEN a.last = e ELSE a.now = e

MemoryInv ==
  /\ rate.change_id <= id_counter /\ delay.change_id <= id_counter
  /\ id_counter = 0 <=> executed = <<>>
  /\ callback \in {"set_attributes", "initialize"} => executed = <<>>
  /\ callback \in {"change_attributes", "reinitialize"} => executed # <<>>
  /\ executed = <<>> => Untouched(rate) /\ Untouched(delay)
  /\ executed # <<>> => /\ Remembers(rate, id_counter, Executed(1).rate)
                        /\ Remembers(delay, id_counter, Executed(1).delay)
  /\ InChange => /\ RemembersTwo(rate, id_counter, Executed(2).rate)
                 /\ RemembersTwo(delay, id_counter, Executed(2).delay)

\* A change that is not scheduled yet is a request for a re-scheduling, and the cluster
\* of a module that makes changes stays dynamic.
ScheduleInv ==
  /\ resched => InChange \/ callback = "error"
  /\ callback \notin {"set_attributes", "error"} /\ ~resched => scheduled = [rate |-> rate.now, delay |-> delay.now]
  /\ attrScenario.rates \cup attrScenario.delays # {} => permits.dynamic /\ does_flag.now
  /\ attrScenario.rates \cup attrScenario.delays = {} => ~resched

\* The value a flag had when the callback started.
StartValue(f, call) == IF f.id = call THEN f.last ELSE f.now

PermissionInv ==
  /\ callback = "set_attributes" => executions = 0
  /\ InChange => executions > 0
  /\ attrScenario.flags => does_flag.id < executions /\ accept_flag.id < executions
  /\ ~attrScenario.flags => /\ does_flag.now = does_flag.last
                            /\ accept_flag.now = accept_flag.last
  /\ InChange /\ FlagCall > 1 =>
       (permitted <=> Permission(StartValue(does_flag, FlagCall), StartValue(accept_flag, FlagCall)))

\* A port of constant rate asks its module for one timestep.
TimestepInv ==
  /\ timestep # <<>> => \E t \in attrScenario.timesteps : timestep = <<t>>
  /\ attrScenario.timesteps # {} => rate.now = 1 /\ rate.last = 1
  /\ new_timestep # <<>> => \E t \in attrScenario.timesteps : new_timestep = <<t>>

AttrInv == AttrTypeOK /\ MemoryInv /\ ScheduleInv /\ PermissionInv /\ TimestepInv

-------------------------------------------------------------------------------
(* What the operators on an attribute keep                                 *)

\* The first change of a callback keeps the value of the last call as the last one, a
\* further one changes the value only.
LEMMA ChangedKeeps ==
  ASSUME NEW a \in Attribute, NEW v \in Nat, id_counter \in Nat, a.change_id <= id_counter
  PROVE  /\ Changed(a, v) \in Attribute
         /\ Changed(a, v).now = v
         /\ Changed(a, v).change_id <= id_counter
         /\ a.now = v => Changed(a, v) = a
         /\ \A e : Remembers(a, id_counter, e) => Remembers(Changed(a, v), id_counter, e)
         /\ \A e : RemembersTwo(a, id_counter, e) => RemembersTwo(Changed(a, v), id_counter, e)
<1>1. CASE a.now = v
  BY <1>1 DEF Changed
<1>2. CASE a.now # v /\ a.change_id = id_counter
  <2>1. Changed(a, v) = [a EXCEPT !.now = v]
    BY <1>2 DEF Changed
  <2>2. QED BY <1>2, <2>1 DEF Attribute, Remembers, RemembersTwo
<1>3. CASE a.now # v /\ a.change_id # id_counter
  <2>1. Changed(a, v) = [now |-> v, last |-> a.now, last_last |-> a.last,
                         change_id |-> id_counter, last_change_id |-> a.change_id]
    BY <1>3 DEF Changed
  <2>2. QED BY <1>3, <2>1 DEF Attribute, Remembers, RemembersTwo
<1>4. QED BY <1>1, <1>2, <1>3

\* Updating the last values keeps the value of the last call, which then is the last one.
LEMMA UpdateKeeps ==
  ASSUME NEW a \in Attribute, id_counter \in Nat, a.change_id <= id_counter
  PROVE  /\ update_last_values(a) \in Attribute
         /\ update_last_values(a).now = a.now
         /\ update_last_values(a).change_id = a.change_id
         /\ \A e : Remembers(a, id_counter, e) => /\ update_last_values(a).last = e
                                                 /\ Remembers(update_last_values(a), id_counter, e)
<1>1. CASE a.change_id = id_counter
  BY <1>1 DEF update_last_values, Remembers
<1>2. CASE a.change_id # id_counter
  BY <1>2 DEF update_last_values, Remembers, Attribute
<1>3. QED BY <1>1, <1>2

\* After call number n + 1 the attribute keeps its value during that call, and the value
\* of the call before.
LEMMA CallKeeps ==
  ASSUME NEW a \in Attribute, NEW n \in Nat, NEW e \in Nat, a.change_id <= n,
         Remembers(a, n, e)
  PROVE  /\ Remembers(a, n + 1, a.now) /\ a.change_id <= n + 1
         /\ RemembersTwo(a, n + 1, e)
BY DEF Remembers, RemembersTwo, Attribute

LEMMA FirstCallKeeps ==
  ASSUME NEW a \in Attribute, Untouched(a)
  PROVE  /\ Remembers(a, 1, a.now) /\ RemembersTwo(a, 1, a.now)
BY DEF Remembers, RemembersTwo, Attribute, Untouched

\* What the premise and the assumptions say about the scenario at hand.
LEMMA ScenarioFacts ==
  ASSUME ConsistentRequests, attrScenario \in AttrScenarios
  PROVE  /\ attrScenario.rates \subseteq Nat /\ attrScenario.delays \subseteq Nat
         /\ attrScenario.timesteps \subseteq Nat \ {0}
         /\ attrScenario.calls \subseteq Nat \ {0}
         /\ attrScenario.flags \in BOOLEAN /\ attrScenario.declared \in BOOLEAN
         /\ attrScenario.rates \cup attrScenario.delays # {} =>
              attrScenario.declared /\ ~attrScenario.flags
         /\ attrScenario.timesteps # {} => /\ attrScenario.rates = {} /\ attrScenario.calls = {1}
         /\ \A t, u \in attrScenario.timesteps : t = u
BY AttributesAssumption DEF ConsistentRequests, AsksConsistently, IsAttrScenario

\* The history of the last two calls.
LastTwo(ex, c) == (IF ex = <<>> THEN <<>> ELSE <<ex[Len(ex)]>>) \o <<c>>

LEMMA HistoryKept ==
  ASSUME NEW ex \in Seq(ExecutedCall), Len(ex) <= 2, NEW c \in ExecutedCall
  PROVE  /\ LastTwo(ex, c) \in Seq(ExecutedCall) /\ Len(LastTwo(ex, c)) <= 2 /\ LastTwo(ex, c) # <<>>
         /\ LastTwo(ex, c)[Max2(1, Len(LastTwo(ex, c)))] = c
         /\ LastTwo(ex, c)[Max2(1, Len(LastTwo(ex, c)) - 1)] =
              IF ex = <<>> THEN c ELSE ex[Max2(1, Len(ex))]
<1>a. \A n \in Nat : n # 0 => Max2(1, n) = n
  BY DEF Max2
<1>b. Max2(1, 0) = 1 /\ Max2(1, 1) = 1
  BY DEF Max2
<1>1. CASE ex = <<>>
  <2>1. LastTwo(ex, c) = <<c>>
    BY <1>1 DEF LastTwo
  <2>2. <<c>> \in Seq(ExecutedCall) /\ Len(<<c>>) = 1 /\ <<c>>[1] = c /\ <<c>> # <<>>
    OBVIOUS
  <2>3. PICK g : g = LastTwo(ex, c)
    OBVIOUS
  <2>4. g \in Seq(ExecutedCall) /\ Len(g) = 1 /\ g[1] = c /\ g # <<>>
    BY <2>1, <2>2, <2>3
  <2>5. Max2(1, Len(g)) = 1 /\ Max2(1, Len(g) - 1) = 1
    BY <1>b, <2>4
  <2>6. /\ g \in Seq(ExecutedCall) /\ Len(g) <= 2 /\ g # <<>>
        /\ g[Max2(1, Len(g))] = c
        /\ g[Max2(1, Len(g) - 1)] = IF ex = <<>> THEN c ELSE ex[Max2(1, Len(ex))]
    BY <1>1, <2>4, <2>5
  <2>7. QED BY <2>3, <2>6
<1>2. CASE ex # <<>>
  <2>1. Len(ex) \in Nat /\ Len(ex) # 0
    BY <1>2
  <2>2. ex[Len(ex)] \in ExecutedCall
    BY <2>1
  <2>3. PICK next : next = LastTwo(ex, c)
    OBVIOUS
  <2>4. next = <<ex[Len(ex)]>> \o <<c>>
    BY <1>2, <2>3 DEF LastTwo
  <2>5. /\ next \in Seq(ExecutedCall) /\ Len(next) = 2 /\ next[2] = c /\ next # <<>>
        /\ next[1] = ex[Len(ex)]
    BY <2>2, <2>4
  <2>6. Max2(1, Len(ex)) = Len(ex) /\ Max2(1, 2) = 2
    BY <1>a, <2>1
  <2>7. QED BY <1>2, <1>b, <2>3, <2>5, <2>6
<1>3. QED BY <1>1, <1>2

-------------------------------------------------------------------------------
(* The invariant holds at the start and after every step                   *)

LEMMA AttrInitInv ==
  ASSUME ConsistentRequests, AttrInit
  PROVE  AttrInv
<1>1. attrScenario \in AttrScenarios
  BY DEF AttrInit
<1>2. AttrTypeOK
  <2>1. rate \in Attribute /\ delay \in Attribute /\ scheduled \in ExecutedCall
    BY DEF AttrInit, Fixed, Attribute, ExecutedCall
  <2>2. attrScenario.declared \in BOOLEAN
    BY <1>1, ScenarioFacts
  <2>3. /\ does_flag \in Flag /\ accept_flag \in Flag
        /\ permits \in [all : BOOLEAN, but_one : BOOLEAN, dynamic : BOOLEAN]
    BY <2>2 DEF AttrInit, Flag, Checked
  <2>4. executed \in Seq(ExecutedCall) /\ Len(executed) <= 2
    BY DEF AttrInit
  <2>5. QED BY <1>1, <2>1, <2>3, <2>4 DEF AttrInit, AttrTypeOK, Callbacks
<1>3. MemoryInv
  BY DEF AttrInit, MemoryInv, Fixed, Untouched, InChange
<1>4. ScheduleInv
  BY <1>1, ScenarioFacts DEF AttrInit, ScheduleInv, Checked
<1>5. PermissionInv
  BY DEF AttrInit, PermissionInv, InChange
<1>6. TimestepInv
  BY DEF AttrInit, TimestepInv, Fixed, InChange
<1>7. QED BY <1>2, <1>3, <1>4, <1>5, <1>6 DEF AttrInv

LEMMA RefuseKeeps ==
  ASSUME AttrInv, Refuse
  PROVE  AttrInv'
<1> USE DEF Refuse, portAttributes, requests, flags, cluster, AttrInv
<1>1. AttrTypeOK'
  BY DEF AttrTypeOK, Callbacks
<1>2. MemoryInv'
  BY DEF MemoryInv, Untouched, Remembers, Executed, InChange
<1>3. ScheduleInv'
  BY DEF ScheduleInv
<1>4. PermissionInv'
  BY DEF PermissionInv, InChange
<1>5. TimestepInv'
  BY DEF TimestepInv, InChange
<1>6. QED BY <1>1, <1>2, <1>3, <1>4, <1>5

\* set_rate() and set_delay(): the change goes through Changed, and asks for a
\* re-scheduling.
LEMMA RateKeeps ==
  ASSUME ConsistentRequests, AttrInv, NEW r \in attrScenario.rates, callback # "error",
         set_rate(r)
  PROVE  AttrInv'
<1> USE DEF requests, flags, cluster
<1>a. /\ r \in Nat /\ attrScenario.timesteps = {} /\ attrScenario.rates \cup attrScenario.delays # {}
  BY ScenarioFacts DEF AttrInv, AttrTypeOK
<1>b. /\ rate \in Attribute /\ id_counter \in Nat /\ rate.change_id <= id_counter
  BY DEF AttrInv, AttrTypeOK, MemoryInv
<1>c. CASE ~Settable \/ r = 0
  BY <1>c, RefuseKeeps DEF set_rate
<1>d. CASE Settable /\ r # 0
  <2>1. /\ rate' = IF InChange THEN Changed(rate, r) ELSE Fixed(r)
        /\ resched' = (resched \/ (InChange /\ rate.now # r))
        /\ UNCHANGED <<attrScenario, callback, id_counter, executions, delay, timestep,
                       max_timestep, new_timestep, new_max, flags, cluster, executed, permitted>>
    BY <1>d DEF set_rate
  <2>2. InChange \/ callback = "set_attributes"
    BY <1>d DEF Settable, InChange
  <2>3. AttrTypeOK'
    <3>1. rate' \in Attribute
      BY <1>a, <1>b, <2>1, ChangedKeeps DEF Fixed, Attribute
    <3>2. QED BY <2>1, <3>1 DEF AttrInv, AttrTypeOK
  <2>4. MemoryInv'
    <3>1. CASE InChange
      <4>1. rate' = Changed(rate, r)
        BY <2>1, <3>1
      <4>2. executed # <<>> /\ callback = "change_attributes"
        BY <3>1 DEF AttrInv, MemoryInv, InChange
      <4>3. /\ rate'.change_id <= id_counter
            /\ Remembers(rate', id_counter, Executed(1).rate)
            /\ RemembersTwo(rate', id_counter, Executed(2).rate)
        BY <1>a, <1>b, <3>1, <4>1, <4>2, ChangedKeeps DEF AttrInv, MemoryInv
      <4>4. QED BY <2>1, <4>2, <4>3 DEF AttrInv, MemoryInv, Executed, InChange
    <3>2. CASE ~InChange
      <4>1. rate' = Fixed(r) /\ callback = "set_attributes"
        BY <2>1, <2>2, <3>2
      <4>2. rate'.change_id = 0 /\ Untouched(rate') /\ executed = <<>>
        BY <4>1 DEF Fixed, Untouched, AttrInv, MemoryInv
      <4>3. QED BY <1>b, <2>1, <4>1, <4>2 DEF AttrInv, MemoryInv, InChange
    <3>3. QED BY <3>1, <3>2
  <2>5. ScheduleInv'
    <3>1. InChange /\ rate.now = r => rate' = rate
      BY <1>a, <1>b, <2>1, ChangedKeeps
    <3>2. QED BY <2>1, <2>2, <3>1 DEF AttrInv, AttrTypeOK, ScheduleInv, InChange
  <2>6. PermissionInv'
    BY <2>1 DEF AttrInv, PermissionInv, InChange, FlagCall, Permission, StartValue
  <2>7. TimestepInv'
    BY <1>a, <2>1 DEF AttrInv, TimestepInv, InChange
  <2>8. QED BY <2>3, <2>4, <2>5, <2>6, <2>7 DEF AttrInv
<1>e. QED BY <1>c, <1>d

LEMMA DelayKeeps ==
  ASSUME ConsistentRequests, AttrInv, NEW d \in attrScenario.delays, callback # "error",
         set_delay(d)
  PROVE  AttrInv'
<1> USE DEF requests, flags, cluster
<1>a. d \in Nat /\ attrScenario.rates \cup attrScenario.delays # {}
  BY ScenarioFacts DEF AttrInv, AttrTypeOK
<1>b. /\ delay \in Attribute /\ id_counter \in Nat /\ delay.change_id <= id_counter
  BY DEF AttrInv, AttrTypeOK, MemoryInv
<1>c. CASE ~Settable
  BY <1>c, RefuseKeeps DEF set_delay
<1>d. CASE Settable
  <2>1. /\ delay' = IF InChange THEN Changed(delay, d) ELSE Fixed(d)
        /\ resched' = (resched \/ (InChange /\ delay.now # d))
        /\ UNCHANGED <<attrScenario, callback, id_counter, executions, rate, timestep,
                       max_timestep, new_timestep, new_max, flags, cluster, executed, permitted>>
    BY <1>d DEF set_delay, DelayChanged
  <2>2. InChange \/ callback = "set_attributes"
    BY <1>d DEF Settable, InChange
  <2>3. AttrTypeOK'
    <3>1. delay' \in Attribute
      BY <1>a, <1>b, <2>1, ChangedKeeps DEF Fixed, Attribute
    <3>2. QED BY <2>1, <3>1 DEF AttrInv, AttrTypeOK
  <2>4. MemoryInv'
    <3>1. CASE InChange
      <4>1. delay' = Changed(delay, d)
        BY <2>1, <3>1
      <4>2. executed # <<>> /\ callback = "change_attributes"
        BY <3>1 DEF AttrInv, MemoryInv, InChange
      <4>3. /\ delay'.change_id <= id_counter
            /\ Remembers(delay', id_counter, Executed(1).delay)
            /\ RemembersTwo(delay', id_counter, Executed(2).delay)
        BY <1>a, <1>b, <3>1, <4>1, <4>2, ChangedKeeps DEF AttrInv, MemoryInv
      <4>4. QED BY <2>1, <4>2, <4>3 DEF AttrInv, MemoryInv, Executed, InChange
    <3>2. CASE ~InChange
      <4>1. delay' = Fixed(d) /\ callback = "set_attributes"
        BY <2>1, <2>2, <3>2
      <4>2. delay'.change_id = 0 /\ Untouched(delay') /\ executed = <<>>
        BY <4>1 DEF Fixed, Untouched, AttrInv, MemoryInv
      <4>3. QED BY <1>b, <2>1, <4>1, <4>2 DEF AttrInv, MemoryInv, InChange
    <3>3. QED BY <3>1, <3>2
  <2>5. ScheduleInv'
    <3>1. InChange /\ delay.now = d => delay' = delay
      BY <1>a, <1>b, <2>1, ChangedKeeps
    <3>2. QED BY <2>1, <2>2, <3>1 DEF AttrInv, AttrTypeOK, ScheduleInv, InChange
  <2>6. PermissionInv'
    BY <2>1 DEF AttrInv, PermissionInv, InChange, FlagCall, Permission, StartValue
  <2>7. TimestepInv'
    BY <2>1 DEF AttrInv, TimestepInv, InChange
  <2>8. QED BY <2>3, <2>4, <2>5, <2>6, <2>7 DEF AttrInv
<1>e. QED BY <1>c, <1>d

\* A timestep changes nothing the schedule or the memory depends on; the module gets the
\* timestep of the one call it makes per period.
LEMMA TimestepKeeps ==
  ASSUME ConsistentRequests, AttrInv, NEW t \in attrScenario.timesteps, callback # "error",
         set_timestep(t)
  PROVE  AttrInv' /\ (timestep # <<>> /\ InChange => callback' # "error")
<1> USE DEF requests, flags, cluster
<1>a. /\ t \in Nat /\ attrScenario.calls = {1} /\ \A u \in attrScenario.timesteps : u = t
  BY ScenarioFacts DEF AttrInv, AttrTypeOK
<1>b. /\ calls_per_period = 1 /\ rate.now = 1 /\ rate.last = 1
  BY <1>a DEF AttrInv, AttrTypeOK, TimestepInv
<1>c. t * get_rate = t
  BY <1>a, <1>b DEF get_rate
<1>d. InChange => ~Refused(new_timestep, t * get_rate)
  BY <1>a, <1>b, <1>c DEF Refused, AttrInv, TimestepInv
<1>1. CASE ~Settable
  BY <1>1, RefuseKeeps DEF set_timestep, Settable, InChange
<1>2. CASE Settable
  <2>1. ~Refused(new_timestep, t * get_rate)
    BY <1>d DEF Refused
  <2>2. /\ timestep' = <<t>>
        /\ new_timestep' = IF InChange THEN ModuleTimestep(new_timestep, t) ELSE new_timestep
        /\ UNCHANGED <<attrScenario, callback, id_counter, executions, rate, delay, max_timestep,
                       new_max, resched, flags, cluster, executed, permitted>>
    BY <1>2, <1>c, <2>1 DEF set_timestep
  <2>3. AttrTypeOK'
    BY <2>2 DEF AttrInv, AttrTypeOK
  <2>4. MemoryInv'
    BY <2>2 DEF AttrInv, MemoryInv, Executed, InChange
  <2>5. ScheduleInv'
    BY <2>2 DEF AttrInv, ScheduleInv, InChange
  <2>6. PermissionInv'
    BY <2>2 DEF AttrInv, PermissionInv, InChange, FlagCall, Permission, StartValue
  <2>7. TimestepInv'
    BY <1>b, <2>2 DEF AttrInv, TimestepInv, InChange, ModuleTimestep
  <2>8. QED BY <1>2, <2>2, <2>3, <2>4, <2>5, <2>6, <2>7 DEF AttrInv, Settable
<1>3. QED BY <1>1, <1>2

LEMMA MaxTimestepKeeps ==
  ASSUME AttrInv, NEW t, callback # "error", set_max_timestep(t)
  PROVE  AttrInv' /\ (InChange => callback' # "error")
<1> USE DEF requests, flags, cluster
<1>1. CASE ~Settable
  BY <1>1, RefuseKeeps DEF set_max_timestep, Settable, InChange
<1>2. CASE Settable
  <2>1. UNCHANGED <<attrScenario, callback, id_counter, executions, rate, delay, timestep,
                    new_timestep, resched, flags, cluster, executed, permitted>>
    BY <1>2 DEF set_max_timestep
  <2>2. AttrTypeOK'
    BY <2>1 DEF AttrInv, AttrTypeOK
  <2>3. MemoryInv'
    BY <2>1 DEF AttrInv, MemoryInv, Executed, InChange
  <2>4. ScheduleInv' /\ TimestepInv'
    BY <2>1 DEF AttrInv, ScheduleInv, TimestepInv, InChange
  <2>5. PermissionInv'
    BY <2>1 DEF AttrInv, PermissionInv, InChange, FlagCall, Permission, StartValue
  <2>6. QED BY <1>2, <2>1, <2>2, <2>3, <2>4, <2>5 DEF AttrInv, Settable
<1>3. QED BY <1>1, <1>2

\* The first change of a flag in a callback keeps its value as the last one; asking for
\* the permission does the same without a change.
LEMMA FlagKeeps ==
  ASSUME NEW f \in Flag, NEW v \in BOOLEAN, executions \in Nat, InChange => executions > 0
  PROVE  /\ FlagSet(f, v) \in Flag /\ Refreshed(f) \in Flag
         /\ FlagSet(f, v).now = v /\ Refreshed(f).now = f.now
         /\ f.id < executions /\ InChange =>
              FlagSet(f, v).id < executions /\ Refreshed(f).id < executions
         /\ f.id < executions /\ executions = 0 => FlagSet(f, v).id < executions
         /\ InChange /\ FlagCall > 1 =>
              StartValue(FlagSet(f, v), FlagCall) = StartValue(f, FlagCall)
         /\ InChange => StartValue(Refreshed(f), FlagCall) = StartValue(f, FlagCall)
         /\ f.now = f.last => Refreshed(f).now = Refreshed(f).last
<1>1. FlagCall \in Int /\ (InChange => FlagCall < executions) /\ (executions = 0 => FlagCall <= 1)
  BY DEF FlagCall
<1>2. /\ Refreshed(f) \in Flag /\ Refreshed(f).now = f.now
      /\ f.id < executions /\ InChange => Refreshed(f).id < executions
      /\ InChange => StartValue(Refreshed(f), FlagCall) = StartValue(f, FlagCall)
      /\ f.now = f.last => Refreshed(f).now = Refreshed(f).last
  BY <1>1 DEF Refreshed, Flag, StartValue
<1>3. CASE f.now = v
  <2>1. FlagSet(f, v) = f
    BY <1>3 DEF FlagSet
  <2>2. QED BY <1>2, <1>3, <2>1
<1>4. CASE f.now # v /\ FlagCall <= 1
  <2>1. FlagSet(f, v) = [f EXCEPT !.now = v, !.last = v]
    BY <1>4 DEF FlagSet
  <2>2. /\ FlagSet(f, v) \in Flag /\ FlagSet(f, v).now = v /\ FlagSet(f, v).id = f.id
    BY <2>1 DEF Flag
  <2>3. QED BY <1>1, <1>2, <1>4, <2>2
<1>5. CASE f.now # v /\ FlagCall > 1 /\ f.id = FlagCall
  <2>1. FlagSet(f, v) = [f EXCEPT !.now = v]
    BY <1>1, <1>5 DEF FlagSet
  <2>2. /\ FlagSet(f, v) \in Flag /\ FlagSet(f, v).now = v /\ FlagSet(f, v).id = f.id
        /\ FlagSet(f, v).last = f.last
    BY <2>1 DEF Flag
  <2>3. QED BY <1>1, <1>2, <1>5, <2>2 DEF StartValue
<1>6. CASE f.now # v /\ FlagCall > 1 /\ f.id # FlagCall
  <2>1. FlagSet(f, v) = [now |-> v, last |-> f.now, id |-> FlagCall]
    BY <1>1, <1>6 DEF FlagSet
  <2>2. FlagSet(f, v) \in Flag
    BY <1>1, <2>1 DEF Flag
  <2>3. QED BY <1>1, <1>2, <1>6, <2>1, <2>2 DEF StartValue
<1>7. QED BY <1>1, <1>3, <1>4, <1>5, <1>6

LEMMA SetFlagsKeeps ==
  ASSUME ConsistentRequests, AttrInv, NEW d \in BOOLEAN, NEW a \in BOOLEAN,
         attrScenario.flags, SetFlags(d, a)
  PROVE  AttrInv'
<1> USE DEF portAttributes, requests, cluster
<1>a. attrScenario.rates \cup attrScenario.delays = {}
  BY ScenarioFacts DEF AttrInv, AttrTypeOK
<1>b. InChange \/ executions = 0
  BY DEF SetFlags, Settable, InChange, AttrInv, PermissionInv
<1>c. /\ executions \in Nat /\ does_flag \in Flag /\ accept_flag \in Flag
      /\ InChange => executions > 0
      /\ does_flag.id < executions /\ accept_flag.id < executions
  BY DEF AttrInv, AttrTypeOK, PermissionInv
<1>1. /\ does_flag' = FlagSet(does_flag, d) /\ accept_flag' = FlagSet(accept_flag, a)
      /\ flags_touched' \in BOOLEAN
      /\ UNCHANGED <<attrScenario, callback, id_counter, executions, portAttributes, requests,
                     cluster, executed, permitted>>
  BY DEF SetFlags, AttrInv, AttrTypeOK
<1>2. /\ does_flag' \in Flag /\ accept_flag' \in Flag
      /\ does_flag'.id < executions /\ accept_flag'.id < executions
      /\ InChange /\ FlagCall > 1 =>
           /\ StartValue(does_flag', FlagCall) = StartValue(does_flag, FlagCall)
           /\ StartValue(accept_flag', FlagCall) = StartValue(accept_flag, FlagCall)
  BY <1>1, <1>b, <1>c, FlagKeeps
<1>3. AttrTypeOK'
  BY <1>1, <1>2 DEF AttrInv, AttrTypeOK
<1>4. MemoryInv'
  BY <1>1 DEF AttrInv, MemoryInv, Executed, InChange
<1>5. ScheduleInv' /\ TimestepInv'
  BY <1>1, <1>a DEF AttrInv, ScheduleInv, TimestepInv, InChange
<1>6. PermissionInv'
  BY <1>1, <1>2 DEF AttrInv, PermissionInv, InChange, FlagCall, Permission
<1>7. QED BY <1>3, <1>4, <1>5, <1>6 DEF AttrInv

LEMMA AskKeeps ==
  ASSUME AttrInv, AskPermission
  PROVE  AttrInv'
<1> USE DEF portAttributes, requests, cluster
<1>a. /\ executions \in Nat /\ does_flag \in Flag /\ accept_flag \in Flag /\ InChange
      /\ executions > 0
  BY DEF AttrInv, AttrTypeOK, PermissionInv, AskPermission
<1>1. /\ does_flag' = Refreshed(does_flag) /\ accept_flag' = Refreshed(accept_flag)
      /\ UNCHANGED <<attrScenario, callback, id_counter, executions, portAttributes, requests,
                     flags_touched, cluster, executed, permitted>>
  BY DEF AskPermission
<1>2. /\ does_flag' \in Flag /\ accept_flag' \in Flag
      /\ does_flag'.now = does_flag.now
      /\ does_flag.id < executions => does_flag'.id < executions
      /\ accept_flag.id < executions => accept_flag'.id < executions
      /\ does_flag.now = does_flag.last => does_flag'.now = does_flag'.last
      /\ accept_flag.now = accept_flag.last => accept_flag'.now = accept_flag'.last
      /\ StartValue(does_flag', FlagCall) = StartValue(does_flag, FlagCall)
      /\ StartValue(accept_flag', FlagCall) = StartValue(accept_flag, FlagCall)
  BY <1>1, <1>a, FlagKeeps
<1>3. AttrTypeOK'
  BY <1>1, <1>2 DEF AttrInv, AttrTypeOK
<1>4. MemoryInv'
  BY <1>1 DEF AttrInv, MemoryInv, Executed, InChange
<1>5. ScheduleInv' /\ TimestepInv'
  BY <1>1, <1>2 DEF AttrInv, ScheduleInv, TimestepInv, InChange
<1>6. PermissionInv'
  BY <1>1, <1>2 DEF AttrInv, PermissionInv, InChange, FlagCall, Permission
<1>7. QED BY <1>3, <1>4, <1>5, <1>6 DEF AttrInv

\* The module gets at most the one timestep its ports ask for.
LEMMA ValidationKeeps ==
  ASSUME ConsistentRequests, AttrInv, port_attribute_validation
  PROVE  /\ timestep' = <<>>
         /\ new_timestep' # <<>> => \E t \in attrScenario.timesteps : new_timestep' = <<t>>
<1>1. timestep' = <<>>
  BY DEF port_attribute_validation
<1>2. CASE timestep = <<>>
  BY <1>1, <1>2 DEF port_attribute_validation, AttrInv, TimestepInv
<1>3. CASE timestep # <<>>
  <2>1. PICK t \in attrScenario.timesteps : timestep = <<t>>
    BY <1>3 DEF AttrInv, TimestepInv
  <2>2. t \in Nat
    BY ScenarioFacts DEF AttrInv, AttrTypeOK
  <2>3. rate.now = 1 /\ timestep[1] = t
    BY <2>1 DEF AttrInv, TimestepInv
  <2>4. rate.now * timestep[1] = t
    BY <2>2, <2>3
  <2>5. new_timestep' = ModuleTimestep(new_timestep, t)
    BY <1>3, <2>4 DEF port_attribute_validation
  <2>6. QED BY <1>1, <2>1, <2>5 DEF ModuleTimestep, AttrInv, TimestepInv
<1>4. QED BY <1>2, <1>3

\* The callback set_attributes() ends: the cluster is scheduled with the attributes set.
LEMMA AttributesSetKeeps ==
  ASSUME ConsistentRequests, AttrInv, AttributesSet
  PROVE  AttrInv'
<1> USE DEF AttributesSet, portAttributes, requests, flags, cluster, AttrInv
<1>1. AttrTypeOK'
  BY DEF AttrTypeOK, Callbacks, Attribute, ExecutedCall, Flag, Checked
<1>2. MemoryInv'
  BY DEF MemoryInv, Executed, InChange
<1>3. ScheduleInv'
  BY DEF ScheduleInv, Checked, InChange
<1>4. PermissionInv'
  BY DEF PermissionInv, InChange
<1>5. TimestepInv'
  BY ValidationKeeps DEF TimestepInv
<1>6. QED BY <1>1, <1>2, <1>3, <1>4, <1>5

\* Samples set anew in reinitialize() update the last values, which keeps what the
\* attribute remembers of the last call.
LEMMA InitializedKeeps ==
  ASSUME AttrInv, Initialized
  PROVE  AttrInv'
<1> USE DEF flags, cluster
<1>1. /\ callback \in {"initialize", "reinitialize"} /\ callback' = "processing"
      /\ new_timestep' = <<>>
      /\ UNCHANGED <<attrScenario, id_counter, executions, timestep, resched, flags,
                     cluster, executed, permitted>>
  BY DEF Initialized
<1>2. /\ rate' \in Attribute /\ delay' \in Attribute
      /\ rate'.now = rate.now /\ delay'.now = delay.now
      /\ rate'.change_id = rate.change_id /\ delay'.change_id = delay.change_id
  BY UpdateKeeps DEF Initialized, AttrInv, AttrTypeOK, MemoryInv
<1>3. CASE UNCHANGED <<rate, delay>>
  <2>1. AttrTypeOK'
    BY <1>1, <1>3 DEF AttrInv, AttrTypeOK, Callbacks
  <2>2. MemoryInv'
    BY <1>1, <1>3 DEF AttrInv, MemoryInv, Executed, InChange
  <2>3. ScheduleInv' /\ PermissionInv' /\ TimestepInv'
    BY <1>1, <1>3 DEF AttrInv, ScheduleInv, PermissionInv, TimestepInv, InChange
  <2>4. QED BY <2>1, <2>2, <2>3 DEF AttrInv
<1>4. CASE /\ callback = "reinitialize"
           /\ rate' = update_last_values(rate) /\ delay' = update_last_values(delay)
  <2>1. AttrTypeOK'
    BY <1>1, <1>2 DEF AttrInv, AttrTypeOK, Callbacks
  <2>2. MemoryInv'
    <3>1. executed # <<>>
      BY <1>4 DEF AttrInv, MemoryInv
    <3>2. /\ Remembers(rate', id_counter, Executed(1).rate)
          /\ Remembers(delay', id_counter, Executed(1).delay)
      BY <1>4, <3>1, UpdateKeeps DEF AttrInv, AttrTypeOK, MemoryInv
    <3>3. QED BY <1>1, <1>2, <3>1, <3>2 DEF AttrInv, MemoryInv, Executed, InChange
  <2>3. ScheduleInv' /\ PermissionInv'
    BY <1>1, <1>2, <1>4 DEF AttrInv, ScheduleInv, PermissionInv, InChange
  <2>4. TimestepInv'
    BY <1>1, <1>2, <1>4 DEF AttrInv, TimestepInv, InChange, update_last_values
  <2>5. QED BY <2>1, <2>2, <2>3, <2>4 DEF AttrInv
<1>5. QED BY <1>1, <1>3, <1>4 DEF Initialized

\* A call: the present values become those of the last call, and those remembered of the
\* last call become those of the last but one.
LEMMA ProcessingKeeps ==
  ASSUME ConsistentRequests, AttrInv, processing
  PROVE  AttrInv'
<1> USE DEF portAttributes, requests, flags, cluster
<1>1. /\ callback = "processing" /\ id_counter' = id_counter + 1 /\ executions' = executions + 1
      /\ callback' \in {"processing", "change_attributes"}
      /\ permitted' = Permission(does_flag.now, accept_flag.now)
      /\ UNCHANGED <<attrScenario, portAttributes, requests, flags, cluster>>
  BY DEF processing
<1>2. /\ rate \in Attribute /\ delay \in Attribute /\ id_counter \in Nat /\ executions \in Nat
      /\ executed \in Seq(ExecutedCall) /\ Len(executed) <= 2
      /\ rate.change_id <= id_counter /\ delay.change_id <= id_counter
  BY DEF AttrInv, AttrTypeOK, MemoryInv
<1> DEFINE now == [rate |-> rate.now, delay |-> delay.now]
<1>3. now \in ExecutedCall
  BY <1>2 DEF Attribute, ExecutedCall
<1>4. executed' = LastTwo(executed, now)
  BY DEF processing, LastTwo
<1> HIDE DEF now
<1>5. /\ executed' \in Seq(ExecutedCall) /\ Len(executed') <= 2 /\ executed' # <<>>
      /\ executed'[Max2(1, Len(executed'))] = now
      /\ executed'[Max2(1, Len(executed') - 1)] =
           IF executed = <<>> THEN now ELSE executed[Max2(1, Len(executed))]
  BY <1>2, <1>3, <1>4, HistoryKept
<1>6. /\ Executed(1)' = now /\ Executed(1) = executed[Max2(1, Len(executed))]
      /\ Executed(2)' = IF executed = <<>> THEN now ELSE Executed(1)
  <2>1. /\ Len(executed) \in Nat /\ Len(executed') \in Nat
    BY <1>2, <1>5
  <2>2. /\ Len(executed) + 1 - 1 = Len(executed) /\ Len(executed') + 1 - 1 = Len(executed')
        /\ Len(executed') + 1 - 2 = Len(executed') - 1
    BY <2>1
  <2>3. QED BY <1>5, <2>2 DEF Executed
<1>7. Permission(does_flag.now, accept_flag.now) \in BOOLEAN
  BY DEF Permission, AttrInv, AttrTypeOK, Flag
<1>8. AttrTypeOK'
  BY <1>1, <1>2, <1>5, <1>7 DEF AttrInv, AttrTypeOK, Callbacks
<1>9. /\ Remembers(rate, id_counter + 1, rate.now) /\ Remembers(delay, id_counter + 1, delay.now)
      /\ RemembersTwo(rate, id_counter + 1, Executed(2)'.rate)
      /\ RemembersTwo(delay, id_counter + 1, Executed(2)'.delay)
  <2>1. CASE executed = <<>>
    <3>1. id_counter = 0 /\ Untouched(rate) /\ Untouched(delay)
      BY <2>1 DEF AttrInv, MemoryInv
    <3>2. Executed(2)'.rate = rate.now /\ Executed(2)'.delay = delay.now
      BY <1>6, <2>1 DEF now
    <3>3. id_counter + 1 = 1
      BY <3>1
    <3>4. /\ Remembers(rate, 1, rate.now) /\ RemembersTwo(rate, 1, rate.now)
          /\ Remembers(delay, 1, delay.now) /\ RemembersTwo(delay, 1, delay.now)
      BY <1>2, <3>1, FirstCallKeeps
    <3>5. QED BY <3>2, <3>3, <3>4
  <2>2. CASE executed # <<>>
    <3>1. /\ Remembers(rate, id_counter, Executed(1).rate)
          /\ Remembers(delay, id_counter, Executed(1).delay)
      BY <2>2 DEF AttrInv, MemoryInv
    <3>2. Executed(1) \in ExecutedCall
      <4>1. Max2(1, Len(executed)) \in 1..Len(executed)
        BY <1>2, <2>2 DEF Max2
      <4>2. QED BY <1>2, <1>6, <4>1
    <3>3. Executed(1).rate \in Nat /\ Executed(1).delay \in Nat
      BY <3>2 DEF ExecutedCall
    <3>4. /\ Remembers(rate, id_counter + 1, rate.now)
          /\ RemembersTwo(rate, id_counter + 1, Executed(1).rate)
          /\ Remembers(delay, id_counter + 1, delay.now)
          /\ RemembersTwo(delay, id_counter + 1, Executed(1).delay)
      BY <1>2, <3>1, <3>3, CallKeeps
    <3>5. QED BY <1>6, <2>2, <3>4
  <2>3. QED BY <2>1, <2>2
<1>10. MemoryInv'
  <2>1. Executed(1)'.rate = rate.now /\ Executed(1)'.delay = delay.now
    BY <1>6 DEF now
  <2>2. /\ rate' = rate /\ delay' = delay /\ id_counter' = id_counter + 1 /\ id_counter' # 0
        /\ rate.change_id <= id_counter + 1 /\ delay.change_id <= id_counter + 1
    BY <1>1, <1>2 DEF Attribute
  <2>3. (executed # <<>>)' /\ callback' \notin {"set_attributes", "initialize"}
    BY <1>1, <1>5
  <2> HIDE DEF now, Executed
  <2>4. QED BY <1>9, <2>1, <2>2, <2>3 DEF MemoryInv, Remembers, RemembersTwo
<1>11. ScheduleInv'
  BY <1>1 DEF AttrInv, ScheduleInv, InChange
<1>12. PermissionInv'
  <2>1. /\ executions' > 0 /\ (InChange' => FlagCall' = executions)
        /\ callback' # "set_attributes"
    BY <1>1, <1>2 DEF InChange, FlagCall
  <2>2. /\ attrScenario.flags => /\ does_flag.id < executions /\ accept_flag.id < executions
                                /\ does_flag.id < executions + 1 /\ accept_flag.id < executions + 1
        /\ ~attrScenario.flags => /\ does_flag.now = does_flag.last
                                  /\ accept_flag.now = accept_flag.last
    BY <1>2 DEF AttrInv, AttrTypeOK, PermissionInv, Flag
  <2>3. /\ StartValue(does_flag, executions) = does_flag.now
        /\ StartValue(accept_flag, executions) = accept_flag.now
    <3>1. attrScenario.flags \in BOOLEAN
      BY ScenarioFacts DEF AttrInv, AttrTypeOK
    <3>2. CASE attrScenario.flags
      BY <1>2, <2>2, <3>2 DEF StartValue, AttrInv, AttrTypeOK, Flag
    <3>3. CASE ~attrScenario.flags
      BY <2>2, <3>3 DEF StartValue
    <3>4. QED BY <3>1, <3>2, <3>3
  <2>4. QED BY <1>1, <2>1, <2>2, <2>3 DEF PermissionInv, Permission, StartValue
<1>13. TimestepInv'
  BY <1>1 DEF AttrInv, TimestepInv, InChange
<1>14. QED BY <1>8, <1>10, <1>11, <1>12, <1>13 DEF AttrInv

\* No timestep is refused after change_attributes(): it is the one asked for before.
LEMMA NothingRefused ==
  ASSUME ConsistentRequests, AttrInv
  PROVE  ~(timestep # <<>> /\ Refused(new_timestep, rate.now * timestep[1]))
<1>1. SUFFICES ASSUME timestep # <<>>, InChange, new_timestep # <<>>
               PROVE  rate.now * timestep[1] = new_timestep[1] * calls_per_period
  BY DEF Refused
<1>2. PICK t \in attrScenario.timesteps : timestep = <<t>>
  BY <1>1 DEF AttrInv, TimestepInv
<1>3. PICK u \in attrScenario.timesteps : new_timestep = <<u>>
  BY <1>1 DEF AttrInv, TimestepInv
<1>4. t = u /\ t \in Nat /\ attrScenario.calls = {1}
  BY ScenarioFacts DEF AttrInv, AttrTypeOK
<1>5. rate.now = 1 /\ calls_per_period = 1 /\ timestep[1] = t /\ new_timestep[1] = t
  BY <1>2, <1>3, <1>4 DEF AttrInv, AttrTypeOK, TimestepInv
<1>6. QED BY <1>4, <1>5

\* After change_attributes() a change of the attributes is scheduled: the module declared
\* its changes, so that the cluster is dynamic.
LEMMA AttributesChangedKeeps ==
  ASSUME ConsistentRequests, AttrInv, AttributesChanged
  PROVE  AttrInv' /\ callback' # "error"
<1> USE DEF flags
<1> DEFINE found == IF flags_touched THEN Checked(does_flag.now, accept_flag.now) ELSE permits
           dynamic == found.dynamic \/ mode.was_dynamic \/ mode.is_first
<1>1. /\ InChange /\ callback = "change_attributes" /\ port_attribute_validation
      /\ permits' = found /\ flags_touched' = FALSE
      /\ mode' = IF dynamic THEN [was_dynamic |-> ~mode.is_first, is_first |-> FALSE] ELSE mode
      /\ UNCHANGED <<attrScenario, id_counter, does_flag, accept_flag, executed, permitted>>
  BY NothingRefused DEF AttributesChanged, InChange
<1>2. /\ does_flag \in Flag /\ accept_flag \in Flag
      /\ found \in [all : BOOLEAN, but_one : BOOLEAN, dynamic : BOOLEAN]
      /\ mode' \in [was_dynamic : BOOLEAN, is_first : BOOLEAN]
  BY <1>1 DEF AttrInv, AttrTypeOK, Checked, Flag
<1>3. attrScenario.rates \cup attrScenario.delays # {} => found.dynamic /\ does_flag.now
  BY DEF AttrInv, ScheduleInv, Checked
<1>4. executed # <<>> /\ executed' = executed /\ id_counter' = id_counter
  BY <1>1 DEF AttrInv, MemoryInv
<1>5. timestep' = <<>> /\ (new_timestep' # <<>> => \E t \in attrScenario.timesteps : new_timestep' = <<t>>)
  BY <1>1, ValidationKeeps
<1>6. CASE dynamic /\ resched
  <2>1. /\ callback' = "reinitialize" /\ resched' = FALSE
        /\ calls_per_period' \in attrScenario.calls /\ executions' = calls_per_period'
        /\ rate' = update_last_values(rate) /\ delay' = update_last_values(delay)
        /\ scheduled' = [rate |-> rate.now, delay |-> delay.now]
    BY <1>6, NothingRefused DEF AttributesChanged
  <2>2. attrScenario.rates \cup attrScenario.delays # {}
    BY <1>6 DEF AttrInv, ScheduleInv
  <2>3. ~attrScenario.flags /\ attrScenario.calls \subseteq Nat \ {0}
    BY <2>2, ScenarioFacts DEF AttrInv, AttrTypeOK
  <2>4. /\ rate' \in Attribute /\ delay' \in Attribute
        /\ rate'.now = rate.now /\ delay'.now = delay.now
        /\ rate'.change_id = rate.change_id /\ delay'.change_id = delay.change_id
        /\ Remembers(rate', id_counter, Executed(1).rate)
        /\ Remembers(delay', id_counter, Executed(1).delay)
    BY <1>4, <2>1, UpdateKeeps DEF AttrInv, AttrTypeOK, MemoryInv
  <2>5. AttrTypeOK'
    <3>1. scheduled' \in ExecutedCall
      BY <2>1 DEF AttrInv, AttrTypeOK, Attribute, ExecutedCall
    <3>2. QED BY <1>1, <1>2, <2>1, <2>3, <2>4, <3>1 DEF AttrInv, AttrTypeOK, Callbacks
  <2>6. MemoryInv'
    BY <1>1, <1>4, <2>1, <2>4 DEF AttrInv, MemoryInv, Executed, InChange
  <2>7. ScheduleInv'
    BY <1>1, <1>3, <2>1, <2>2, <2>4 DEF ScheduleInv
  <2>8. PermissionInv'
    BY <1>1, <2>1, <2>3 DEF AttrInv, PermissionInv, InChange
  <2>9. TimestepInv'
    BY <1>1, <1>5, <2>1 DEF AttrInv, TimestepInv, update_last_values
  <2>10. QED BY <2>1, <2>5, <2>6, <2>7, <2>8, <2>9 DEF AttrInv
<1>7. CASE ~(dynamic /\ resched)
  <2>1. /\ callback' \in {"reinitialize", "processing"}
        /\ UNCHANGED <<calls_per_period, executions, rate, delay, scheduled, resched>>
    BY <1>7, NothingRefused DEF AttributesChanged
  <2>2. ~resched
    BY <1>3, <1>7 DEF AttrInv, AttrTypeOK, ScheduleInv
  <2>3. AttrTypeOK'
    BY <1>1, <1>2, <2>1 DEF AttrInv, AttrTypeOK, Callbacks
  <2>4. MemoryInv'
    BY <1>1, <1>4, <2>1 DEF AttrInv, MemoryInv, Executed, InChange
  <2>5. ScheduleInv'
    BY <1>1, <1>3, <2>1, <2>2 DEF AttrInv, ScheduleInv
  <2>6. PermissionInv'
    BY <1>1, <2>1 DEF AttrInv, PermissionInv, InChange
  <2>7. TimestepInv'
    BY <1>1, <1>5, <2>1 DEF AttrInv, TimestepInv
  <2>8. QED BY <2>1, <2>3, <2>4, <2>5, <2>6, <2>7 DEF AttrInv
<1>8. QED BY <1>6, <1>7

LEMMA AttrStutter ==
  ASSUME AttrInv, UNCHANGED attrVars
  PROVE  AttrInv'
<1> USE DEF attrVars, portAttributes, requests, flags, cluster
<1>1. AttrTypeOK'
  BY DEF AttrInv, AttrTypeOK
<1>2. MemoryInv'
  BY DEF AttrInv, MemoryInv, Executed, InChange
<1>3. ScheduleInv' /\ TimestepInv'
  BY DEF AttrInv, ScheduleInv, TimestepInv, InChange
<1>4. PermissionInv'
  BY DEF AttrInv, PermissionInv, InChange, FlagCall, Permission, StartValue
<1>5. QED BY <1>1, <1>2, <1>3, <1>4 DEF AttrInv

\* Every step keeps the invariant, and none refuses a timestep that was set.
LEMMA AttrStep ==
  ASSUME ConsistentRequests, AttrInv, [AttrNext]_attrVars
  PROVE  AttrInv' /\ (timestep # <<>> /\ InChange => callback' # "error")
<1> DEFINE Goal == AttrInv' /\ (timestep # <<>> /\ InChange => callback' # "error")
<1>1. ASSUME NEW r \in attrScenario.rates, callback # "error", set_rate(r) PROVE Goal
  <2>1. timestep = <<>>
    BY ScenarioFacts DEF AttrInv, AttrTypeOK, TimestepInv
  <2>2. QED BY <1>1, <2>1, RateKeeps
<1>2. ASSUME NEW d \in attrScenario.delays, callback # "error", set_delay(d) PROVE Goal
  <2>1. InChange => callback' = callback
    BY <1>2 DEF set_delay, Settable, InChange
  <2>2. QED BY <1>2, <2>1, DelayKeeps
<1>3. ASSUME NEW t \in attrScenario.timesteps, callback # "error", set_timestep(t) PROVE Goal
  BY <1>3, TimestepKeeps
<1>4. ASSUME NEW t \in attrScenario.maxima, callback # "error", set_max_timestep(t) PROVE Goal
  BY <1>4, MaxTimestepKeeps
<1>5. ASSUME NEW d \in BOOLEAN, NEW a \in BOOLEAN, attrScenario.flags, SetFlags(d, a) PROVE Goal
  BY <1>5, SetFlagsKeeps DEF SetFlags, InChange
<1>6. CASE AskPermission
  BY <1>6, AskKeeps DEF AskPermission, InChange
<1>7. CASE AttributesSet
  BY <1>7, AttributesSetKeeps DEF AttributesSet
<1>8. CASE Initialized
  BY <1>8, InitializedKeeps DEF Initialized
<1>9. CASE processing
  BY <1>9, ProcessingKeeps DEF processing, InChange
<1>10. CASE AttributesChanged
  BY <1>10, AttributesChangedKeeps
<1>11. CASE AskOutside
  BY <1>11, RefuseKeeps DEF AskOutside, InChange
<1>12. CASE UNCHANGED attrVars
  BY <1>12, AttrStutter DEF attrVars, InChange
<1>13. QED BY <1>1, <1>2, <1>3, <1>4, <1>5, <1>6, <1>7, <1>8, <1>9, <1>10, <1>11, <1>12
           DEF AttrNext, AttrRest

-------------------------------------------------------------------------------
(* What the invariant says                                                 *)

LEMMA AttrFit ==
  ASSUME AttrInv
  PROVE  ReportsCalls /\ OldValuesAreExecuted /\ ScheduledAsExecuted /\ PermissionIsPrevious
<1>1. ReportsCalls
  <2>1. SUFFICES ASSUME executed # <<>>
                 PROVE  /\ callback \in {"processing", "reinitialize"} =>
                             /\ get_rate = rate.now /\ get_last_rate = Executed(1).rate
                             /\ get_delay = delay.now /\ get_last_delay = Executed(1).delay
                        /\ InChange =>
                             /\ get_rate = Executed(1).rate /\ get_delay = Executed(1).delay
                             /\ rate.change_id = id_counter => get_last_rate = Executed(2).rate
                             /\ delay.change_id = id_counter => get_last_delay = Executed(2).delay
    BY DEF ReportsCalls, is_rate_changed, is_delay_changed
  <2>2. /\ Remembers(rate, id_counter, Executed(1).rate)
        /\ Remembers(delay, id_counter, Executed(1).delay)
    BY <2>1 DEF AttrInv, MemoryInv
  <2>3. CASE callback \in {"processing", "reinitialize"}
    BY <2>2, <2>3 DEF InChange, Remembers, get_rate, get_last_rate, get_delay, get_last_delay
  <2>4. CASE InChange
    <3>1. /\ RemembersTwo(rate, id_counter, Executed(2).rate)
          /\ RemembersTwo(delay, id_counter, Executed(2).delay)
      BY <2>4 DEF AttrInv, MemoryInv
    <3>2. QED BY <2>2, <2>4, <3>1
              DEF InChange, Remembers, RemembersTwo, get_rate, get_last_rate, get_delay,
                  get_last_delay
  <2>5. QED BY <2>3, <2>4
<1>2. OldValuesAreExecuted
  BY UpdateKeeps DEF OldValuesAreExecuted, AttrInv, AttrTypeOK, MemoryInv
<1>3. ScheduledAsExecuted
  BY DEF ScheduledAsExecuted, AttrInv, ScheduleInv, InChange
<1>4. PermissionIsPrevious
  <2>1. SUFFICES ASSUME InChange, FlagCall > 1
                 PROVE  are_attribute_changes_allowed <=> permitted
    BY DEF PermissionIsPrevious
  <2>2. /\ Refreshed(does_flag).last = StartValue(does_flag, FlagCall)
        /\ Refreshed(accept_flag).last = StartValue(accept_flag, FlagCall)
    BY <2>1 DEF Refreshed, StartValue, AttrInv, AttrTypeOK, Flag
  <2>3. QED BY <2>1, <2>2 DEF are_attribute_changes_allowed, AttrInv, PermissionInv
<1>5. QED BY <1>1, <1>2, <1>3, <1>4

\* For every number of calls and all values of the attributes: what a module is told about
\* its attributes during and after a callback are those of its calls, a call runs with the
\* attributes its schedule was made for, the permission it is told is the one the callback
\* started with, and no timestep that was set is refused, provided that the requests are
\* consistent.
THEOREM AttributesAlwaysFit ==
  ASSUME ConsistentRequests
  PROVE  AttrSpec => AttributesFit
<1>1. AttrInit => AttrInv
  BY AttrInitInv
<1>2. AttrInv /\ [AttrNext]_attrVars => AttrInv'
  BY AttrStep
<1>3. AttrInv => ReportsCalls /\ OldValuesAreExecuted /\ ScheduledAsExecuted /\ PermissionIsPrevious
  BY AttrFit
<1>4. AttrInv /\ [AttrNext]_attrVars => [timestep # <<>> /\ InChange => callback' # "error"]_attrVars
  BY AttrStep
<1>5. QED BY <1>1, <1>2, <1>3, <1>4, PTL DEF AttrSpec, AttributesFit, TimestepAccepted
=============================================================================
