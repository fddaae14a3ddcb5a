-------------------------- MODULE ValueHandlesProofs --------------------------
(***************************************************************************)
(* Proofs about ValueHandles, for every horizon and every number of events *)
(* and values: both ring buffers keep their entries in order however often *)
(* they grow, the solver gets the values of the times it asks for and the  *)
(* channel those the solver wrote, each in time.                           *)
(***************************************************************************)
EXTENDS ValueHandles, ProofFacts

-------------------------------------------------------------------------------
(* The ring buffer of a handle                                             *)

IsHandle(h) ==
  /\ DOMAIN h = {"size", "index_start", "count", "time_points", "values"}
  /\ h.size \in Nat /\ h.index_start \in Nat /\ h.count \in Nat
  /\ h.time_points \in [0..h.size - 1 -> Nat] /\ h.values \in [0..h.size - 1 -> Nat]
  /\ h.count <= h.size
  /\ IF h.size = 0 THEN h.index_start = 0 ELSE h.index_start < h.size

\* The n-th entry, the oldest one first.
Entry(h, n) == [time |-> h.time_points[At(h, n)], value |-> h.values[At(h, n)]]

LEMMA ModOnce ==
    ASSUME NEW size \in Nat \ {0}, NEW p \in Nat, p < 2 * size
    PROVE  p % size = IF p < size THEN p ELSE p - size
<1>1. CASE p < size
  BY <1>1
<1>2. CASE size <= p
  BY <1>2
<1> QED
  BY <1>1, <1>2

LEMMA AtIs ==
    ASSUME NEW h, IsHandle(h), h.size # 0, NEW n \in Nat, n <= h.size
    PROVE  /\ h.index_start + n < h.size => At(h, n) = h.index_start + n
           /\ h.index_start + n >= h.size => At(h, n) = h.index_start + n - h.size
           /\ At(h, n) \in 0..h.size - 1
<1>1. h.size \in Nat \ {0} /\ h.index_start \in Nat /\ h.index_start < h.size
  BY DEF IsHandle
<1> DEFINE p == h.index_start + n
<1>2. p \in Nat /\ p < 2 * h.size
  BY <1>1
<1>3. p % h.size = IF p < h.size THEN p ELSE p - h.size
  <2> HIDE DEF p
  <2> QED
    BY <1>1, <1>2, ModOnce
<1> QED
  BY <1>1, <1>3 DEF At

\* A full buffer that grows keeps its entries.
LEMMA ResizeKeeps ==
    ASSUME NEW h, IsHandle(h), h.count = h.size
    PROVE  /\ IsHandle(resize(h))
           /\ resize(h).count = h.count
           /\ resize(h).size = h.size + 1
           /\ \A n \in 0..h.count - 1 : Entry(resize(h), n) = Entry(h, n)
<1> DEFINE r == resize(h)
<1>1. /\ h.size \in Nat /\ h.index_start \in Nat /\ h.count \in Nat
      /\ h.time_points \in [0..h.size - 1 -> Nat] /\ h.values \in [0..h.size - 1 -> Nat]
      /\ IF h.size = 0 THEN h.index_start = 0 ELSE h.index_start < h.size
  BY DEF IsHandle
<1>2. /\ r.size = h.size + 1 /\ r.index_start = h.index_start /\ r.count = h.count
      /\ r.time_points = MovedBehind(h.time_points, h)
      /\ r.values = MovedBehind(h.values, h)
  BY DEF IsHandle, resize
<1>3. ASSUME NEW b \in [0..h.size - 1 -> Nat]
      PROVE  /\ MovedBehind(b, h) \in [0..h.size -> Nat]
             /\ \A k \in 0..h.size :
                  MovedBehind(b, h)[k] =
                    IF k = h.size THEN IF h.index_start > 0 THEN b[0] ELSE 0
                    ELSE IF k < h.index_start - 1 THEN b[k + 1] ELSE b[k]
  BY <1>1 DEF MovedBehind
<1>4. IsHandle(r)
  <2>1. DOMAIN r = DOMAIN h
    BY DEF resize
  <2> HIDE DEF r
  <2> QED
    BY <1>1, <1>2, <1>3, <2>1 DEF IsHandle
<1>5. ASSUME NEW n \in 0..h.count - 1, NEW b \in [0..h.size - 1 -> Nat]
      PROVE  MovedBehind(b, h)[At(r, n)] = b[At(h, n)]
  <2>1. /\ h.index_start + n < h.size => At(h, n) = h.index_start + n
        /\ h.index_start + n >= h.size => At(h, n) = h.index_start + n - h.size
    BY <1>1, AtIs
  <2>2. /\ h.index_start + n < h.size + 1 => At(r, n) = h.index_start + n
        /\ h.index_start + n >= h.size + 1 => At(r, n) = h.index_start + n - (h.size + 1)
    <3>1. /\ r.size = h.size + 1 /\ r.index_start = h.index_start
          /\ r.size # 0 /\ n \in Nat /\ n <= r.size /\ IsHandle(r)
      BY <1>1, <1>2, <1>4
    <3> HIDE DEF r
    <3>2. /\ r.index_start + n < r.size => At(r, n) = r.index_start + n
          /\ r.index_start + n >= r.size => At(r, n) = r.index_start + n - r.size
      BY <3>1, AtIs
    <3> QED
      BY <3>1, <3>2
  <2>3. h.index_start \in Nat /\ h.size \in Nat /\ n \in Nat /\ n < h.size /\ h.index_start < h.size
    BY <1>1
  <2>4. \A k \in 0..h.size :
          MovedBehind(b, h)[k] =
            IF k = h.size THEN IF h.index_start > 0 THEN b[0] ELSE 0
            ELSE IF k < h.index_start - 1 THEN b[k + 1] ELSE b[k]
    BY <1>3
  <2> HIDE DEF r
  <2>5. CASE h.index_start + n < h.size
    BY <2>1, <2>2, <2>3, <2>4, <2>5
  <2>6. CASE h.index_start + n = h.size
    BY <2>1, <2>2, <2>3, <2>4, <2>6
  <2>7. CASE h.index_start + n > h.size
    <3> DEFINE k == h.index_start + n - (h.size + 1)
    <3>1. k \in 0..h.size /\ k < h.index_start - 1 /\ k # h.size /\ At(r, n) = k /\ At(h, n) = k + 1
      BY <2>1, <2>2, <2>3, <2>7, SMTT(30)
    <3> HIDE DEF k
    <3> QED
      BY <2>4, <3>1
  <2> QED
    BY <2>3, <2>5, <2>6, <2>7
<1>6. \A n \in 0..h.count - 1 : Entry(r, n) = Entry(h, n)
  BY <1>1, <1>2, <1>5 DEF Entry
<1> QED
  BY <1>1, <1>2, <1>4, <1>6

\* Appending to a buffer with room keeps the entries and adds one at the end.
LEMMA AppendedAdds ==
    ASSUME NEW h, IsHandle(h), h.count < h.size, NEW t \in Nat, NEW v \in Nat
    PROVE  /\ IsHandle(Appended(h, t, v))
           /\ Appended(h, t, v).count = h.count + 1
           /\ Appended(h, t, v).size = h.size
           /\ \A n \in 0..h.count - 1 : Entry(Appended(h, t, v), n) = Entry(h, n)
           /\ Entry(Appended(h, t, v), h.count) = [time |-> t, value |-> v]
<1> DEFINE a == Appended(h, t, v)
           pos == At(h, h.count)
<1>1. /\ h.size \in Nat \ {0} /\ h.index_start \in Nat /\ h.count \in Nat
      /\ h.time_points \in [0..h.size - 1 -> Nat] /\ h.values \in [0..h.size - 1 -> Nat]
      /\ h.index_start < h.size
  BY DEF IsHandle
<1>2. pos \in 0..h.size - 1
  BY <1>1, AtIs
<1>3. /\ a.size = h.size /\ a.index_start = h.index_start /\ a.count = h.count + 1
      /\ a.time_points = [h.time_points EXCEPT ![pos] = t]
      /\ a.values = [h.values EXCEPT ![pos] = v]
  BY DEF IsHandle, Appended, At
<1>4. IsHandle(a)
  <2>1. DOMAIN a = DOMAIN h
    BY DEF Appended
  <2> HIDE DEF a
  <2> QED
    BY <1>1, <1>2, <1>3, <2>1 DEF IsHandle
<1>5. \A n \in 0..h.count : At(a, n) = At(h, n)
  BY <1>3 DEF At
<1>6. ASSUME NEW n \in 0..h.count - 1
      PROVE  At(h, n) # pos /\ At(h, n) \in 0..h.size - 1
  <2>1. /\ h.index_start + n < h.size => At(h, n) = h.index_start + n
        /\ h.index_start + n >= h.size => At(h, n) = h.index_start + n - h.size
        /\ At(h, n) \in 0..h.size - 1
    <3>1. n \in Nat /\ n <= h.size /\ h.size # 0
      BY <1>1
    <3> QED
      BY <3>1, AtIs
  <2>2. /\ h.index_start + h.count < h.size => pos = h.index_start + h.count
        /\ h.index_start + h.count >= h.size => pos = h.index_start + h.count - h.size
    <3>1. h.count \in Nat /\ h.count <= h.size /\ h.size # 0
      BY <1>1
    <3> QED
      BY <3>1, AtIs, ZenonT(30)
  <2> QED
    BY <1>1, <2>1, <2>2, SMTT(30)
<1>7. ASSUME NEW n \in 0..h.count - 1
      PROVE  Entry(a, n) = Entry(h, n)
  BY <1>1, <1>2, <1>3, <1>5, <1>6, SMTT(30) DEF Entry
<1>8. Entry(a, h.count) = [time |-> t, value |-> v]
  BY <1>1, <1>2, <1>3, <1>5 DEF Entry
<1> QED
  BY <1>3, <1>4, <1>7, <1>8

\* What is left without the first n entries.
LEMMA WithoutDrops ==
    ASSUME NEW h, IsHandle(h), NEW n \in Nat, n <= h.count, h.size # 0
    PROVE  /\ IsHandle(Without(h, n))
           /\ Without(h, n).count = h.count - n
           /\ Without(h, n).size = h.size
           /\ \A m \in 0..h.count - n - 1 : Entry(Without(h, n), m) = Entry(h, n + m)
<1> DEFINE w == Without(h, n)
<1>1. /\ h.size \in Nat \ {0} /\ h.index_start \in Nat /\ h.count \in Nat /\ h.count <= h.size
      /\ h.time_points \in [0..h.size - 1 -> Nat] /\ h.values \in [0..h.size - 1 -> Nat]
      /\ h.index_start < h.size
  BY DEF IsHandle
<1>2. /\ h.index_start + n < h.size => At(h, n) = h.index_start + n
      /\ h.index_start + n >= h.size => At(h, n) = h.index_start + n - h.size
      /\ At(h, n) \in 0..h.size - 1
  BY <1>1, AtIs
<1>3. /\ w.size = h.size /\ w.index_start = At(h, n) /\ w.count = h.count - n
      /\ w.time_points = h.time_points /\ w.values = h.values
  BY DEF IsHandle, Without
<1>4. IsHandle(w)
  <2>1. DOMAIN w = DOMAIN h
    BY DEF Without
  <2> HIDE DEF w
  <2> QED
    BY <1>1, <1>2, <1>3, <2>1 DEF IsHandle
<1>5. ASSUME NEW m \in 0..h.count - n - 1
      PROVE  At(w, m) = At(h, n + m)
  <2>1. /\ At(h, n) + m < h.size => At(w, m) = At(h, n) + m
        /\ At(h, n) + m >= h.size => At(w, m) = At(h, n) + m - h.size
    <3>1. /\ w.size = h.size /\ w.index_start = At(h, n)
          /\ w.size # 0 /\ m \in Nat /\ m <= w.size /\ IsHandle(w)
      BY <1>1, <1>3, <1>4
    <3> HIDE DEF w
    <3>2. /\ w.index_start + m < w.size => At(w, m) = w.index_start + m
          /\ w.index_start + m >= w.size => At(w, m) = w.index_start + m - w.size
      BY <3>1, AtIs
    <3> QED
      BY <3>1, <3>2
  <2>2. /\ h.index_start + (n + m) < h.size => At(h, n + m) = h.index_start + (n + m)
        /\ h.index_start + (n + m) >= h.size
             => At(h, n + m) = h.index_start + (n + m) - h.size
    <3>1. n + m \in Nat /\ n + m <= h.size
      BY <1>1
    <3> QED
      BY <1>1, <3>1, AtIs
  <2>3. At(h, n) \in Nat /\ h.index_start \in Nat /\ h.size \in Nat /\ m \in Nat /\ n <= h.size /\ m < h.size
        /\ n + m < h.size /\ h.index_start < h.size
    BY <1>1, <1>2, SMTT(30)
  <2> HIDE DEF w
  <2>4. CASE h.index_start + n < h.size
    BY <1>2, <2>1, <2>2, <2>3, <2>4
  <2>5. CASE h.index_start + n >= h.size
    BY <1>2, <2>1, <2>2, <2>3, <2>5
  <2> QED
    BY <2>3, <2>4, <2>5
<1> QED
  BY <1>3, <1>4, <1>5 DEF Entry

\* Making room if there is none, and adding an entry.
LEMMA AddEntry ==
    ASSUME NEW h, IsHandle(h), NEW room, room = IF h.count >= h.size THEN resize(h) ELSE h,
           NEW t \in Nat, NEW v \in Nat
    PROVE  /\ IsHandle(Appended(room, t, v))
           /\ Appended(room, t, v).size # 0
           /\ Appended(room, t, v).count = h.count + 1
           /\ \A n \in 0..h.count - 1 : Entry(Appended(room, t, v), n) = Entry(h, n)
           /\ Entry(Appended(room, t, v), h.count) = [time |-> t, value |-> v]
<1>1. h.count \in Nat /\ h.size \in Nat /\ h.count <= h.size
  BY DEF IsHandle
<1>2. /\ IsHandle(room) /\ room.count = h.count /\ room.count < room.size
      /\ \A n \in 0..h.count - 1 : Entry(room, n) = Entry(h, n)
  <2>1. CASE h.count >= h.size
    <3>1. h.count = h.size /\ room = resize(h)
      BY <1>1, <2>1
    <3> QED
      BY <1>1, <3>1, ResizeKeeps
  <2>2. CASE ~(h.count >= h.size)
    BY <1>1, <2>2
  <2> QED
    BY <2>1, <2>2
<1>3. room.size \in Nat \ {0}
  BY <1>1, <1>2 DEF IsHandle
<1> QED
  BY <1>1, <1>2, <1>3, AppendedAdds

LEMMA MaxOfTwo ==
    ASSUME NEW a \in Nat, NEW b \in Nat
    PROVE  Max({a, b}) \in Nat /\ Max({a, b}) >= a /\ Max({a, b}) >= b
<1>1. \E x \in {a, b} : \A y \in {a, b} : x >= y
  BY DEF Max
<1> QED
  BY <1>1 DEF Max

LEMMA MaxIs ==
    ASSUME NEW S \in SUBSET Nat, NEW m \in S, \A y \in S : m >= y
    PROVE  Max(S) = m
<1>1. \A x \in S : (\A y \in S : x >= y) => x = m
  BY DEF Max
<1> QED
  BY <1>1 DEF Max

LEMMA MaxExists ==
    ASSUME NEW k \in Nat, NEW S \in SUBSET (0..k), S # {}
    PROVE  Max(S) \in S /\ \A y \in S : Max(S) >= y
<1>1. S \in SUBSET Nat /\ IsFiniteSet(S)
  <2>1. IsFiniteSet(0..k)
    BY FS_Interval
  <2>2. IsFiniteSet(S)
    BY <2>1, FS_Subset
  <2> QED
    BY <2>2
<1>2. PICK x \in S : \A y \in S : y <= x
  BY <1>1, FiniteNatGreatest
<1> QED
  BY <1>1, <1>2 DEF Max

-------------------------------------------------------------------------------
(* The invariant                                                           *)

Entries == [time : Nat, value : Nat]

InOrder(s) ==
  /\ s \in Seq(Entries)
  /\ \A k \in 1..Len(s) : s[k].value = k
  /\ \A j, k \in 1..Len(s) : j <= k => s[j].time <= s[k].time

\* The next entry, at time t, and that no entry is later than t.
WithNext(s, t) == Append(s, [time |-> t, value |-> Len(s) + 1])
UpTo(s, t) == \A k \in 1..Len(s) : s[k].time <= t

TimeInv ==
  /\ handleScenario \in HandleScenarios
  /\ sc_time \in Nat /\ start_time \in Nat /\ start_time <= sc_time
  /\ ~handleScenario.restarts => start_time = 0
  /\ read_value = <<>> \/ read_value[1] \in Nat

\* The number of the first event the trace handle still holds.
FirstKept == Len(events) - trace_handle.count + 1

\* The trace handle holds the latest events. Those it has let go of are not the ones
\* the solver may still ask for.
EventInv ==
  /\ InOrder(events) /\ UpTo(events, sc_time)
  /\ triggered => handleScenario.reads
  /\ IsHandle(trace_handle) /\ trace_handle.size # 0
  /\ trace_handle.count <= Len(events)
  /\ events # <<>> => trace_handle.count # 0
  /\ \A n \in 0..trace_handle.count - 1 : Entry(trace_handle, n) = events[FirstKept + n]
  /\ handleScenario.reads /\ handleScenario.late /\ FirstKept # 1 =>
       read_value # <<>> /\ events[FirstKept].time <= read_value[1]

\* The write handle holds what was stored and not yet written, and the process is
\* notified for the first of it, which is not overdue.
WriteInv ==
  /\ InOrder(stored)
  /\ written \in Seq(Entries) /\ Len(written) <= Len(stored)
  /\ \A k \in 1..Len(written) : written[k] = stored[k]
  /\ IsHandle(write_handle)
  /\ write_handle.count = Len(stored) - Len(written)
  /\ \A n \in 0..write_handle.count - 1 :
       Entry(write_handle, n) = stored[Len(written) + 1 + n]
  /\ notified = IF write_handle.count = 0 THEN <<>> ELSE <<stored[Len(written) + 1].time>>
  /\ write_handle.count # 0 => stored[Len(written) + 1].time >= sc_time

HandleInv == TimeInv /\ EventInv /\ WriteInv

LEMMA EntryTypes ==
    ASSUME NEW s, InOrder(s)
    PROVE  /\ Len(s) \in Nat
           /\ \A k \in 1..Len(s) : s[k].time \in Nat
<1>1. s \in Seq(Entries)
  BY DEF InOrder
<1>2. \A k \in 1..Len(s) : s[k] \in Entries
  BY <1>1
<1>3. \A k \in 1..Len(s) : s[k].time \in Nat
  BY <1>2 DEF Entries
<1> QED
  BY <1>1, <1>3

LEMMA AppendEntry ==
    ASSUME NEW s, InOrder(s), NEW t \in Nat, UpTo(s, t)
    PROVE  /\ InOrder(WithNext(s, t)) /\ Len(WithNext(s, t)) = Len(s) + 1
           /\ \A k \in 1..Len(s) : WithNext(s, t)[k] = s[k]
           /\ WithNext(s, t)[Len(s) + 1] = [time |-> t, value |-> Len(s) + 1]
           /\ UpTo(WithNext(s, t), t)
<1> DEFINE e == [time |-> t, value |-> Len(s) + 1]
           r == WithNext(s, t)
<1>1. s \in Seq(Entries) /\ Len(s) \in Nat /\ r = Append(s, e)
  BY DEF InOrder, WithNext
<1>2. e \in Entries /\ e.time = t /\ e.value = Len(s) + 1
  BY <1>1 DEF Entries
<1> HIDE DEF e, r
<1>3. /\ r \in Seq(Entries) /\ Len(r) = Len(s) + 1
      /\ \A k \in 1..Len(s) : r[k] = s[k]
      /\ r[Len(s) + 1] = e
  BY <1>1, <1>2
<1>4. \A k \in 1..Len(r) : r[k].value = k
  BY <1>1, <1>2, <1>3 DEF InOrder
<1>5. ASSUME NEW j \in 1..Len(r), NEW k \in 1..Len(r), j <= k
      PROVE  r[j].time <= r[k].time
  <2>1. CASE k \in 1..Len(s)
    BY <1>1, <1>3, <1>5, <2>1 DEF InOrder
  <2>2. CASE k = Len(s) + 1 /\ j \in 1..Len(s)
    BY <1>1, <1>2, <1>3, <2>2 DEF UpTo
  <2>3. CASE k = Len(s) + 1 /\ j = k
    BY <1>2, <1>3, <2>3
  <2> QED
    BY <1>1, <1>3, <1>5, <2>1, <2>2, <2>3
<1>6. UpTo(r, t)
  <2>1. r[Len(r)].time = t /\ Len(r) \in 1..Len(r)
    BY <1>1, <1>2, <1>3
  <2> QED
    BY <1>5, <2>1 DEF UpTo
<1>7. InOrder(r)
  BY <1>3, <1>4, <1>5 DEF InOrder
<1> QED
  BY <1>3, <1>6, <1>7 DEF e, r

LEMMA InitInv == HandleInit => HandleInv
<1> SUFFICES ASSUME HandleInit PROVE HandleInv
  OBVIOUS
<1>1. TimeInv
  BY DEF HandleInit, TimeInv
<1>2. \A size \in {0, 1} : IsHandle(EmptyHandle(size)) /\ EmptyHandle(size).count = 0
                            /\ EmptyHandle(size).size = size
  BY DEF IsHandle, EmptyHandle, NoValue
<1>3. InOrder(<<>>)
  BY DEF InOrder
<1>4. EventInv
  BY <1>2, <1>3 DEF HandleInit, EventInv, FirstKept, UpTo
<1>5. WriteInv
  BY <1>2, <1>3 DEF HandleInit, WriteInv
<1> QED
  BY <1>1, <1>4, <1>5 DEF HandleInv

\* What only moves the times.
LEMMA PassTimeInv == ASSUME HandleInv, PassTime PROVE HandleInv'
<1>1. TimeInv'
  BY DEF HandleInv, TimeInv, PassTime
<1>2. EventInv'
  <2>1. sc_time \in Nat /\ sc_time' = sc_time + 1
    BY DEF HandleInv, TimeInv, PassTime
  <2>2. \A k \in 1..Len(events) : events[k].time \in Nat
    BY EntryTypes DEF HandleInv, EventInv
  <2>3. UpTo(events, sc_time + 1)
    BY <2>1, <2>2 DEF HandleInv, EventInv, UpTo
  <2> QED
    BY <2>1, <2>3 DEF HandleInv, EventInv, PassTime, FirstKept, Entry, At
<1>3. WriteInv'
  <2>1. sc_time \in Nat /\ sc_time' = sc_time + 1
    BY DEF HandleInv, TimeInv, PassTime
  <2>2. write_handle.count # 0 => stored[Len(written) + 1].time >= sc_time + 1
    <3> SUFFICES ASSUME write_handle.count # 0
                 PROVE  stored[Len(written) + 1].time >= sc_time + 1
      OBVIOUS
    <3> DEFINE x == stored[Len(written) + 1].time
    <3>1. notified = <<x>> /\ x >= sc_time /\ notified # <<sc_time>>
      BY DEF HandleInv, WriteInv, PassTime
    <3>2. x \in Nat
      <4>1. Len(written) + 1 \in 1..Len(stored) /\ InOrder(stored)
        BY EntryTypes DEF HandleInv, WriteInv, IsHandle
      <4> QED
        BY <4>1, EntryTypes
    <3> HIDE DEF x
    <3>3. x # sc_time
      BY <3>1
    <3> QED
      BY <3>1, <3>2, <3>3, <2>1 DEF x
  <2> QED
    BY <2>1, <2>2 DEF HandleInv, WriteInv, PassTime, Entry, At
<1> QED
  BY <1>1, <1>2, <1>3 DEF HandleInv

LEMMA StartClusterInv == ASSUME HandleInv, StartCluster PROVE HandleInv'
<1>1. TimeInv'
  BY DEF HandleInv, TimeInv, StartCluster
<1>2. EventInv'
  BY DEF HandleInv, EventInv, StartCluster, FirstKept, Entry, At
<1>3. WriteInv'
  BY DEF HandleInv, WriteInv, StartCluster, Entry, At
<1> QED
  BY <1>1, <1>2, <1>3 DEF HandleInv

LEMMA ChannelEventInv == ASSUME HandleInv, ChannelEvent PROVE HandleInv'
<1>1. TimeInv'
  BY DEF HandleInv, TimeInv, ChannelEvent
<1>2. EventInv'
  BY DEF HandleInv, EventInv, ChannelEvent, FirstKept, Entry, At
<1>3. WriteInv'
  BY DEF HandleInv, WriteInv, ChannelEvent, Entry, At
<1> QED
  BY <1>1, <1>2, <1>3 DEF HandleInv

LEMMA RestInv == ASSUME HandleInv, UNCHANGED handleVars PROVE HandleInv'
<1>1. TimeInv'
  BY DEF HandleInv, TimeInv, handleVars
<1>2. EventInv'
  BY DEF HandleInv, EventInv, handleVars, FirstKept, Entry, At
<1>3. WriteInv'
  BY DEF HandleInv, WriteInv, handleVars, Entry, At
<1> QED
  BY <1>1, <1>2, <1>3 DEF HandleInv

LEMMA HandleTypes ==
    ASSUME NEW h, IsHandle(h), h.size # 0
    PROVE  /\ h.count \in Nat /\ h.size \in Nat \ {0} /\ h.count <= h.size
           /\ \A n \in 0..h.count : h.time_points[At(h, n)] \in Nat
<1>1. /\ h.count \in Nat /\ h.size \in Nat \ {0} /\ h.count <= h.size
      /\ h.time_points \in [0..h.size - 1 -> Nat]
  BY DEF IsHandle
<1>2. ASSUME NEW n \in 0..h.count PROVE h.time_points[At(h, n)] \in Nat
  <2>1. n \in Nat /\ n <= h.size
    BY <1>1
  <2>2. At(h, n) \in 0..h.size - 1
    BY <1>1, <2>1, AtIs
  <2> QED
    BY <1>1, <2>2
<1> QED
  BY <1>1, <1>2

\* The number of entries a full handle lets go of; none if clusters do not restart.
LEMMA OutdatedBound ==
    ASSUME NEW h, IsHandle(h), h.size # 0, start_time \in Nat
    PROVE  /\ Outdated(h) \in 0..h.count
           /\ h.count # 0 => Outdated(h) < h.count
           /\ start_time = 0 => Outdated(h) = 0
<1> DEFINE old(n) == \A m \in 0..n - 1 : h.time_points[At(h, m)] < start_time
           S == {n \in 0..h.count - 1 : old(n)}
<1>1. /\ h.count \in Nat /\ h.size \in Nat \ {0} /\ h.count <= h.size
      /\ \A n \in 0..h.count : h.time_points[At(h, n)] \in Nat
  BY HandleTypes
<1>2. CASE h.count < h.size
  BY <1>1, <1>2 DEF Outdated
<1>3. CASE h.count >= h.size
  <2>1. Outdated(h) = Max(S) /\ h.count # 0
    BY <1>1, <1>3 DEF Outdated
  <2>2. 0 \in S /\ h.count - 1 \in Nat /\ S \in SUBSET (0..h.count - 1)
    BY <1>1, <2>1
  <2>3. Max(S) \in S
    <3> HIDE DEF S
    <3> QED
      BY <2>2, MaxExists
  <2>4. ASSUME start_time = 0 PROVE Max(S) = 0
    <3>1. Max(S) \in 0..h.count - 1 /\ old(Max(S))
      BY <2>3
    <3> HIDE DEF S
    <3>2. ASSUME Max(S) # 0 PROVE FALSE
      <4>1. 0 \in 0..Max(S) - 1 /\ 0 \in 0..h.count
        BY <1>1, <3>1, <3>2
      <4>2. h.time_points[At(h, 0)] < 0
        BY <2>4, <3>1, <4>1
      <4> QED
        BY <1>1, <4>1, <4>2
    <3> QED
      BY <3>2
  <2> QED
    BY <1>1, <2>1, <2>2, <2>3, <2>4
<1> QED
  BY <1>1, <1>2, <1>3

LEMMA ValueTraceInv ==
    ASSUME PunctualReaders, HandleInv, sc_value_trace
    PROVE  HandleInv'
<1> DEFINE h == trace_handle
           o == Outdated(h)
           kept == Without(h, o)
           room == IF kept.count >= kept.size THEN resize(kept) ELSE kept
           E == Len(events)
<1>1. /\ triggered /\ triggered' = FALSE
      /\ trace_handle' = Appended(room, sc_time, E + 1)
      /\ events' = Append(events, [time |-> sc_time, value |-> E + 1])
      /\ UNCHANGED <<handleScenario, sc_time, start_time, write_handle, notified, read_value,
                     stored, written>>
  BY DEF sc_value_trace
<1>2. TimeInv'
  BY <1>1 DEF HandleInv, TimeInv
<1>3. WriteInv'
  BY <1>1 DEF HandleInv, WriteInv, Entry, At
<1>4. /\ IsHandle(h) /\ h.size # 0 /\ h.count <= E /\ InOrder(events)
      /\ UpTo(events, sc_time)
      /\ \A n \in 0..h.count - 1 : Entry(h, n) = events[FirstKept + n]
      /\ sc_time \in Nat /\ start_time \in Nat
      /\ E # 0 => h.count # 0
  BY DEF HandleInv, EventInv, TimeInv
<1>5. h.count \in Nat /\ E \in Nat /\ FirstKept = E - h.count + 1
  BY <1>4, HandleTypes, EntryTypes DEF FirstKept
<1>6. o \in 0..h.count /\ (h.count # 0 => o < h.count) /\ (start_time = 0 => o = 0)
  BY <1>4, OutdatedBound
<1> HIDE DEF o
<1>7. /\ IsHandle(kept) /\ kept.count = h.count - o
      /\ \A m \in 0..h.count - o - 1 : Entry(kept, m) = Entry(h, o + m)
  BY <1>4, <1>5, <1>6, WithoutDrops
<1> HIDE DEF kept
<1>8. /\ IsHandle(trace_handle') /\ trace_handle'.size # 0
      /\ trace_handle'.count = kept.count + 1
      /\ \A n \in 0..kept.count - 1 : Entry(trace_handle', n) = Entry(kept, n)
      /\ Entry(trace_handle', kept.count) = [time |-> sc_time, value |-> E + 1]
  <2>1. E + 1 \in Nat
    BY <1>5
  <2> HIDE DEF E
  <2> QED
    BY <1>1, <1>4, <1>7, <2>1, AddEntry
<1>9. /\ InOrder(events') /\ Len(events') = E + 1 /\ UpTo(events', sc_time)
      /\ \A k \in 1..E : events'[k] = events[k]
      /\ events'[E + 1] = [time |-> sc_time, value |-> E + 1]
  <2>1. /\ InOrder(events) /\ sc_time \in Nat /\ UpTo(events, sc_time)
        /\ events' = WithNext(events, sc_time)
    BY <1>1, <1>4 DEF WithNext
  <2> QED
    BY <2>1, AppendEntry
<1> HIDE DEF room, E, h
<1>10. FirstKept' = FirstKept + o
  <2>1. FirstKept' = Len(events') - trace_handle'.count + 1
    BY DEF FirstKept
  <2>2. trace_handle'.count = h.count - o + 1 /\ Len(events') = E + 1
    BY <1>7, <1>8, <1>9
  <2>3. FirstKept = E - h.count + 1 /\ E \in Nat /\ h.count \in Nat /\ o \in Nat
    BY <1>5, <1>6
  <2>4. FirstKept' = (E + 1) - (h.count - o + 1) + 1
    BY <2>1, <2>2
  <2> QED
    BY <2>3, <2>4
<1>11. ASSUME NEW n \in 0..trace_handle'.count - 1
       PROVE  Entry(trace_handle', n) = events'[FirstKept' + n]
  <2>1. CASE n \in 0..kept.count - 1
    <3>1. n \in 0..h.count - o - 1 /\ o + n \in 0..h.count - 1
      BY <1>5, <1>6, <1>7, <2>1
    <3>2. Entry(trace_handle', n) = events[FirstKept + (o + n)]
      BY <1>4, <1>7, <1>8, <2>1, <3>1
    <3>3. FirstKept + (o + n) \in 1..E /\ FirstKept + (o + n) = FirstKept' + n
      BY <1>4, <1>5, <1>6, <1>10, <3>1
    <3> QED
      BY <1>9, <3>2, <3>3
  <2>2. CASE n = kept.count
    <3>1. FirstKept' + n = E + 1
      BY <1>5, <1>6, <1>7, <1>10, <2>2
    <3> QED
      BY <1>8, <1>9, <2>2, <3>1
  <2> QED
    BY <1>5, <1>6, <1>7, <1>8, <2>1, <2>2
<1>12. ASSUME handleScenario.reads, handleScenario.late, FirstKept' # 1
       PROVE  read_value # <<>> /\ events'[FirstKept'].time <= read_value[1]
  <2>1. start_time = 0
    BY <1>12 DEF PunctualReaders, Punctual, HandleInv, TimeInv
  <2>2. FirstKept' = FirstKept
    BY <1>5, <1>6, <1>10, <2>1
  <2>3. FirstKept \in 1..E
    BY <1>4, <1>5, <1>12, <2>2
  <2> QED
    BY <1>9, <1>12, <2>2, <2>3 DEF HandleInv, EventInv
<1>13. EventInv'
  <2>1. trace_handle'.count <= Len(events') /\ trace_handle'.count # 0
    BY <1>4, <1>5, <1>6, <1>7, <1>8, <1>9 DEF E
  <2> QED
    BY <1>1, <1>8, <1>9, <1>11, <1>12, <2>1 DEF EventInv, Entry, At
<1> QED
  BY <1>2, <1>3, <1>13 DEF HandleInv

-------------------------------------------------------------------------------
(* The solver asks                                                         *)

LEMMA AskedBounds ==
    ASSUME HandleInv
    PROVE  /\ Asked \in Nat /\ Asked >= start_time
           /\ read_value # <<>> => Asked >= read_value[1]
<1>1. start_time \in Nat /\ (read_value = <<>> \/ read_value[1] \in Nat)
  BY DEF HandleInv, TimeInv
<1>2. CASE read_value = <<>>
  BY <1>1, <1>2 DEF Asked
<1>3. CASE read_value # <<>>
  <2>1. Asked = Max({start_time, read_value[1]})
    BY <1>3 DEF Asked
  <2> QED
    BY <1>1, <1>3, <2>1, MaxOfTwo
<1> QED
  BY <1>2, <1>3

\* How many entries of a handle are passed at a time.
PassedAt(h, t) ==
  Max({n \in 0..h.count - 1 : n = 0 \/ \A m \in 1..n : h.time_points[At(h, m)] <= t})

LEMMA PassedBound ==
    ASSUME NEW h, IsHandle(h), h.size # 0, h.count # 0, NEW t \in Nat
    PROVE  /\ PassedAt(h, t) \in 0..h.count - 1
           /\ \A m \in 1..PassedAt(h, t) : h.time_points[At(h, m)] <= t
           /\ \A n \in 0..h.count - 1 :
                (\A m \in 1..n : h.time_points[At(h, m)] <= t) => n <= PassedAt(h, t)
<1> DEFINE passed == {n \in 0..h.count - 1 :
                        n = 0 \/ \A m \in 1..n : h.time_points[At(h, m)] <= t}
<1>1. h.count \in Nat
  BY HandleTypes
<1>2. 0 \in passed /\ h.count - 1 \in Nat /\ passed \in SUBSET (0..h.count - 1)
  BY <1>1
<1>3. Max(passed) \in passed /\ \A y \in passed : Max(passed) >= y
  <2> HIDE DEF passed
  <2> QED
    BY <1>2, MaxExists
<1>4. PassedAt(h, t) = Max(passed)
  BY DEF PassedAt
<1>5. \A m \in 1..Max(passed) : h.time_points[At(h, m)] <= t
  BY <1>3
<1>6. ASSUME NEW n \in 0..h.count - 1, \A m \in 1..n : h.time_points[At(h, m)] <= t
      PROVE  n <= Max(passed)
  <2>1. n \in passed
    BY <1>6
  <2>2. Max(passed) \in Nat /\ n \in Nat
    BY <1>1, <1>3
  <2> HIDE DEF passed
  <2> QED
    BY <1>3, <2>1, <2>2
<1>7. Max(passed) \in 0..h.count - 1
  BY <1>3
<1> HIDE DEF passed
<1> QED
  BY <1>4, <1>5, <1>6, <1>7

\* The answer is the last event up to the time asked for, and the entries passed are gone.
LEMMA GetValue ==
    ASSUME HandleInv, NEW t \in Nat, t >= Asked, get_sc_value_on_time(t)
    PROVE  /\ HandleInv'
           /\ read_value'[2] = Max({1} \cup {k \in DOMAIN events : events[k].time <= t})
<1> DEFINE h == trace_handle
           p == PassedAt(h, t)
           E == Len(events)
<1>1. /\ handleScenario.reads /\ events # <<>>
      /\ t <= sc_time /\ (t = sc_time \/ handleScenario.late)
      /\ trace_handle' = Without(h, p)
      /\ read_value' = <<t, trace_handle'.values[trace_handle'.index_start]>>
      /\ UNCHANGED <<handleScenario, sc_time, start_time, write_handle, triggered, notified,
                     events, stored, written>>
  BY DEF get_sc_value_on_time, PassedAt
<1>2. TimeInv'
  BY <1>1 DEF HandleInv, TimeInv
<1>3. WriteInv'
  BY <1>1 DEF HandleInv, WriteInv, Entry, At
<1>4. /\ IsHandle(h) /\ h.size # 0 /\ h.count <= E /\ h.count # 0
      /\ InOrder(events) /\ UpTo(events, sc_time)
      /\ \A n \in 0..h.count - 1 : Entry(h, n) = events[FirstKept + n]
      /\ handleScenario.late /\ FirstKept # 1 =>
           read_value # <<>> /\ events[FirstKept].time <= read_value[1]
  BY <1>1 DEF HandleInv, EventInv
<1>5. /\ h.count \in Nat /\ E \in Nat /\ FirstKept = E - h.count + 1
      /\ FirstKept \in 1..E /\ \A k \in 1..E : events[k].time \in Nat
  BY <1>4, HandleTypes, EntryTypes DEF FirstKept
<1>6. /\ p \in 0..h.count - 1
      /\ \A m \in 1..p : h.time_points[At(h, m)] <= t
      /\ \A n \in 0..h.count - 1 : (\A m \in 1..n : h.time_points[At(h, m)] <= t) => n <= p
  BY <1>4, PassedBound
<1> HIDE DEF p
<1>7. /\ IsHandle(trace_handle') /\ trace_handle'.size # 0
      /\ trace_handle'.count = h.count - p
      /\ \A m \in 0..h.count - p - 1 : Entry(trace_handle', m) = Entry(h, p + m)
  <2>1. p \in Nat /\ p <= h.count
    BY <1>5, <1>6
  <2> QED
    BY <1>1, <1>4, <2>1, WithoutDrops
<1> HIDE DEF h
<1>8. \A n \in 0..h.count - 1 : /\ h.time_points[At(h, n)] = events[FirstKept + n].time
                                /\ h.values[At(h, n)] = events[FirstKept + n].value
                                /\ FirstKept + n \in 1..E
  <2> SUFFICES ASSUME NEW n \in 0..h.count - 1
               PROVE  /\ h.time_points[At(h, n)] = events[FirstKept + n].time
                      /\ h.values[At(h, n)] = events[FirstKept + n].value
                      /\ FirstKept + n \in 1..E
    OBVIOUS
  <2>1. Entry(h, n) = events[FirstKept + n]
    BY <1>4
  <2>2. FirstKept + n \in 1..E
    BY <1>4, <1>5, SMTT(30)
  <2> QED
    BY <2>1, <2>2 DEF Entry
\* The event that answers: of those still held, the last one up to t.
<1> DEFINE a == FirstKept + p
<1>9. a \in 1..E
  BY <1>6, <1>8
<1>10. ASSUME a # 1 PROVE events[a].time <= t
  <2>1. CASE p # 0
    BY <1>6, <1>8, <2>1
  <2>2. CASE p = 0
    <3>1. FirstKept = a /\ FirstKept # 1
      BY <1>5, <1>10, <2>2
    <3>2. CASE t = sc_time
      BY <1>4, <1>9, <3>2 DEF UpTo, E
    <3>3. CASE handleScenario.late
      <4>1. read_value # <<>> /\ events[FirstKept].time <= read_value[1]
        BY <1>4, <3>1, <3>3
      <4>2. Asked \in Nat /\ Asked >= read_value[1] /\ read_value[1] \in Nat
        BY <4>1, AskedBounds DEF HandleInv, TimeInv
      <4> QED
        BY <1>5, <3>1, <4>1, <4>2
    <3> QED
      BY <1>1, <3>2, <3>3
  <2> QED
    BY <2>1, <2>2
<1>11. ASSUME NEW k \in 1..E, events[k].time <= t PROVE k <= a
  <2> SUFFICES ASSUME k > a PROVE FALSE
    BY <1>9
  <2>0. /\ k \in Nat /\ k <= E /\ k > FirstKept + p /\ p \in Nat /\ E \in Nat
        /\ h.count \in Nat /\ FirstKept = E - h.count + 1 /\ FirstKept \in Nat
    BY <1>5, <1>6
  <2>1. PICK n \in 0..h.count - 1 : n > p /\ FirstKept + n = k
    <3>1. \A c, e, f, q \in Nat : f = e - c + 1 /\ k \in Nat /\ k <= e /\ k > f + q =>
            k - f \in 0..c - 1 /\ k - f > q /\ f + (k - f) = k
      OBVIOUS
    <3> QED
      BY <2>0, <3>1, ZenonT(40)
  <2>2. ASSUME NEW m \in 1..n PROVE h.time_points[At(h, m)] <= t
    <3>1. m \in 0..h.count - 1 /\ FirstKept + m <= k
      <4>1. \A c, f \in Nat : n \in 0..c - 1 /\ f + n = k => m \in 0..c - 1 /\ f + m <= k
        OBVIOUS
      <4> QED
        BY <2>0, <2>1, <4>1
    <3>2. FirstKept + m \in 1..E /\ h.time_points[At(h, m)] = events[FirstKept + m].time
      BY <1>8, <3>1
    <3>3. events[FirstKept + m].time <= events[k].time
      BY <1>4, <3>1, <3>2 DEF InOrder, E
    <3>4. events[FirstKept + m].time \in Nat /\ events[k].time \in Nat
      BY <1>5, <3>2
    <3> QED
      BY <1>11, <3>2, <3>3, <3>4
  <2> QED
    BY <1>6, <2>1, <2>2
<1>12. read_value'[2] = a
  <2>1. At(trace_handle', 0) = trace_handle'.index_start
    BY <1>7, AtIs DEF IsHandle
  <2>2. Entry(trace_handle', 0) = Entry(h, p)
    BY <1>5, <1>6, <1>7
  <2>3. trace_handle'.values[trace_handle'.index_start] = h.values[At(h, p)]
    BY <2>1, <2>2 DEF Entry
  <2>4. h.values[At(h, p)] = events[a].value /\ events[a].value = a
    BY <1>4, <1>6, <1>8, <1>9 DEF InOrder, E
  <2> QED
    BY <1>1, <2>3, <2>4
<1>13. read_value'[2] = Max({1} \cup {k \in DOMAIN events : events[k].time <= t})
  <2> DEFINE S == {1} \cup {k \in DOMAIN events : events[k].time <= t}
  <2>1. DOMAIN events = 1..E
    BY <1>4 DEF InOrder, E
  <2>2. S \in SUBSET Nat
    BY <2>1
  <2>3. a \in S
    BY <1>9, <1>10, <2>1
  <2>4. \A y \in S : a >= y
    BY <1>5, <1>9, <1>11, <2>1
  <2> HIDE DEF S, a
  <2>5. Max(S) = a
    BY <2>2, <2>3, <2>4, MaxIs
  <2> QED
    BY <1>12, <2>5 DEF S
<1>14. FirstKept' = a
  <2>1. FirstKept' = Len(events) - trace_handle'.count + 1
    BY <1>1 DEF FirstKept
  <2> QED
    BY <1>5, <1>6, <1>7, <2>1 DEF E
<1>15. ASSUME NEW n \in 0..trace_handle'.count - 1
       PROVE  Entry(trace_handle', n) = events[FirstKept' + n]
  <2>1. Entry(trace_handle', n) = Entry(h, p + n) /\ p + n \in 0..h.count - 1
    BY <1>5, <1>6, <1>7
  <2>2. Entry(h, p + n) = events[FirstKept + (p + n)]
    BY <1>4, <2>1
  <2>3. FirstKept + (p + n) = FirstKept' + n
    BY <1>5, <1>6, <1>14
  <2> QED
    BY <2>1, <2>2, <2>3
<1>16. EventInv'
  <2>1. trace_handle'.count <= Len(events') /\ trace_handle'.count # 0
    BY <1>1, <1>4, <1>5, <1>6, <1>7, SMTT(30) DEF E
  <2>2. FirstKept' # 1 => read_value' # <<>> /\ events'[FirstKept'].time <= read_value'[1]
    BY <1>1, <1>10, <1>14
  <2>3. \A n \in 0..trace_handle'.count - 1 :
           Entry(trace_handle', n) = events'[FirstKept' + n]
    BY <1>1, <1>15
  <2>4. EventInv' <=>
          /\ InOrder(events') /\ UpTo(events', sc_time')
          /\ triggered' => handleScenario'.reads
          /\ IsHandle(trace_handle') /\ trace_handle'.size # 0
          /\ trace_handle'.count <= Len(events')
          /\ events' # <<>> => trace_handle'.count # 0
          /\ \A n \in 0..trace_handle'.count - 1 :
               Entry(trace_handle', n) = events'[FirstKept' + n]
          /\ handleScenario'.reads /\ handleScenario'.late /\ FirstKept' # 1 =>
               read_value' # <<>> /\ events'[FirstKept'].time <= read_value'[1]
    BY DEF EventInv, Entry, At
  <2> QED
    BY <1>1, <1>4, <1>7, <2>1, <2>2, <2>3, <2>4
<1> QED
  BY <1>2, <1>3, <1>13, <1>16 DEF HandleInv

-------------------------------------------------------------------------------
(* The solver writes                                                       *)

LEMMA WriteTypes ==
    ASSUME WriteInv
    PROVE  /\ Len(stored) \in Nat /\ Len(written) \in Nat /\ write_handle.count \in Nat
           /\ \A k \in 1..Len(stored) : stored[k].time \in Nat
           /\ write_handle.count # 0 => write_handle.size # 0
<1>1. InOrder(stored) /\ written \in Seq(Entries) /\ IsHandle(write_handle)
  BY DEF WriteInv
<1>2. Len(written) \in Nat
  BY <1>1
<1> QED
  BY <1>1, <1>2, EntryTypes DEF IsHandle

LEMMA LastStoredBounds ==
    ASSUME HandleInv
    PROVE  /\ LastStored \in Nat /\ UpTo(stored, LastStored)
<1>1. InOrder(stored) /\ Len(stored) \in Nat
      /\ \A k \in 1..Len(stored) : stored[k].time \in Nat
  BY WriteTypes DEF HandleInv, WriteInv
<1>2. CASE stored = <<>>
  BY <1>2 DEF LastStored, UpTo, HandleInv, TimeInv
<1>3. CASE stored # <<>>
  <2>1. Len(stored) \in 1..Len(stored) /\ LastStored = stored[Len(stored)].time
    BY <1>1, <1>3 DEF LastStored, InOrder
  <2> QED
    BY <1>1, <2>1 DEF InOrder, UpTo
<1> QED
  BY <1>2, <1>3

LEMMA WriteValueInv ==
    ASSUME HandleInv, NEW t \in Nat, t >= LastStored, write_sc_value(t)
    PROVE  HandleInv'
<1> DEFINE h == write_handle
           room == IF h.count >= h.size THEN resize(h) ELSE h
           S == Len(stored)
           W == Len(written)
<1>1. /\ S \in Nat /\ W \in Nat /\ h.count \in Nat /\ h.count = S - W
      /\ \A k \in 1..S : stored[k].time \in Nat
      /\ InOrder(stored) /\ IsHandle(h)
      /\ \A n \in 0..h.count - 1 : Entry(h, n) = stored[W + 1 + n]
      /\ notified = IF h.count = 0 THEN <<>> ELSE <<stored[W + 1].time>>
      /\ h.count # 0 => stored[W + 1].time >= sc_time
      /\ \A k \in 1..W : written[k] = stored[k]
      /\ written \in Seq(Entries) /\ W <= S
  BY WriteTypes DEF HandleInv, WriteInv
<1>2. /\ t >= sc_time
      /\ notified' = IF h.count = 0 THEN <<t>> ELSE notified
      /\ write_handle' = Appended(room, t, S + 1)
      /\ stored' = WithNext(stored, t)
      /\ UNCHANGED <<handleScenario, sc_time, start_time, trace_handle, triggered, events,
                     read_value, written>>
  <2>1. (h.size <= h.count) <=> (h.count >= h.size)
    BY <1>1 DEF IsHandle
  <2> QED
    BY <2>1 DEF write_sc_value, resize_write_handle, WithNext
<1>3. TimeInv'
  BY <1>2 DEF HandleInv, TimeInv
<1>4. EventInv'
  BY <1>2 DEF HandleInv, EventInv, FirstKept, Entry, At
<1>5. UpTo(stored, t)
  <2>1. LastStored \in Nat /\ UpTo(stored, LastStored)
    BY LastStoredBounds
  <2> QED
    BY <1>1, <2>1 DEF UpTo
<1>6. /\ InOrder(stored') /\ Len(stored') = S + 1
      /\ \A k \in 1..S : stored'[k] = stored[k]
      /\ stored'[S + 1] = [time |-> t, value |-> S + 1]
  BY <1>1, <1>2, <1>5, AppendEntry
<1>7. /\ IsHandle(write_handle') /\ write_handle'.count = h.count + 1
      /\ \A n \in 0..h.count - 1 : Entry(write_handle', n) = Entry(h, n)
      /\ Entry(write_handle', h.count) = [time |-> t, value |-> S + 1]
  <2>1. S + 1 \in Nat
    BY <1>1
  <2> HIDE DEF S
  <2> QED
    BY <1>1, <1>2, <2>1, AddEntry
<1> HIDE DEF room, h, S, W
<1>8. ASSUME NEW n \in 0..h.count
      PROVE  Entry(write_handle', n) = stored'[W + 1 + n]
  <2>1. CASE n \in 0..h.count - 1
    <3>1. W + 1 + n \in 1..S
      BY <1>1, <2>1
    <3> QED
      BY <1>1, <1>6, <1>7, <2>1, <3>1
  <2>2. CASE n = h.count
    <3>1. W + 1 + n = S + 1
      BY <1>1, <2>2
    <3> QED
      BY <1>6, <1>7, <2>2, <3>1
  <2> QED
    BY <1>1, <2>1, <2>2
<1>9. /\ notified' = <<stored'[W + 1].time>>
      /\ stored'[W + 1].time >= sc_time
  <2>1. CASE h.count = 0
    <3>1. W + 1 = S + 1
      BY <1>1, <2>1
    <3> QED
      BY <1>2, <1>6, <2>1, <3>1
  <2>2. CASE h.count # 0
    <3>1. W + 1 \in 1..S
      BY <1>1, <2>2
    <3> QED
      BY <1>1, <1>2, <1>6, <2>2, <3>1
  <2> QED
    BY <2>1, <2>2
<1>10. \A k \in 1..W : written[k] = stored'[k]
  BY <1>1, <1>6
<1>11. WriteInv'
  <2>1. /\ Len(written') = W /\ Len(stored') = S + 1 /\ W <= S + 1
        /\ write_handle'.count = h.count + 1 /\ h.count + 1 = S + 1 - W
        /\ h.count + 1 # 0 /\ h.count + 1 - 1 = h.count
    <3>1. S + 1 - W = (S + 1) - W
      BY <1>1
    <3> QED
      BY <1>1, <1>2, <1>6, <1>7, <3>1 DEF W
  <2>2. \A n \in 0..write_handle'.count - 1 :
           Entry(write_handle', n) = stored'[Len(written') + 1 + n]
    <3>1. write_handle'.count - 1 = h.count
      BY <1>1, <2>1
    <3> QED
      BY <1>8, <2>1, <3>1
  <2>3. written' \in Seq(Entries) /\ written' = written
    BY <1>1, <1>2
  <2>4. WriteInv' <=>
          /\ InOrder(stored')
          /\ written' \in Seq(Entries) /\ Len(written') <= Len(stored')
          /\ \A k \in 1..Len(written') : written'[k] = stored'[k]
          /\ IsHandle(write_handle')
          /\ write_handle'.count = Len(stored') - Len(written')
          /\ \A n \in 0..write_handle'.count - 1 :
               Entry(write_handle', n) = stored'[Len(written') + 1 + n]
          /\ notified' = IF write_handle'.count = 0 THEN <<>>
                         ELSE <<stored'[Len(written') + 1].time>>
          /\ write_handle'.count # 0 => stored'[Len(written') + 1].time >= sc_time'
    BY DEF WriteInv, Entry, At
  <2>5. write_handle'.count = Len(stored') - Len(written')
    BY <1>1, <2>1
  <2> QED
    BY <1>2, <1>6, <1>7, <1>9, <1>10, <2>1, <2>2, <2>3, <2>4, <2>5
<1> QED
  BY <1>3, <1>4, <1>11 DEF HandleInv

LEMMA WriteProcessInv ==
    ASSUME HandleInv, sc_write_value_process
    PROVE  HandleInv'
<1> DEFINE h == write_handle
           S == Len(stored)
           W == Len(written)
           next == Without(h, 1)
<1>1. /\ S \in Nat /\ W \in Nat /\ h.count \in Nat /\ h.count = S - W
      /\ \A k \in 1..S : stored[k].time \in Nat
      /\ InOrder(stored) /\ IsHandle(h) /\ (h.count # 0 => h.size # 0)
      /\ \A n \in 0..h.count - 1 : Entry(h, n) = stored[W + 1 + n]
      /\ notified = IF h.count = 0 THEN <<>> ELSE <<stored[W + 1].time>>
      /\ \A k \in 1..W : written[k] = stored[k]
      /\ written \in Seq(Entries) /\ W <= S
      /\ sc_time \in Nat
  BY WriteTypes DEF HandleInv, WriteInv, TimeInv
<1>2. /\ notified = <<sc_time>>
      /\ written' = Append(written, [time |-> sc_time, value |-> h.values[At(h, 0)]])
      /\ write_handle' = [h EXCEPT !.count = @ - 1,
                            !.index_start = IF h.count > 1 THEN At(h, 1) ELSE @]
      /\ notified' = IF h.count > 1 THEN <<h.time_points[At(h, 1)]>> ELSE <<>>
      /\ UNCHANGED <<handleScenario, sc_time, start_time, trace_handle, triggered, events,
                     read_value, stored>>
  BY DEF sc_write_value_process
<1>3. TimeInv'
  BY <1>2 DEF HandleInv, TimeInv
<1>4. EventInv'
  BY <1>2 DEF HandleInv, EventInv, FirstKept, Entry, At
<1>5. h.count # 0 /\ stored[W + 1].time = sc_time
  <2> DEFINE x == stored[W + 1].time
  <2>1. /\ notified = IF h.count = 0 THEN <<>> ELSE <<x>>
        /\ notified = <<sc_time>>
    BY <1>1, <1>2
  <2> HIDE DEF x
  <2> QED
    BY <2>1, SMTT(30) DEF x
<1>6. W + 1 \in 1..S
  BY <1>1, <1>5
<1>7. /\ [time |-> sc_time, value |-> h.values[At(h, 0)]] = stored[W + 1]
      /\ stored[W + 1] \in Entries
  <2>1. stored[W + 1] \in Entries
    BY <1>1, <1>6 DEF InOrder
  <2>2. 0 \in 0..h.count - 1 /\ W + 1 + 0 = W + 1
    BY <1>1, <1>5
  <2>3. Entry(h, 0) = stored[W + 1]
    BY <1>1, <2>2
  <2>4. Entry(h, 0) = [time |-> h.time_points[At(h, 0)], value |-> h.values[At(h, 0)]]
    BY DEF Entry
  <2>5. h.time_points[At(h, 0)] = sc_time
    BY <1>5, <2>3, <2>4
  <2> QED
    BY <2>1, <2>3, <2>4, <2>5
<1>8. /\ written' \in Seq(Entries) /\ Len(written') = W + 1
      /\ \A k \in 1..W : written'[k] = written[k]
      /\ written'[W + 1] = stored[W + 1]
  <2> DEFINE e == stored[W + 1]
  <2>1. written' = Append(written, e) /\ e \in Entries /\ written \in Seq(Entries)
    BY <1>1, <1>2, <1>7
  <2> HIDE DEF e
  <2> QED
    BY <2>1 DEF e
\* The handle is the one without its first entry, except that an empty one stays put.
<1>9. /\ IsHandle(write_handle') /\ write_handle'.count = h.count - 1
      /\ \A n \in 0..h.count - 2 : Entry(write_handle', n) = Entry(h, n + 1)
  <2>1. CASE h.count > 1
    <3>1. write_handle' = next
      BY <1>2, <2>1 DEF Without
    <3>2. /\ IsHandle(next) /\ next.count = h.count - 1
          /\ \A m \in 0..h.count - 1 - 1 : Entry(next, m) = Entry(h, 1 + m)
      <4>1. 1 \in Nat /\ 1 <= h.count /\ h.size # 0
        BY <1>1, <2>1
      <4> QED
        BY <1>1, <4>1, WithoutDrops
    <3> QED
      BY <1>1, <3>1, <3>2
  <2>2. CASE h.count = 1
    <3>1. write_handle' = [h EXCEPT !.count = @ - 1, !.index_start = @]
      BY <1>2, <2>2
    <3>2. IsHandle(write_handle') /\ write_handle'.count = 0
      BY <1>1, <2>2, <3>1 DEF IsHandle
    <3> QED
      BY <2>2, <3>2
  <2> QED
    BY <1>1, <1>5, <2>1, <2>2
<1>10. ASSUME h.count > 1
       PROVE  /\ h.time_points[At(h, 1)] = stored[W + 2].time
              /\ stored[W + 2].time >= sc_time
  <2>1. 1 \in 0..h.count - 1 /\ W + 1 + 1 = W + 2 /\ W + 2 \in 1..S
    BY <1>1, <1>10
  <2>2. Entry(h, 1) = stored[W + 2]
    BY <1>1, <2>1
  <2>3. stored[W + 1].time <= stored[W + 2].time
    BY <1>1, <1>6, <2>1 DEF InOrder
  <2> QED
    BY <1>1, <1>5, <2>1, <2>2, <2>3 DEF Entry
<1> HIDE DEF h, S, W, next
<1>11. WriteInv'
  <2>1. \A k \in 1..W + 1 : written'[k] = stored[k]
    BY <1>1, <1>8
  <2>2. ASSUME NEW n \in 0..h.count - 2
        PROVE  Entry(write_handle', n) = stored[(W + 1) + 1 + n]
    <3>1. n + 1 \in 0..h.count - 1 /\ W + 1 + (n + 1) = (W + 1) + 1 + n
      <4>1. \A c, w \in Nat : n \in 0..c - 2 =>
              n + 1 \in 0..c - 1 /\ w + 1 + (n + 1) = (w + 1) + 1 + n
        OBVIOUS
      <4> QED
        BY <1>1, <4>1
    <3> QED
      BY <1>1, <1>9, <3>1
  <2>3. /\ Len(stored') = S /\ h.count - 1 = S - (W + 1) /\ W + 1 <= S
        /\ \A n \in 0..(h.count - 1) - 1 : n \in 0..h.count - 2
        /\ (h.count - 1 = 0 <=> ~(h.count > 1)) /\ (W + 1) + 1 = W + 2
    BY <1>1, <1>2, <1>5, <1>6, SMTT(30) DEF S
  <2>4. WriteInv' <=>
          /\ InOrder(stored')
          /\ written' \in Seq(Entries) /\ Len(written') <= Len(stored')
          /\ \A k \in 1..Len(written') : written'[k] = stored'[k]
          /\ IsHandle(write_handle')
          /\ write_handle'.count = Len(stored') - Len(written')
          /\ \A n \in 0..write_handle'.count - 1 :
               Entry(write_handle', n) = stored'[Len(written') + 1 + n]
          /\ notified' = IF write_handle'.count = 0 THEN <<>>
                         ELSE <<stored'[Len(written') + 1].time>>
          /\ write_handle'.count # 0 => stored'[Len(written') + 1].time >= sc_time'
    BY DEF WriteInv, Entry, At
  <2>5. \A n \in 0..write_handle'.count - 1 :
           Entry(write_handle', n) = stored'[Len(written') + 1 + n]
    BY <1>2, <1>8, <1>9, <2>2, <2>3
  <2>6. notified' = IF write_handle'.count = 0 THEN <<>>
                    ELSE <<stored'[Len(written') + 1].time>>
    BY <1>2, <1>8, <1>9, <1>10, <2>3
  <2>7. write_handle'.count # 0 => stored'[Len(written') + 1].time >= sc_time'
    BY <1>2, <1>8, <1>9, <1>10, <2>3
  <2> QED
    BY <1>1, <1>2, <1>8, <1>9, <2>1, <2>3, <2>4, <2>5, <2>6, <2>7
<1> QED
  BY <1>3, <1>4, <1>11 DEF HandleInv

-------------------------------------------------------------------------------
(* The theorem                                                             *)

LEMMA NextInv == PunctualReaders /\ HandleInv /\ [HandleNext]_handleVars => HandleInv'
<1> SUFFICES ASSUME PunctualReaders, HandleInv, [HandleNext]_handleVars PROVE HandleInv'
  OBVIOUS
<1>1. CASE ChannelEvent
  BY <1>1, ChannelEventInv
<1>2. CASE sc_value_trace
  BY <1>2, ValueTraceInv
<1>3. ASSUME NEW t \in Asked..HandleHorizon, get_sc_value_on_time(t) PROVE HandleInv'
  <2>1. t \in Nat /\ t >= Asked
    BY AskedBounds, HandlesAssumption DEF HandlesAssumption
  <2> QED
    BY <1>3, <2>1, GetValue
<1>4. ASSUME NEW t \in LastStored..HandleHorizon, write_sc_value(t) PROVE HandleInv'
  <2>1. t \in Nat /\ t >= LastStored
    BY LastStoredBounds, HandlesAssumption DEF HandlesAssumption
  <2> QED
    BY <1>4, <2>1, WriteValueInv
<1>5. CASE sc_write_value_process
  BY <1>5, WriteProcessInv
<1>6. CASE PassTime
  BY <1>6, PassTimeInv
<1>7. CASE StartCluster
  BY <1>7, StartClusterInv
<1>8. CASE HandleRest \/ UNCHANGED handleVars
  BY <1>8, RestInv DEF HandleRest
<1> QED
  BY <1>1, <1>2, <1>3, <1>4, <1>5, <1>6, <1>7, <1>8 DEF HandleNext

LEMMA InTime == HandleInv => WritesArriveInTime
<1> SUFFICES ASSUME HandleInv PROVE WritesArriveInTime
  OBVIOUS
<1>1. /\ Len(stored) \in Nat /\ Len(written) \in Nat /\ write_handle.count \in Nat
      /\ write_handle.count = Len(stored) - Len(written) /\ sc_time \in Nat
      /\ \A k \in 1..Len(stored) : stored[k].time \in Nat
      /\ InOrder(stored) /\ written \in Seq(Entries)
      /\ \A k \in 1..Len(written) : written[k] = stored[k]
      /\ write_handle.count # 0 => stored[Len(written) + 1].time >= sc_time
  BY WriteTypes DEF HandleInv, WriteInv, TimeInv
<1>2. DOMAIN stored = 1..Len(stored) /\ DOMAIN written = 1..Len(written)
  BY <1>1 DEF InOrder
<1>3. ASSUME NEW k \in 1..Len(stored), stored[k].time < sc_time PROVE k \in 1..Len(written)
  <2> SUFFICES ASSUME k > Len(written) PROVE FALSE
    BY <1>1
  <2>1. Len(written) + 1 \in 1..Len(stored) /\ Len(written) + 1 <= k /\ write_handle.count # 0
    BY <1>1
  <2>2. stored[Len(written) + 1].time <= stored[k].time
    BY <1>1, <2>1 DEF InOrder
  <2>3. stored[Len(written) + 1].time \in Nat /\ stored[k].time \in Nat
    BY <1>1, <2>1
  <2> QED
    BY <1>1, <1>3, <2>1, <2>2, <2>3
<1> QED
  BY <1>1, <1>2, <1>3 DEF WritesArriveInTime

LEMMA InTimeNext == HandleInv' => WritesArriveInTime'
BY InTime, PTL

\* What a step promises.
AnswerIsRight(t) ==
  get_sc_value_on_time(t) =>
    read_value'[2] = Max({1} \cup {k \in DOMAIN events : events[k].time <= t})

LEMMA StepAnswers ==
    ASSUME HandleInv, HandleNext, handleVars' # handleVars, NEW t \in 0..HandleHorizon
    PROVE  AnswerIsRight(t)
<1> SUFFICES ASSUME get_sc_value_on_time(t)
             PROVE  read_value'[2] = Max({1} \cup {k \in DOMAIN events : events[k].time <= t})
  BY DEF AnswerIsRight
<1>1. \E u \in Asked..HandleHorizon : get_sc_value_on_time(u)
  <2>1. /\ handleScenario.reads
        /\ UNCHANGED <<handleScenario, sc_time, start_time, write_handle, triggered, notified,
                       events, stored, written>>
    BY DEF get_sc_value_on_time
  <2>2. ASSUME ChannelEvent PROVE FALSE
    BY <2>1, <2>2 DEF ChannelEvent
  <2>3. ASSUME sc_value_trace PROVE FALSE
    BY <2>1, <2>3 DEF sc_value_trace
  <2>4. ASSUME NEW u, write_sc_value(u) PROVE FALSE
    BY <2>1, <2>4 DEF write_sc_value
  <2>5. ASSUME sc_write_value_process PROVE FALSE
    <3>1. written \in Seq(Entries)
      BY DEF HandleInv, WriteInv
    <3>2. Len(written') = Len(written) \/ Len(written') = Len(written) + 1
      BY <2>1
    <3> DEFINE h == write_handle
    <3>3. written = Append(written, [time |-> sc_time, value |-> h.values[At(h, 0)]])
      BY <2>1, <2>5 DEF sc_write_value_process
    <3>4. Len(written) = Len(written) + 1 /\ Len(written) \in Nat
      BY <3>1, <3>3
    <3> QED
      BY <3>4
  <2>6. ASSUME PassTime PROVE FALSE
    BY <2>1, <2>6 DEF PassTime, HandleInv, TimeInv
  <2>7. ASSUME StartCluster PROVE FALSE
    BY <2>1, <2>7 DEF StartCluster, HandleInv, TimeInv
  <2>8. ASSUME HandleRest PROVE FALSE
    BY <2>8 DEF HandleRest
  <2> QED
    BY <2>2, <2>3, <2>4, <2>5, <2>6, <2>7, <2>8 DEF HandleNext
<1>2. PICK u \in Asked..HandleHorizon : get_sc_value_on_time(u)
  BY <1>1
<1>3. u = t
  BY <1>2 DEF get_sc_value_on_time
<1>4. t \in Nat /\ t >= Asked
  BY <1>3, AskedBounds
<1> QED
  BY <1>4, GetValue

\* A solver gets the value the channel had at the time it asks for, and the channel gets
\* what the solver writes in order, complete and in time, however often the two buffers
\* of sca_solver_base grow and whatever the full one lets go of.
THEOREM ValuesKeepTime ==
    ASSUME PunctualReaders
    PROVE  HandleSpec => HandlesKeepTime
<1>1. HandleInit => HandleInv
  BY InitInv
<1>2. HandleInv /\ [HandleNext]_handleVars => HandleInv'
  BY NextInv
<1> DEFINE Kept == /\ \A t \in 0..HandleHorizon : AnswerIsRight(t)
                   /\ WritesArriveInTime'
<1>3. HandleInv /\ HandleInv' /\ [HandleNext]_handleVars => [Kept]_handleVars
  <2> SUFFICES ASSUME HandleInv, HandleInv', HandleNext, handleVars' # handleVars PROVE Kept
    OBVIOUS
  <2>1. WritesArriveInTime'
    BY InTimeNext
  <2> QED
    BY <2>1, StepAnswers
<1>4. HandleSpec => [][Kept]_handleVars
  <2> HIDE DEF Kept
  <2> QED
    BY <1>1, <1>2, <1>3, PTL DEF HandleSpec
<1> QED
  BY <1>4, PTL DEF HandlesKeepTime, AnswerIsRight
===============================================================================
