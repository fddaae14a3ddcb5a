---------------------------- MODULE TdfSignalProofs ----------------------------
(***************************************************************************)
(* Proofs about TdfSignal, for every number of readers, all rates and      *)
(* delays, and every sequence of re-schedulings.                           *)
(***************************************************************************)
EXTENDS TdfSignal, ProofFacts

\* done calls of rate samples, after k periods of calls * rate = s samples.
LEMMA PeriodPosition ==
    ASSUME NEW k \in Nat, NEW calls \in Nat, NEW rate \in Nat, NEW s \in Nat,
           rate * calls = s, NEW done \in 0..calls
    PROVE  /\ (k * calls + done) * rate >= k * s
           /\ (k * calls + done) * rate <= k * s + s
<1>1. (k * calls + done) * rate = k * s + done * rate
  <2>1. (k * calls + done) * rate = (k * calls) * rate + done * rate
    OBVIOUS
  <2>2. (k * calls) * rate = k * (rate * calls)
    OBVIOUS
  <2> QED
    BY <2>1, <2>2
<1>2. done * rate <= calls * rate /\ calls * rate = s
  BY TimesMonotone
<1>3. done * rate \in Nat /\ k * s \in Nat
  BY TimesNat
<1> QED
  BY <1>1, <1>2, <1>3

LEMMA NextCall ==
    ASSUME NEW n \in Nat, NEW rate \in Nat
    PROVE  (n + 1) * rate = n * rate + rate
OBVIOUS

-------------------------------------------------------------------------------

LEMMA ConfigTypes ==
    ASSUME NEW c, IsConfig(c)
    PROVE  /\ \A p \in Ports : /\ c.rate[p] \in Nat \ {0}
                               /\ c.calls[p] \in Nat \ {0}
                               /\ c.delay[p] \in Nat
                               /\ c.rate[p] * c.calls[p] = SamplesPerPeriod(c)
           /\ Driver \in Ports
           /\ SamplesPerPeriod(c) \in Nat
<1>1. Driver \in Ports
  BY DEF Ports
<1>2. \A p \in Ports : /\ c.rate[p] \in Nat \ {0}
                       /\ c.calls[p] \in Nat \ {0}
                       /\ c.delay[p] \in Nat
                       /\ c.rate[p] * c.calls[p] = SamplesPerPeriod(c)
  BY DEF IsConfig, SamplesPerPeriod
<1>3. SamplesPerPeriod(c) \in Nat
  BY <1>1, <1>2, TimesNat DEF SamplesPerPeriod
<1> QED
  BY <1>1, <1>2, <1>3

\* The longest delay of a reader is a delay and none is longer.
LEMMA MaxInDelayBounds ==
    ASSUME NEW c, IsConfig(c)
    PROVE  /\ MaxInDelay(c) \in Nat
           /\ \A r \in Readers : c.delay[r] <= MaxInDelay(c)
<1> DEFINE D == {c.delay[r] : r \in Readers}
<1>1. D \in SUBSET Nat
  BY ConfigTypes DEF Ports
<1>2. IsFiniteSet(D) /\ D # {}
  <2> DEFINE f == [r \in Readers |-> c.delay[r]]
  <2>1. IsFiniteSet(Readers) /\ Readers # {}
    BY SignalAssumption
  <2>2. f \in Surjection(Readers, D)
    BY DEF Surjection
  <2> HIDE DEF f
  <2>3. IsFiniteSet(D)
    <3> HIDE DEF D
    <3> QED
      BY <2>1, <2>2, FS_Surjection
  <2> QED
    BY <2>1, <2>3
<1>3. \E x \in D : \A y \in D : y <= x
  <2> HIDE DEF D
  <2> QED
    BY <1>1, <1>2, FiniteNatGreatest
<1>4. Max(D) \in D /\ \A y \in D : y <= Max(D)
  <2>1. \E x \in D : \A y \in D : x >= y
    BY <1>3, <1>1
  <2> HIDE DEF D
  <2>2. Max(D) \in D /\ \A y \in D : Max(D) >= y
    BY <2>1 DEF Max
  <2> QED
    BY <2>2, <1>1
<1>5. MaxInDelay(c) = Max(D)
  BY DEF MaxInDelay
<1> HIDE DEF MaxInDelay
<1>6. MaxInDelay(c) \in Nat
  BY <1>1, <1>4, <1>5
<1>7. \A r \in Readers : c.delay[r] \in D
  OBVIOUS
<1> QED
  BY <1>4, <1>5, <1>6, <1>7

Offsets(c) == [p \in Ports |-> IF p = Driver THEN c.delay[p] ELSE -c.delay[p]]

\* Where the calls are: at a period border every module made its calls.
CallsInPeriod ==
  /\ phase \in {"initialize", "run", "between", "reinitialize"}
  /\ phase = "initialize" => period = 1 /\ \A p \in Ports : call_counter[p] = -1
  /\ phase = "run" => \A p \in Ports : CallsDone(p) \in 0..cfg.calls[p]
  /\ phase \in {"between", "reinitialize"} => \A p \in Ports : CallsDone(p) = 0

\* The strengthening: the counters fit the attributes, and no reader is ahead
\* of what is on the way to it.
RingInv ==
  /\ scenario \in Scenarios /\ IsConfig(cfg)
  /\ period \in Nat \ {0}
  /\ call_counter \in [Ports -> Int]
  /\ buffer_offsets = Offsets(cfg)
  /\ buffer_size = BufferSize(cfg)
  /\ CallsInPeriod
  /\ \A r \in Readers : Tokens(r) >= 0

\* The calls of a port so far, by period and calls within it.
LEMMA CallsSplit ==
    ASSUME RingInv, NEW p \in Ports
    PROVE  /\ Calls(p) \in Nat
           /\ \E done \in 0..cfg.calls[p] : Calls(p) = (period - 1) * cfg.calls[p] + done
           /\ phase # "initialize" => Calls(p) = call_counter[p]
<1>1. cfg.calls[p] \in Nat /\ period - 1 \in Nat /\ call_counter[p] \in Int
  BY ConfigTypes DEF RingInv
<1> DEFINE base == (period - 1) * cfg.calls[p]
<1>2. base \in Nat
  BY <1>1, TimesNat
<1>3. CASE phase = "initialize"
  <2>1. Calls(p) = 0 /\ base = 0
    BY <1>1, <1>3 DEF RingInv, CallsInPeriod, Calls
  <2> QED
    BY <2>1, <1>1, <1>3
<1>4. CASE phase # "initialize"
  <2>1. CallsDone(p) \in 0..cfg.calls[p]
    BY <1>1, <1>4 DEF RingInv, CallsInPeriod
  <2>2. call_counter[p] = base + CallsDone(p)
    BY <1>1, <1>2 DEF CallsDone
  <2> HIDE DEF base
  <2>3. Calls(p) = call_counter[p] /\ call_counter[p] \in Nat
    BY <2>1, <2>2, <1>1, <1>2 DEF Calls
  <2> QED
    BY <2>1, <2>2, <2>3 DEF base
<1> QED
  BY <1>3, <1>4

LEMMA CallPositions ==
    ASSUME RingInv, NEW p \in Ports
    PROVE  LET s == SamplesPerPeriod(cfg)
               k == period - 1
           IN /\ Calls(p) * cfg.rate[p] \in Nat
              /\ k * s \in Nat
              /\ Calls(p) * cfg.rate[p] >= k * s
              /\ Calls(p) * cfg.rate[p] <= k * s + s
<1> DEFINE s == SamplesPerPeriod(cfg)
           k == period - 1
<1>1. /\ cfg.calls[p] \in Nat /\ cfg.rate[p] \in Nat /\ s \in Nat /\ k \in Nat
      /\ cfg.rate[p] * cfg.calls[p] = s
  BY ConfigTypes DEF RingInv
<1>2. PICK done \in 0..cfg.calls[p] : Calls(p) = k * cfg.calls[p] + done
  BY CallsSplit
<1>3. Calls(p) * cfg.rate[p] \in Nat /\ k * s \in Nat
  BY <1>1, CallsSplit, TimesNat
<1> HIDE DEF s, k
<1>4. /\ (k * cfg.calls[p] + done) * cfg.rate[p] >= k * s
      /\ (k * cfg.calls[p] + done) * cfg.rate[p] <= k * s + s
  BY <1>1, PeriodPosition
<1>5. Calls(p) * cfg.rate[p] >= k * s /\ Calls(p) * cfg.rate[p] <= k * s + s
  BY <1>2, <1>4
<1> QED
  BY <1>3, <1>5 DEF s, k

LEMMA TokensByDelay ==
    ASSUME RingInv, NEW r \in Readers
    PROVE  Tokens(r) = Calls(Driver) * cfg.rate[Driver] + cfg.delay[Driver]
                       - Calls(r) * cfg.rate[r] + cfg.delay[r]
<1>1. r \in Ports /\ Driver \in Ports /\ r # Driver
  BY SignalAssumption DEF Ports
<1>2. buffer_offsets[Driver] = cfg.delay[Driver] /\ buffer_offsets[r] = -cfg.delay[r]
  BY <1>1 DEF RingInv, Offsets
<1>3. cfg.delay[Driver] \in Nat /\ cfg.delay[r] \in Nat
  BY <1>1, ConfigTypes DEF RingInv
<1>4. Calls(Driver) * cfg.rate[Driver] \in Nat /\ Calls(r) * cfg.rate[r] \in Nat
  BY <1>1, CallPositions
<1> QED
  BY <1>2, <1>3, <1>4 DEF Tokens

LEMMA RingInvImplies == ASSUME RingInv PROVE RingIsLargeEnough
<1> SUFFICES ASSUME NEW r \in Readers PROVE Tokens(r) \in 0..buffer_size
  BY DEF RingIsLargeEnough
<1> DEFINE s == SamplesPerPeriod(cfg)
           ks == (period - 1) * s
           w == Calls(Driver) * cfg.rate[Driver]
           n == Calls(r) * cfg.rate[r]
<1>1. r \in Ports /\ Driver \in Ports
  BY DEF Ports
<1>2. w \in Nat /\ n \in Nat /\ ks \in Nat /\ s \in Nat /\ w <= ks + s /\ n >= ks
  BY <1>1, CallPositions, ConfigTypes DEF RingInv
<1>3. Tokens(r) = w + cfg.delay[Driver] - n + cfg.delay[r]
  BY TokensByDelay
<1>4. /\ cfg.delay[Driver] \in Nat /\ cfg.delay[r] \in Nat
      /\ MaxInDelay(cfg) \in Nat /\ cfg.delay[r] <= MaxInDelay(cfg)
  BY <1>1, ConfigTypes, MaxInDelayBounds DEF RingInv
<1>5. buffer_size = s + cfg.delay[Driver] + MaxInDelay(cfg)
  BY DEF RingInv, BufferSize
<1>6. Tokens(r) >= 0
  BY DEF RingInv
<1> HIDE DEF s, ks, w, n
<1> QED
  BY <1>2, <1>3, <1>4, <1>5, <1>6

-------------------------------------------------------------------------------
(***************************************************************************)
(* The invariant, action by action.                                        *)
(***************************************************************************)
LEMMA InitInv == Init => RingInv
<1> SUFFICES ASSUME Init PROVE RingInv
  OBVIOUS
<1>1. scenario \in Scenarios /\ IsConfig(cfg)
  BY SignalAssumption DEF Init, IsScenario
<1>2. period = 1 /\ phase = "initialize" /\ call_counter = [p \in Ports |-> -1]
  BY DEF Init
<1>3. buffer_offsets = Offsets(cfg) /\ buffer_size = BufferSize(cfg)
  BY DEF Init, InitDelays, create_buffer, Offsets
<1>4. CallsInPeriod
  BY <1>2 DEF CallsInPeriod
<1>5. ASSUME NEW r \in Readers PROVE Tokens(r) >= 0
  <2>1. r \in Ports /\ Driver \in Ports /\ r # Driver
    BY SignalAssumption DEF Ports
  <2>2. Calls(r) = 0 /\ Calls(Driver) = 0
    BY <1>2, <2>1 DEF Calls
  <2>3. /\ cfg.delay[Driver] \in Nat /\ cfg.delay[r] \in Nat
        /\ cfg.rate[Driver] \in Nat /\ cfg.rate[r] \in Nat
    BY <1>1, <2>1, ConfigTypes
  <2>4. buffer_offsets[Driver] = cfg.delay[Driver] /\ buffer_offsets[r] = -cfg.delay[r]
    BY <1>3, <2>1 DEF Offsets
  <2> QED
    BY <2>2, <2>3, <2>4 DEF Tokens
<1>6. period \in Nat \ {0} /\ call_counter \in [Ports -> Int]
  BY <1>2
<1> QED
  BY <1>1, <1>3, <1>4, <1>5, <1>6 DEF RingInv

\* Actions that leave the counters, the attributes and the size alone.
LEMMA QuietInv ==
    ASSUME RingInv, UNCHANGED <<clusterVars, buffer_size, buffer_offsets>>
    PROVE  RingInv'
<1>1. /\ scenario' = scenario /\ cfg' = cfg /\ phase' = phase /\ period' = period
      /\ call_counter' = call_counter /\ buffer_size' = buffer_size
      /\ buffer_offsets' = buffer_offsets
  BY DEF clusterVars
<1>2. \A p : Calls(p)' = Calls(p) /\ CallsDone(p)' = CallsDone(p)
  BY <1>1 DEF Calls, CallsDone
<1>3. \A r : Tokens(r)' = Tokens(r)
  BY <1>1, <1>2 DEF Tokens
<1>4. CallsInPeriod'
  BY <1>1, <1>2 DEF RingInv, CallsInPeriod
<1> QED
  BY <1>1, <1>3, <1>4 DEF RingInv

\* Actions that move phase and period but make no call.
LEMMA BorderInv ==
    ASSUME RingInv,
           UNCHANGED <<scenario, cfg, buffer_size, buffer_offsets>>,
           period' \in Nat \ {0}, call_counter' \in [Ports -> Int],
           \A p \in Ports : Calls(p)' = Calls(p),
           CallsInPeriod'
    PROVE  RingInv'
<1>1. \A r \in Readers : Tokens(r)' = Tokens(r)
  BY DEF Tokens, Ports
<1> QED
  BY <1>1 DEF RingInv

LEMMA StartPeriodInv == ASSUME RingInv, StartPeriod PROVE RingInv'
<1>1. /\ UNCHANGED <<scenario, cfg, period, buffer_size, buffer_offsets>>
      /\ phase' = "run" /\ phase \in {"initialize", "reinitialize"}
      /\ call_counter' = [p \in Ports |-> Calls(p)]
  BY DEF StartPeriod, ringVars, delayVars
<1>2. \A p \in Ports : Calls(p) \in Nat
  BY CallsSplit
<1>3. \A p \in Ports : Calls(p)' = Calls(p)
  BY <1>1, <1>2 DEF Calls
<1>4. ASSUME NEW p \in Ports PROVE CallsDone(p)' \in 0..cfg'.calls[p]
  <2>1. cfg.calls[p] \in Nat
    BY ConfigTypes DEF RingInv
  <2>2. CASE phase = "initialize"
    <3>1. period = 1 /\ call_counter[p] = -1
      BY <2>2 DEF RingInv, CallsInPeriod
    <3>2. call_counter'[p] = 0
      BY <3>1, <1>1 DEF Calls
    <3> QED
      BY <3>1, <3>2, <2>1, <1>1 DEF CallsDone
  <2>3. CASE phase = "reinitialize"
    <3>1. CallsDone(p) = 0 /\ call_counter'[p] = call_counter[p]
      BY <2>3, <1>1, CallsSplit DEF RingInv, CallsInPeriod
    <3> QED
      BY <3>1, <2>1, <1>1 DEF CallsDone
  <2> QED
    BY <1>1, <2>2, <2>3
<1>5. CallsInPeriod'
  BY <1>1, <1>4 DEF CallsInPeriod
<1>6. call_counter' \in [Ports -> Int] /\ period' \in Nat \ {0}
  BY <1>1, <1>2 DEF RingInv
<1> QED
  BY <1>1, <1>3, <1>5, <1>6, BorderInv

LEMMA EndPeriodInv == ASSUME RingInv, EndPeriod PROVE RingInv'
<1>1. /\ UNCHANGED <<scenario, cfg, call_counter, buffer_size, buffer_offsets>>
      /\ phase' = "between" /\ period' = period + 1
      /\ \A p \in Ports : CallsDone(p) = cfg.calls[p]
  BY DEF EndPeriod, ringVars, delayVars
<1>2. \A p \in Ports : Calls(p)' = Calls(p)
  BY <1>1 DEF Calls
<1>3. ASSUME NEW p \in Ports PROVE CallsDone(p)' = 0
  <2>1. cfg.calls[p] \in Nat /\ period \in Nat \ {0} /\ call_counter[p] \in Int
    BY ConfigTypes DEF RingInv
  <2>2. call_counter[p] - (period - 1) * cfg.calls[p] = cfg.calls[p]
    BY <1>1 DEF CallsDone
  <2>3. (period - 1) * cfg.calls[p] + cfg.calls[p] = period * cfg.calls[p]
    BY <2>1
  <2>4. period' - 1 = period
    BY <1>1, <2>1
  <2>5. (period - 1) * cfg.calls[p] \in Int /\ period * cfg.calls[p] \in Int
    BY <2>1
  <2>6. CallsDone(p)' = call_counter[p] - period * cfg.calls[p]
    BY <1>1, <2>4 DEF CallsDone
  <2> QED
    BY <2>1, <2>2, <2>3, <2>5, <2>6
<1>4. CallsInPeriod'
  BY <1>1, <1>3 DEF CallsInPeriod
<1>5. call_counter' \in [Ports -> Int] /\ period' \in Nat \ {0}
  BY <1>1 DEF RingInv
<1> QED
  BY <1>1, <1>2, <1>4, <1>5, BorderInv

LEMMA KeepScheduleInv == ASSUME RingInv, KeepSchedule PROVE RingInv'
<1>1. /\ UNCHANGED <<scenario, cfg, period, call_counter, buffer_size, buffer_offsets>>
      /\ phase = "between" /\ phase' = "reinitialize"
  BY DEF KeepSchedule, ringVars, delayVars
<1>2. \A p \in Ports : Calls(p)' = Calls(p) /\ CallsDone(p)' = CallsDone(p)
  BY <1>1 DEF Calls, CallsDone
<1>3. CallsInPeriod'
  BY <1>1, <1>2 DEF RingInv, CallsInPeriod
<1> QED
  BY <1>1, <1>2, <1>3, BorderInv DEF RingInv

\* One call of port q: only its own counter moves.
LEMMA CallStep ==
    ASSUME RingInv, NEW q \in Ports, CanCall(q),
           UNCHANGED <<scenario, cfg, phase, period, buffer_size, buffer_offsets>>,
           call_counter' = [call_counter EXCEPT ![q] = @ + 1]
    PROVE  /\ CallsInPeriod'
           /\ call_counter' \in [Ports -> Int]
           /\ Calls(q)' * cfg.rate[q] = Calls(q) * cfg.rate[q] + cfg.rate[q]
           /\ \A p \in Ports \ {q} : Calls(p)' = Calls(p)
<1>1. /\ phase = "run" /\ CallsDone(q) < cfg.calls[q]
      /\ call_counter \in [Ports -> Int] /\ period \in Nat \ {0}
  BY DEF CanCall, RingInv
<1>2. \A p \in Ports : cfg.calls[p] \in Nat /\ cfg.rate[p] \in Nat
  BY ConfigTypes DEF RingInv
<1>3. \A p \in Ports : CallsDone(p) \in 0..cfg.calls[p]
  BY <1>1 DEF RingInv, CallsInPeriod
<1>4. call_counter'[q] = call_counter[q] + 1
  BY <1>1
<1>5. \A p \in Ports \ {q} : call_counter'[p] = call_counter[p]
  BY <1>1
<1>6. CallsDone(q)' = CallsDone(q) + 1
  <2>1. (period - 1) * cfg.calls[q] \in Int /\ call_counter[q] \in Int
    BY <1>1, <1>2
  <2> QED
    BY <2>1, <1>4 DEF CallsDone
<1>7. \A p \in Ports \ {q} : CallsDone(p)' = CallsDone(p)
  BY <1>5 DEF CallsDone
<1>8. \A p \in Ports : CallsDone(p)' \in 0..cfg'.calls[p]
  BY <1>1, <1>2, <1>3, <1>6, <1>7
<1>9. CallsInPeriod'
  BY <1>1, <1>8 DEF CallsInPeriod
<1>10. call_counter' \in [Ports -> Int]
  BY <1>1
<1>11. Calls(q) \in Nat /\ Calls(q) = call_counter[q]
  BY <1>1, CallsSplit
<1>12. Calls(q)' = Calls(q) + 1
  BY <1>4, <1>11 DEF Calls
<1>13. Calls(q)' * cfg.rate[q] = Calls(q) * cfg.rate[q] + cfg.rate[q]
  BY <1>2, <1>11, <1>12, NextCall
<1>14. \A p \in Ports \ {q} : Calls(p)' = Calls(p)
  BY <1>5 DEF Calls
<1> QED
  BY <1>9, <1>10, <1>13, <1>14

LEMMA WriteCallInv == ASSUME RingInv, WriteCall PROVE RingInv'
<1>1. /\ UNCHANGED <<scenario, cfg, phase, period, buffer_size, buffer_offsets>>
      /\ CanCall(Driver) /\ Driver \in Ports
      /\ call_counter' = [call_counter EXCEPT ![Driver] = @ + 1]
  BY DEF WriteCall, delayVars, Ports
<1>2. /\ CallsInPeriod' /\ call_counter' \in [Ports -> Int]
      /\ Calls(Driver)' * cfg.rate[Driver] = Calls(Driver) * cfg.rate[Driver] + cfg.rate[Driver]
      /\ \A p \in Ports \ {Driver} : Calls(p)' = Calls(p)
  BY <1>1, CallStep
<1>3. ASSUME NEW r \in Readers PROVE Tokens(r)' >= 0
  <2>1. r \in Ports \ {Driver}
    BY SignalAssumption DEF Ports
  <2>2. /\ Calls(Driver) * cfg.rate[Driver] \in Nat /\ Calls(r) * cfg.rate[r] \in Nat
        /\ cfg.rate[Driver] \in Nat
    BY <1>1, <2>1, CallPositions, ConfigTypes DEF RingInv
  <2>3. buffer_offsets[Driver] \in Int /\ buffer_offsets[r] \in Int
    BY <1>1, <2>1, ConfigTypes DEF RingInv, Offsets
  <2>4. Tokens(r)' = (Calls(Driver)' * cfg.rate[Driver] + buffer_offsets[Driver])
                     - (Calls(r) * cfg.rate[r] + buffer_offsets[r])
    BY <1>1, <1>2, <2>1 DEF Tokens
  <2>5. Tokens(r) >= 0
    BY DEF RingInv
  <2> QED
    BY <1>2, <2>2, <2>3, <2>4, <2>5 DEF Tokens
<1> QED
  BY <1>1, <1>2, <1>3 DEF RingInv

LEMMA ReadCallInv == ASSUME RingInv, NEW q \in Readers, ReadCall(q) PROVE RingInv'
<1>1. /\ UNCHANGED <<scenario, cfg, phase, period, buffer_size, buffer_offsets>>
      /\ CanCall(q) /\ q \in Ports /\ Driver \in Ports \ {q}
      /\ call_counter' = [call_counter EXCEPT ![q] = @ + 1]
      /\ Tokens(q) >= cfg.rate[q]
  BY SignalAssumption DEF ReadCall, ringVars, delayVars, Ports
<1>2. /\ CallsInPeriod' /\ call_counter' \in [Ports -> Int]
      /\ Calls(q)' * cfg.rate[q] = Calls(q) * cfg.rate[q] + cfg.rate[q]
      /\ \A p \in Ports \ {q} : Calls(p)' = Calls(p)
  BY <1>1, CallStep
<1>3. ASSUME NEW r \in Readers PROVE Tokens(r)' >= 0
  <2>1. CASE r # q
    <3>1. Calls(r)' = Calls(r) /\ Calls(Driver)' = Calls(Driver)
      BY <1>1, <1>2, <2>1 DEF Ports
    <3>2. Tokens(r)' = Tokens(r)
      BY <1>1, <3>1 DEF Tokens
    <3> QED
      BY <3>2 DEF RingInv
  <2>2. CASE r = q
    <3>1. /\ Calls(Driver) * cfg.rate[Driver] \in Nat /\ Calls(q) * cfg.rate[q] \in Nat
          /\ cfg.rate[q] \in Nat
      BY <1>1, CallPositions, ConfigTypes DEF RingInv
    <3>2. buffer_offsets[Driver] \in Int /\ buffer_offsets[q] \in Int
      BY <1>1, ConfigTypes DEF RingInv, Offsets
    <3>3. Calls(Driver)' = Calls(Driver)
      BY <1>1, <1>2
    <3>4. Tokens(q)' = (Calls(Driver) * cfg.rate[Driver] + buffer_offsets[Driver])
                       - (Calls(q)' * cfg.rate[q] + buffer_offsets[q])
      BY <1>1, <3>3 DEF Tokens
    <3>5. Tokens(q)' = Tokens(q) - cfg.rate[q]
      BY <1>2, <3>1, <3>2, <3>4 DEF Tokens
    <3>6. Tokens(q) \in Int
      BY <3>1, <3>2 DEF Tokens
    <3> QED
      BY <1>1, <2>2, <3>1, <3>5, <3>6
  <2> QED
    BY <2>1, <2>2
<1> QED
  BY <1>1, <1>2, <1>3 DEF RingInv

\* Every branch of resize_buffer leaves the size and the offsets of the new attributes.
LEMMA ResizeFits ==
    ASSUME RingInv, NEW c, IsConfig(c), resize_buffer(c)
    PROVE  buffer_size' = BufferSize(c) /\ buffer_offsets' = Offsets(c)
<1>1. buffer_size' = BufferSize(c)
  BY DEF resize_buffer, ringVars
<1>2. c.delay = cfg.delay => Offsets(c) = Offsets(cfg)
  BY DEF Offsets
<1>3. \/ UNCHANGED buffer_offsets /\ c.delay = cfg.delay
      \/ reinitialize_indelays(c)
  BY DEF resize_buffer
<1>4. reinitialize_indelays(c) => buffer_offsets' = Offsets(c)
  BY DEF reinitialize_indelays, Offsets
<1> QED
  BY <1>1, <1>2, <1>3, <1>4 DEF RingInv

LEMMA RescheduleInv ==
    ASSUME RingInv, NEW c, IsConfig(c), reschedule_cluster(c)
    PROVE  RingInv'
<1>1. /\ cfg' = c /\ scenario' = scenario /\ period' = 2 /\ phase' = "reinitialize"
      /\ call_counter' = c.calls /\ resize_buffer(c)
  BY DEF reschedule_cluster
<1>2. buffer_size' = BufferSize(cfg') /\ buffer_offsets' = Offsets(cfg')
  BY <1>1, ResizeFits
<1>3. \A p \in Ports : c.calls[p] \in Nat /\ Calls(p)' = c.calls[p]
  BY <1>1, ConfigTypes DEF Calls
<1>4. CallsInPeriod'
  BY <1>1, <1>3 DEF CallsInPeriod, CallsDone
<1>5. ASSUME NEW r \in Readers PROVE Tokens(r)' >= 0
  <2>1. r \in Ports /\ Driver \in Ports /\ r # Driver
    BY SignalAssumption DEF Ports
  <2>2. /\ c.rate[r] * c.calls[r] = SamplesPerPeriod(c)
        /\ c.rate[Driver] * c.calls[Driver] = SamplesPerPeriod(c)
        /\ c.rate[r] \in Nat /\ c.rate[Driver] \in Nat /\ SamplesPerPeriod(c) \in Nat
        /\ c.delay[r] \in Nat /\ c.delay[Driver] \in Nat
    BY <2>1, ConfigTypes
  <2>3. buffer_offsets'[Driver] = c.delay[Driver] /\ buffer_offsets'[r] = -c.delay[r]
    BY <1>1, <1>2, <2>1 DEF Offsets
  <2>4. Tokens(r)' = (c.calls[Driver] * c.rate[Driver] + c.delay[Driver])
                     - (c.calls[r] * c.rate[r] - c.delay[r])
    <3>1. Tokens(r)' = (c.calls[Driver] * c.rate[Driver] + buffer_offsets'[Driver])
                       - (c.calls[r] * c.rate[r] + buffer_offsets'[r])
      BY <1>1, <1>3, <2>1 DEF Tokens
    <3>2. c.calls[r] * c.rate[r] \in Nat
      BY <1>3, <2>1, <2>2, TimesNat
    <3>3. c.calls[r] * c.rate[r] + (-c.delay[r]) = c.calls[r] * c.rate[r] - c.delay[r]
      BY <3>2, <2>2
    <3> QED
      BY <3>1, <3>3, <2>3
  <2>5. /\ c.calls[r] * c.rate[r] = SamplesPerPeriod(c)
        /\ c.calls[Driver] * c.rate[Driver] = SamplesPerPeriod(c)
    BY <1>3, <2>1, <2>2
  <2> QED
    BY <2>2, <2>4, <2>5
<1>6. period' \in Nat \ {0} /\ call_counter' \in [Ports -> Int]
  BY <1>1 DEF IsConfig
<1> QED
  BY <1>1, <1>2, <1>4, <1>5, <1>6 DEF RingInv

LEMMA NextInv == ASSUME RingInv, [Next]_vars PROVE RingInv'
<1>1. ASSUME NEW p \in Ports, NEW k \in 0..cfg.delay[p] - 1, initialize(p, k) PROVE RingInv'
  <2>1. UNCHANGED <<clusterVars, buffer_size, buffer_offsets>>
    BY <1>1 DEF initialize, InitializeDriver, InitializeReader, delayVars
  <2> QED
    BY <2>1, QuietInv
<1>2. CASE StartPeriod
  BY <1>2, StartPeriodInv
<1>3. CASE WriteCall
  BY <1>3, WriteCallInv
<1>4. ASSUME NEW r \in Readers, ReadCall(r) PROVE RingInv'
  BY <1>4, ReadCallInv
<1>5. CASE EndPeriod
  BY <1>5, EndPeriodInv
<1>6. CASE KeepSchedule
  BY <1>6, KeepScheduleInv
<1>7. ASSUME NEW e \in scenario.changes, reschedule_cluster(e[2]) PROVE RingInv'
  <2>1. IsConfig(e[2])
    BY SignalAssumption DEF RingInv, IsScenario
  <2> QED
    BY <1>7, <2>1, RescheduleInv
<1>8. CASE force_forced_value
  BY <1>8, QuietInv DEF force_forced_value, ringVars, delayVars
<1>9. CASE release_value
  BY <1>9, QuietInv DEF release_value, ringVars, delayVars
<1>10. CASE force_trigger_process
  BY <1>10, QuietInv DEF force_trigger_process, ringVars, delayVars
<1>11. CASE get_number_of_trace_value_sample
  BY <1>11, QuietInv DEF get_number_of_trace_value_sample, ringVars, delayVars
<1>12. CASE UNCHANGED vars
  BY <1>12, QuietInv DEF vars, ringVars, delayVars
<1>13. CASE Rest
  BY <1>13, <1>12 DEF Rest
<1> QED
  BY <1>1, <1>2, <1>3, <1>4, <1>5, <1>6, <1>7, <1>8, <1>9, <1>10, <1>11, <1>12, <1>13
  DEF Next

\* Whatever the rates and delays, the order of the calls and the re-schedulings:
\* end_of_elaboration and resize_buffer make the ring large enough, so no sample
\* is overwritten before every reader had it, and none is read before it exists.
THEOREM RingNeverOverflows == Spec => []RingIsLargeEnough
<1>1. Init => RingInv
  BY InitInv
<1>2. RingInv /\ [Next]_vars => RingInv'
  BY NextInv
<1>3. RingInv => RingIsLargeEnough
  BY RingInvImplies
<1> QED
  BY <1>1, <1>2, <1>3, PTL DEF Spec

-------------------------------------------------------------------------------
(* Positions in the stream *)

Base == (period - 1) * SamplesPerPeriod(cfg)

\* The positions the driver writes next and reader r reads next.
Edge    == Calls(Driver) * cfg.rate[Driver] + cfg.delay[Driver]
Mark(r) == Calls(r) * cfg.rate[r] - cfg.delay[r]

LEMMA TimesPositive ==
    ASSUME NEW a \in Nat \ {0}, NEW b \in Nat \ {0}
    PROVE  a * b \in Nat \ {0}
OBVIOUS

LEMMA SizeBounds ==
    ASSUME NEW c, IsConfig(c)
    PROVE  /\ SamplesPerPeriod(c) \in Nat \ {0}
           /\ MaxInDelay(c) \in Nat /\ c.delay[Driver] \in Nat
           /\ BufferSize(c) \in Nat \ {0}
           /\ BufferSize(c) = SamplesPerPeriod(c) + c.delay[Driver] + MaxInDelay(c)
           /\ BufferSize(c) = 1 => NoDelay(c)
<1>1. SamplesPerPeriod(c) \in Nat \ {0}
  BY ConfigTypes, TimesPositive DEF SamplesPerPeriod
<1>2. MaxInDelay(c) \in Nat /\ c.delay[Driver] \in Nat
  BY ConfigTypes, MaxInDelayBounds
<1>3. BufferSize(c) = SamplesPerPeriod(c) + c.delay[Driver] + MaxInDelay(c)
  BY DEF BufferSize
<1> QED
  BY <1>1, <1>2, <1>3 DEF NoDelay

LEMMA Marks ==
    ASSUME RingInv, NEW r \in Readers
    PROVE  /\ Edge \in Nat /\ Mark(r) \in Int /\ Base \in Nat
           /\ Tokens(r) = Edge - Mark(r) /\ Tokens(r) \in Nat /\ Tokens(r) <= buffer_size
           /\ Mark(r) >= Base - cfg.delay[r]
           /\ Edge >= Base + cfg.delay[Driver]
           /\ buffer_size \in Nat \ {0}
           /\ cfg.delay[r] \in Nat /\ cfg.delay[Driver] \in Nat
           /\ \A i \in Int : Position(r, i) = Mark(r) + i /\ Position(Driver, i) = Edge + i
           /\ buffer_offsets[r] = -cfg.delay[r] /\ r # Driver
           /\ cfg.rate[r] \in Nat \ {0} /\ cfg.rate[Driver] \in Nat \ {0}
<1>1. r \in Ports /\ Driver \in Ports /\ r # Driver
  BY SignalAssumption DEF Ports
<1>2. /\ Calls(Driver) * cfg.rate[Driver] \in Nat /\ Calls(r) * cfg.rate[r] \in Nat
      /\ Base \in Nat /\ Calls(Driver) * cfg.rate[Driver] >= Base
      /\ Calls(r) * cfg.rate[r] >= Base
  BY <1>1, CallPositions DEF Base
<1>3. /\ cfg.delay[r] \in Nat /\ cfg.delay[Driver] \in Nat
      /\ cfg.rate[r] \in Nat \ {0} /\ cfg.rate[Driver] \in Nat \ {0}
  BY <1>1, ConfigTypes DEF RingInv
<1>4. Tokens(r) = Calls(Driver) * cfg.rate[Driver] + cfg.delay[Driver]
                  - Calls(r) * cfg.rate[r] + cfg.delay[r]
  BY TokensByDelay
<1>5. buffer_size \in Nat \ {0}
  BY SizeBounds DEF RingInv
<1>6. Tokens(r) \in 0..buffer_size
  BY RingInvImplies DEF RingIsLargeEnough
<1>7. buffer_offsets[r] = -cfg.delay[r] /\ buffer_offsets[Driver] = cfg.delay[Driver]
  BY <1>1 DEF RingInv, Offsets
<1> DEFINE w == Calls(Driver) * cfg.rate[Driver]
           n == Calls(r) * cfg.rate[r]
<1>8. Edge = w + cfg.delay[Driver] /\ Mark(r) = n - cfg.delay[r]
  BY DEF Edge, Mark
<1>9. \A i : Position(r, i) = n + i + buffer_offsets[r]
             /\ Position(Driver, i) = w + i + buffer_offsets[Driver]
  BY DEF Position
<1> HIDE DEF w, n
<1>10. w \in Nat /\ n \in Nat /\ w >= Base /\ n >= Base
       /\ Tokens(r) = w + cfg.delay[Driver] - n + cfg.delay[r]
  BY <1>2, <1>4 DEF w, n
<1>11. \A i \in Int : Position(r, i) = Mark(r) + i /\ Position(Driver, i) = Edge + i
  BY <1>3, <1>7, <1>8, <1>9, <1>10
<1> QED
  BY <1>1, <1>2, <1>3, <1>5, <1>6, <1>7, <1>8, <1>10, <1>11, SMTT(30)

TokensAreDistance == \A r \in Readers : Tokens(r) = Edge - Mark(r)

LEMMA TokensNext == RingInv' => TokensAreDistance'
<1>1. RingInv => TokensAreDistance
  BY Marks DEF TokensAreDistance
<1> QED
  BY <1>1, PTL

\* At the border of a period exactly the delay samples are on the way.
LEMMA BorderMarks ==
    ASSUME RingInv, phase # "run", NEW r \in Readers
    PROVE  /\ Mark(r) = Base - cfg.delay[r]
           /\ Edge = Base + cfg.delay[Driver]
           /\ Tokens(r) = cfg.delay[r] + cfg.delay[Driver]
<1>1. r \in Ports /\ Driver \in Ports
  BY DEF Ports
<1>2. ASSUME NEW p \in Ports PROVE Calls(p) * cfg.rate[p] = Base
  <2>1. /\ cfg.calls[p] \in Nat /\ cfg.rate[p] \in Nat /\ period - 1 \in Nat
        /\ cfg.rate[p] * cfg.calls[p] = SamplesPerPeriod(cfg)
        /\ call_counter[p] \in Int
    BY ConfigTypes DEF RingInv
  <2>2. Calls(p) = (period - 1) * cfg.calls[p]
    <3>1. CASE phase = "initialize"
      BY <2>1, <3>1 DEF RingInv, CallsInPeriod, Calls
    <3>2. CASE phase # "initialize"
      <4>1. CallsDone(p) = 0 /\ Calls(p) = call_counter[p]
        BY <3>2, CallsSplit DEF RingInv, CallsInPeriod
      <4>2. (period - 1) * cfg.calls[p] \in Int
        BY <2>1
      <4> QED
        BY <2>1, <4>1, <4>2 DEF CallsDone
    <3> QED
      BY <3>1, <3>2
  <2>3. \A k, c, s \in Nat : (k * c) * s = k * (s * c)
    OBVIOUS
  <2> QED
    BY <2>1, <2>2, <2>3 DEF Base
<1>3. Mark(r) = Base - cfg.delay[r] /\ Edge = Base + cfg.delay[Driver]
  BY <1>1, <1>2 DEF Mark, Edge
<1> QED
  BY <1>3, Marks

\* One call of the driver, one of a reader.
LEMMA WriteMarks ==
    ASSUME RingInv, WriteCall, NEW r \in Readers
    PROVE  /\ Edge' = Edge + cfg.rate[Driver] /\ Mark(r)' = Mark(r)
           /\ Tokens(r)' = Tokens(r) + cfg.rate[Driver]
           /\ Base' = Base /\ cfg' = cfg
<1>1. /\ UNCHANGED <<scenario, cfg, phase, period, buffer_size, buffer_offsets>>
      /\ CanCall(Driver) /\ Driver \in Ports
      /\ call_counter' = [call_counter EXCEPT ![Driver] = @ + 1]
  BY DEF WriteCall, delayVars, Ports
<1>2. /\ Calls(Driver)' * cfg.rate[Driver] = Calls(Driver) * cfg.rate[Driver] + cfg.rate[Driver]
      /\ \A p \in Ports \ {Driver} : Calls(p)' = Calls(p)
  BY <1>1, CallStep
<1>3. r \in Ports \ {Driver}
  BY SignalAssumption DEF Ports
<1>4. Mark(r)' = Mark(r)
  BY <1>1, <1>2, <1>3 DEF Mark
<1>5. Edge' = Edge + cfg.rate[Driver]
  <2>1. /\ Calls(Driver) * cfg.rate[Driver] \in Nat /\ cfg.rate[Driver] \in Nat
        /\ cfg.delay[Driver] \in Nat
    BY <1>1, CallPositions, ConfigTypes DEF RingInv
  <2> QED
    BY <1>1, <1>2, <2>1 DEF Edge
<1>6. Tokens(r)' = Edge' - Mark(r)'
  BY WriteCallInv, TokensNext DEF TokensAreDistance
<1> QED
  BY <1>1, <1>4, <1>5, <1>6, Marks DEF Base, SamplesPerPeriod

LEMMA ReadMarks ==
    ASSUME RingInv, NEW q \in Readers, ReadCall(q), NEW r \in Readers
    PROVE  /\ Edge' = Edge /\ Mark(q)' = Mark(q) + cfg.rate[q]
           /\ r # q => Mark(r)' = Mark(r) /\ Tokens(r)' = Tokens(r)
           /\ Tokens(q)' = Tokens(q) - cfg.rate[q]
           /\ Base' = Base /\ cfg' = cfg
<1>1. /\ UNCHANGED <<scenario, cfg, phase, period, buffer_size, buffer_offsets>>
      /\ CanCall(q) /\ q \in Ports /\ Driver \in Ports \ {q}
      /\ call_counter' = [call_counter EXCEPT ![q] = @ + 1]
  BY SignalAssumption DEF ReadCall, ringVars, delayVars, Ports
<1>2. /\ Calls(q)' * cfg.rate[q] = Calls(q) * cfg.rate[q] + cfg.rate[q]
      /\ \A p \in Ports \ {q} : Calls(p)' = Calls(p)
  BY <1>1, CallStep
<1>3. Edge' = Edge
  BY <1>1, <1>2 DEF Edge
<1>4. r # q => Mark(r)' = Mark(r)
  BY <1>1, <1>2 DEF Mark, Ports
<1>5. Mark(q)' = Mark(q) + cfg.rate[q]
  <2>1. /\ Calls(q) * cfg.rate[q] \in Nat /\ cfg.rate[q] \in Nat
        /\ cfg.delay[q] \in Nat
    BY <1>1, CallPositions, ConfigTypes DEF RingInv
  <2> QED
    BY <1>1, <1>2, <2>1 DEF Mark
<1>6. Tokens(r)' = Edge' - Mark(r)' /\ Tokens(q)' = Edge' - Mark(q)'
  BY ReadCallInv, TokensNext DEF TokensAreDistance
<1>7. Tokens(r) = Edge - Mark(r) /\ Tokens(q) = Edge - Mark(q) /\ Edge \in Nat
      /\ Mark(r) \in Int /\ Mark(q) \in Int /\ cfg.rate[q] \in Nat
  BY Marks
<1> QED
  BY <1>1, <1>3, <1>4, <1>5, <1>6, <1>7 DEF Base, SamplesPerPeriod

-------------------------------------------------------------------------------
(* The storage has the shape every access takes for granted *)

\* The ring is as large as its size, and the delay samples of the start phase
\* end where the ring begins.
ShapeInv ==
  /\ buffer_is_quick = (buffer_size = 1)
  /\ DOMAIN store = (IF buffer_is_quick THEN {} ELSE 0..buffer_size - 1)
  /\ indelay_start_sample \in Nat /\ indelay_start_sample <= Base
  /\ DOMAIN in_delay_buffer = Readers
  /\ \A r \in Readers : HasLen(in_delay_buffer[r], cfg.delay[r])
  /\ written \in Nat

\* The shortcut is taken only where one sample is on the way and nothing disturbs it.
ShortcutInv ==
  /\ quick_access_enabled \in BOOLEAN /\ quick_access_possible \in BOOLEAN
  /\ force_value_flag \in BOOLEAN /\ scheduled_force_value_flag \in BOOLEAN
  /\ quick_access_enabled => quick_access_possible
  /\ quick_access_possible =>
       /\ single /\ MayBeSingle(cfg)
       /\ ~scenario.traced /\ ~scenario.disturbed /\ scenario.changes = {}
       /\ \A r \in Readers : Tokens(r) <= 1
  /\ ~scenario.disturbed => force_proc = "none" /\ ~force_value_flag

SignalInv == RingInv /\ ShapeInv /\ ShortcutInv

LEMMA ShapeInit == Init => ShapeInv
<1> SUFFICES ASSUME Init PROVE ShapeInv
  OBVIOUS
<1>1. RingInv
  BY InitInv
<1>2. IsConfig(cfg) /\ period = 1 /\ buffer_size = BufferSize(cfg)
  BY <1>1 DEF RingInv, Init
<1>3. SamplesPerPeriod(cfg) \in Nat /\ BufferSize(cfg) \in Nat \ {0}
  BY <1>2, SizeBounds
<1>4. Base = 0
  BY <1>2, <1>3 DEF Base
<1>5. DOMAIN store = (IF buffer_is_quick THEN {} ELSE 0..buffer_size - 1)
  <2>1. CASE buffer_size = 1
    <3>1. store = << >> /\ buffer_is_quick
      BY <2>1 DEF Init, create_buffer
    <3> QED
      BY <3>1
  <2>2. CASE buffer_size # 1
    <3>1. store = [i \in 0..buffer_size - 1 |-> 0] /\ ~buffer_is_quick
      BY <2>2 DEF Init, create_buffer
    <3> QED
      BY <3>1
  <2> QED
    BY <2>1, <2>2
<1>6. buffer_is_quick = (buffer_size = 1)
  BY DEF Init, create_buffer
<1>7. indelay_start_sample = 0 /\ written = 0
  BY DEF Init, InitDelays
<1>8. in_delay_buffer = [r \in Readers |-> [i \in 1..cfg.delay[r] |-> Unset]]
  BY DEF Init, InitDelays
<1>9. \A r \in Readers : HasLen(in_delay_buffer[r], cfg.delay[r])
  BY <1>8 DEF HasLen
<1> QED
  BY <1>4, <1>5, <1>6, <1>7, <1>8, <1>9 DEF ShapeInv

\* Steps that leave the storage alone: no period border lies behind it.
LEMMA ShapeQuiet ==
    ASSUME ShapeInv, RingInv,
           UNCHANGED <<cfg, ringVars, delayVars, written>>,
           period' \in {period, period + 1}
    PROVE  ShapeInv'
<1>1. /\ period \in Nat \ {0} /\ SamplesPerPeriod(cfg) \in Nat
  BY ConfigTypes DEF RingInv
<1>2. \A k, s \in Nat : (k + 1) * s = k * s + s /\ k * s \in Nat
  OBVIOUS
<1>3. Base' \in {Base, Base + SamplesPerPeriod(cfg)} /\ Base \in Nat
  <2> DEFINE s == SamplesPerPeriod(cfg)
  <2>1. PICK k \in Nat : period - 1 = k
    BY <1>1
  <2>2. period = k + 1 /\ (period' = k + 1 \/ period' = k + 2)
    BY <1>1, <2>1
  <2>3. period' - 1 = k \/ period' - 1 = k + 1
    <3>1. \A n \in Nat : n + 1 - 1 = n /\ n + 2 - 1 = n + 1
      OBVIOUS
    <3>2. CASE period' = k + 1
      BY <3>2
    <3>3. CASE period' = k + 2
      BY <3>3
    <3> QED
      BY <2>2, <3>2, <3>3
  <2>4. Base = k * s /\ Base' = (period' - 1) * s
    BY <2>1 DEF Base, SamplesPerPeriod
  <2> HIDE DEF s
  <2>5. Base' = Base \/ Base' = Base + s
    BY <1>1, <1>2, <2>3, <2>4 DEF s
  <2>6. Base \in Nat
    BY <1>1, <1>2, <2>4 DEF s
  <2> QED
    BY <2>5, <2>6 DEF s
<1>4. indelay_start_sample \in Nat /\ indelay_start_sample <= Base
  BY DEF ShapeInv
<1>5. indelay_start_sample' <= Base'
  BY <1>1, <1>3, <1>4 DEF delayVars
<1> QED
  BY <1>5 DEF ShapeInv, ringVars, delayVars, HasLen

LEMMA NewInDelayLen ==
    ASSUME NEW c, IsConfig(c), NEW r \in Readers
    PROVE  HasLen(NewInDelay(r, c), c.delay[r])
BY DEF NewInDelay, HasLen

\* initialize() of a reader in reinitialize() starts the start phase anew where
\* the period begins.
LEMMA StartOfPeriod ==
    ASSUME RingInv, phase # "run", NEW r \in Readers
    PROVE  /\ call_counter[r] < 0 => phase = "initialize" /\ Base = 0
           /\ call_counter[r] >= 0 =>
                (call_counter[r] \div cfg.calls[r]) * SamplesPerPeriod(cfg) = Base
<1>1. /\ cfg.calls[r] \in Nat \ {0} /\ period - 1 \in Nat /\ call_counter[r] \in Int
      /\ SamplesPerPeriod(cfg) \in Nat
  BY ConfigTypes DEF RingInv, Ports
<1>2. CASE phase = "initialize"
  <2>1. call_counter[r] = -1 /\ period = 1
    BY <1>2 DEF RingInv, CallsInPeriod, Ports
  <2> QED
    BY <1>1, <1>2, <2>1 DEF Base
<1>3. CASE phase # "initialize"
  <2>1. CallsDone(r) = 0
    BY <1>3 DEF RingInv, CallsInPeriod, Ports
  <2>2. call_counter[r] = (period - 1) * cfg.calls[r]
    <3>1. (period - 1) * cfg.calls[r] \in Int
      BY <1>1
    <3> QED
      BY <1>1, <2>1, <3>1 DEF CallsDone
  <2>3. \A k \in Nat, c \in Nat \ {0} : (k * c) \div c = k /\ k * c >= 0
    OBVIOUS
  <2>4. call_counter[r] \div cfg.calls[r] = period - 1 /\ call_counter[r] >= 0
    BY <1>1, <2>2, <2>3
  <2> QED
    BY <1>1, <2>4 DEF Base
<1> QED
  BY <1>2, <1>3

LEMMA ShapeInitialize ==
    ASSUME RingInv, ShapeInv, NEW p \in Ports, NEW k \in 0..cfg.delay[p] - 1, initialize(p, k)
    PROVE  ShapeInv'
<1>1. /\ UNCHANGED <<cfg, period, buffer_size, buffer_is_quick, written>>
      /\ phase # "run"
  BY DEF initialize, clusterVars
<1>2. Base' = Base /\ Base \in Nat
  <2>1. Base' = Base
    BY <1>1 DEF Base, SamplesPerPeriod
  <2>2. Readers # {}
    BY SignalAssumption
  <2> QED
    BY <2>1, <2>2, Marks
<1>3. CASE p = Driver
  <2>1. InitializeDriver(k)
    BY <1>3 DEF initialize
  <2>2. DOMAIN store' = DOMAIN store
    BY <2>1 DEF InitializeDriver
  <2>3. UNCHANGED delayVars
    BY <2>1 DEF InitializeDriver
  <2> QED
    BY <1>1, <1>2, <2>2, <2>3 DEF ShapeInv, delayVars, HasLen
<1>4. CASE p # Driver
  <2> DEFINE idstart == (call_counter[p] \div cfg.calls[p]) * SamplesPerPeriod(cfg)
             renew   == call_counter[p] >= 0 /\ indelay_start_sample < idstart
             start   == IF renew THEN idstart ELSE indelay_start_sample
             buffers == IF renew THEN [q \in Readers |-> NewInDelay(q, cfg)] ELSE in_delay_buffer
             index   == IF call_counter[p] < 0 THEN k
                        ELSE Position(p, 0) + k - start - buffer_offsets[p]
  <2>1. p \in Readers
    BY <1>4 DEF Ports
  <2>2. /\ in_delay_buffer' = [buffers EXCEPT ![p][index + 1] = Preset]
        /\ indelay_start_sample' = start /\ UNCHANGED <<store, buffer_offsets>>
    BY <1>4 DEF initialize, InitializeReader
  <2>3. renew => idstart = Base
    BY <1>1, <2>1, StartOfPeriod
  <2>4. start \in Nat /\ start <= Base
    <3> HIDE DEF idstart, renew
    <3> QED
      BY <1>2, <2>3 DEF ShapeInv
  <2>5. DOMAIN buffers = Readers /\ \A r \in Readers : HasLen(buffers[r], cfg.delay[r])
    <3>1. CASE renew
      <4>1. buffers = [q \in Readers |-> NewInDelay(q, cfg)]
        BY <3>1
      <4> HIDE DEF buffers
      <4>2. \A r \in Readers : HasLen(NewInDelay(r, cfg), cfg.delay[r])
        BY NewInDelayLen DEF RingInv
      <4> QED
        BY <4>1, <4>2
    <3>2. CASE ~renew
      <4>1. buffers = in_delay_buffer
        BY <3>2
      <4> HIDE DEF buffers
      <4> QED
        BY <4>1 DEF ShapeInv
    <3> QED
      BY <3>1, <3>2
  <2> HIDE DEF idstart, renew, start, buffers, index
  <2>6. DOMAIN in_delay_buffer' = Readers
    BY <2>2, <2>5
  <2>7. ASSUME NEW r \in Readers PROVE HasLen(in_delay_buffer'[r], cfg.delay[r])
    <3>1. CASE r = p
      <4>1. in_delay_buffer'[r] = [buffers[r] EXCEPT ![index + 1] = Preset]
        BY <2>1, <2>2, <2>5, <3>1
      <4>2. buffers[r] = [i \in 1..cfg.delay[r] |-> buffers[r][i]]
        BY <2>5 DEF HasLen
      <4>3. DOMAIN buffers[r] = 1..cfg.delay[r]
        BY <4>2
      <4> QED
        BY <4>1, <4>3 DEF HasLen
    <3>2. CASE r # p
      <4>1. in_delay_buffer'[r] = buffers[r]
        BY <2>1, <2>2, <2>5, <3>2
      <4> QED
        BY <4>1, <2>5
    <3> QED
      BY <3>1, <3>2
  <2>8. store' = store /\ indelay_start_sample' \in Nat /\ indelay_start_sample' <= Base'
    BY <2>2, <2>4, <1>2
  <2> QED
    BY <1>1, <2>6, <2>7, <2>8 DEF ShapeInv
<1> QED
  BY <1>3, <1>4

LEMMA ShapeWrite == ASSUME RingInv, ShapeInv, WriteCall PROVE ShapeInv'
<1>1. UNCHANGED <<cfg, period, buffer_size, buffer_is_quick, delayVars>>
  BY DEF WriteCall
<1>2. Base' = Base
  BY <1>1 DEF Base, SamplesPerPeriod
<1>3. DOMAIN store' = DOMAIN store
  <2>1. CASE buffer_is_quick
    BY <2>1 DEF WriteCall
  <2>2. CASE ~buffer_is_quick
    BY <2>2 DEF WriteCall
  <2> QED
    BY <2>1, <2>2
<1>4. written' \in Nat
  <2>1. written' = written + cfg.rate[Driver] /\ cfg.rate[Driver] \in Nat
    BY ConfigTypes DEF WriteCall, RingInv
  <2> QED
    BY <2>1 DEF ShapeInv
<1> QED
  BY <1>1, <1>2, <1>3, <1>4 DEF ShapeInv, delayVars, HasLen

LEMMA ShapeReschedule ==
    ASSUME RingInv, ShapeInv, NEW c, IsConfig(c), reschedule_cluster(c), SafeChange(cfg, c)
    PROVE  ShapeInv'
<1>1. /\ cfg' = c /\ period' = 2 /\ written' = written /\ resize_buffer(c)
  BY DEF reschedule_cluster
<1>2. SamplesPerPeriod(c) \in Nat /\ Base' = SamplesPerPeriod(c)
  <2>1. SamplesPerPeriod(c) \in Nat
    BY SizeBounds
  <2>2. Base' = (2 - 1) * SamplesPerPeriod(c)
    BY <1>1 DEF Base, SamplesPerPeriod
  <2> QED
    BY <2>1, <2>2
<1>3. indelay_start_sample' \in Nat /\ indelay_start_sample' <= Base'
  BY <1>1, <1>2 DEF resize_buffer
<1>4. /\ DOMAIN in_delay_buffer' = Readers
      /\ \A r \in Readers : HasLen(in_delay_buffer'[r], cfg'.delay[r])
  <2>1. CASE reinitialize_indelays(c)
    <3>1. in_delay_buffer' = [r \in Readers |-> NewInDelay(r, c)]
      BY <2>1 DEF reinitialize_indelays
    <3>2. \A r \in Readers : HasLen(NewInDelay(r, c), c.delay[r])
      BY NewInDelayLen
    <3> QED
      BY <1>1, <3>1, <3>2
  <2>2. CASE c.delay = cfg.delay /\ UNCHANGED in_delay_buffer
    BY <1>1, <2>2 DEF ShapeInv
  <2> QED
    BY <1>1, <2>1, <2>2 DEF resize_buffer
<1>5. buffer_size = BufferSize(cfg) /\ IsConfig(cfg)
  BY DEF RingInv
<1>6. /\ buffer_is_quick' = (buffer_size' = 1)
      /\ DOMAIN store' = (IF buffer_is_quick' THEN {} ELSE 0..buffer_size' - 1)
  <2>1. CASE UNCHANGED ringVars
    BY <2>1 DEF ShapeInv, ringVars
  <2>2. CASE /\ buffer_size' = BufferSize(c)
             /\ IF BufferSize(c) = buffer_size THEN UNCHANGED <<store, buffer_is_quick>>
                ELSE /\ buffer_is_quick' = (BufferSize(c) = 1)
                     /\ store' = IF BufferSize(c) = 1 THEN << >>
                                 ELSE [i \in 0..BufferSize(c) - 1 |-> Unset]
    <3>1. CASE BufferSize(c) = buffer_size
      BY <2>2, <3>1 DEF ShapeInv
    <3>2. CASE BufferSize(c) # buffer_size /\ BufferSize(c) = 1
      <4>1. store' = << >> /\ buffer_is_quick' = TRUE /\ buffer_size' = 1
        BY <2>2, <3>2
      <4>2. DOMAIN store' = {}
        BY <4>1
      <4> QED
        BY <4>1, <4>2
    <3>3. CASE BufferSize(c) # buffer_size /\ BufferSize(c) # 1
      <4>1. /\ store' = [i \in 0..buffer_size' - 1 |-> Unset]
            /\ ~buffer_is_quick' /\ buffer_size' # 1
        BY <2>2, <3>3
      <4>2. buffer_is_quick' \in BOOLEAN
        BY <2>2, <3>3
      <4> QED
        BY <4>1, <4>2, <2>2, <3>3
    <3> QED
      BY <3>1, <3>2, <3>3
  <2>3. CASE /\ ~NoDelay(c) /\ buffer_size' = BufferSize(c)
             /\ buffer_is_quick' = (buffer_size = 1)
             /\ store' = IF buffer_size = 1 THEN << >> ELSE NewStore(c)
    <3>1. BufferSize(cfg) > 1
      BY <2>3 DEF SafeChange
    <3>2. buffer_size # 1
      BY <3>1, <1>5, SizeBounds
    <3>3. store' = NewStore(c) /\ buffer_is_quick' = FALSE
      BY <2>3, <3>2
    <3>4. BufferSize(c) # 1
      BY <2>3, SizeBounds
    <3>5. DOMAIN NewStore(c) = 0..BufferSize(c) - 1
      BY DEF NewStore
    <3> QED
      BY <2>3, <3>3, <3>4, <3>5
  <2> QED
    BY <1>1, <2>1, <2>2, <2>3 DEF resize_buffer
<1> QED
  BY <1>1, <1>3, <1>4, <1>6 DEF ShapeInv

-------------------------------------------------------------------------------
(* The shortcut *)

LEMMA ShortcutInit == Init /\ SafeScenario(scenario) => ShortcutInv
<1> SUFFICES ASSUME Init, SafeScenario(scenario) PROVE ShortcutInv
  OBVIOUS
<1>1. RingInv
  BY InitInv
<1>2. /\ quick_access_possible = (single /\ ~scenario.traced)
      /\ quick_access_enabled = (quick_access_possible /\ NoDelay(cfg))
      /\ force_value_flag = FALSE /\ scheduled_force_value_flag = FALSE
      /\ force_proc = "none" /\ phase = "initialize"
      /\ cfg = scenario.start /\ single \in BOOLEAN /\ (single => MayBeSingle(cfg))
  BY DEF Init
<1>3. quick_access_possible \in BOOLEAN /\ quick_access_enabled \in BOOLEAN
  BY <1>2
<1>4. ASSUME quick_access_possible
      PROVE  /\ single /\ MayBeSingle(cfg)
             /\ ~scenario.traced /\ ~scenario.disturbed /\ scenario.changes = {}
  BY <1>2, <1>4 DEF SafeScenario
<1>5. ASSUME quick_access_possible, NEW r \in Readers PROVE Tokens(r) <= 1
  <2>1. Tokens(r) = cfg.delay[r] + cfg.delay[Driver]
    BY <1>1, <1>2, BorderMarks
  <2>2. MaxInDelay(cfg) + cfg.delay[Driver] <= 1
    BY <1>4, <1>5 DEF MayBeSingle
  <2>3. /\ cfg.delay[r] <= MaxInDelay(cfg) /\ MaxInDelay(cfg) \in Nat
        /\ cfg.delay[r] \in Nat /\ cfg.delay[Driver] \in Nat
    BY <1>1, MaxInDelayBounds, Marks DEF RingInv
  <2> QED
    BY <2>1, <2>2, <2>3
<1> QED
  BY <1>2, <1>3, <1>4, <1>5 DEF ShortcutInv

\* Steps that make no call and do not touch the shortcut.
LEMMA ShortcutQuiet ==
    ASSUME ShortcutInv,
           UNCHANGED <<scenario, cfg, single, buffer_offsets, quickVars, force_value_flag,
                       scheduled_force_value_flag>>,
           \A p \in Ports : Calls(p)' = Calls(p),
           force_proc = "none" => force_proc' = "none"
    PROVE  ShortcutInv'
<1>1. \A r \in Readers : Tokens(r)' = Tokens(r)
  BY DEF Tokens, Ports
<1>2. MayBeSingle(cfg)' = MayBeSingle(cfg)
  BY DEF MayBeSingle, MaxInDelay
<1> QED
  BY <1>1, <1>2 DEF ShortcutInv, quickVars

\* Values are forced and traced interactively only where the shortcut is closed.
LEMMA ShortcutDisturbed ==
    ASSUME ShortcutInv,
           \/ force_forced_value \/ release_value
           \/ force_trigger_process \/ get_number_of_trace_value_sample
    PROVE  ShortcutInv'
<1>1. scenario' = scenario /\ scenario.disturbed
  BY DEF force_forced_value, release_value, force_trigger_process,
         get_number_of_trace_value_sample, clusterVars, Disturbed, ShortcutInv
<1>2. ~quick_access_possible /\ ~quick_access_enabled
  BY <1>1 DEF ShortcutInv
<1>3. /\ quick_access_possible' = FALSE /\ quick_access_enabled' = FALSE
      /\ force_value_flag' \in BOOLEAN /\ scheduled_force_value_flag' \in BOOLEAN
  <2>1. CASE force_forced_value
    BY <1>2, <2>1 DEF force_forced_value, ShortcutInv
  <2>2. CASE release_value
    BY <1>2, <2>2 DEF release_value, ShortcutInv
  <2>3. CASE force_trigger_process
    BY <1>2, <2>3 DEF force_trigger_process, ShortcutInv
  <2>4. CASE get_number_of_trace_value_sample
    BY <1>2, <2>4 DEF get_number_of_trace_value_sample, ShortcutInv, forceVars
  <2> QED
    BY <2>1, <2>2, <2>3, <2>4
<1> QED
  BY <1>1, <1>3 DEF ShortcutInv

LEMMA ShortcutWrite == ASSUME RingInv, ShortcutInv, WriteCall PROVE ShortcutInv'
<1>1. UNCHANGED <<scenario, cfg, single, quickVars, forceVars>>
  BY DEF WriteCall
<1>2. MayBeSingle(cfg)' = MayBeSingle(cfg)
  BY <1>1 DEF MayBeSingle, MaxInDelay
<1>3. ASSUME quick_access_possible, NEW r \in Readers PROVE Tokens(r)' <= 1
  <2>1. Tokens(r) + cfg.rate[Driver] <= 1
    BY <1>3 DEF WriteCall, ShortcutInv
  <2> QED
    BY <2>1, WriteMarks
<1> QED
  BY <1>1, <1>2, <1>3 DEF ShortcutInv, quickVars, forceVars

LEMMA ShortcutRead ==
    ASSUME RingInv, ShortcutInv, NEW q \in Readers, ReadCall(q)
    PROVE  ShortcutInv'
<1>1. UNCHANGED <<scenario, cfg, single, quick_access_possible, forceVars>>
  BY DEF ReadCall
<1>2. MayBeSingle(cfg)' = MayBeSingle(cfg)
  BY <1>1 DEF MayBeSingle, MaxInDelay
<1>3. ASSUME quick_access_possible, NEW r \in Readers PROVE Tokens(r)' <= 1
  <2>1. Tokens(r) <= 1 /\ Tokens(q) <= 1
    BY <1>3 DEF ShortcutInv
  <2>2. Tokens(q)' = Tokens(q) - cfg.rate[q] /\ (r # q => Tokens(r)' = Tokens(r))
    BY ReadMarks
  <2>3. cfg.rate[q] \in Nat /\ Tokens(q) \in Nat
    BY Marks
  <2> QED
    BY <2>1, <2>2, <2>3
<1>4. quick_access_enabled' \in BOOLEAN /\ (quick_access_enabled' => quick_access_possible)
  <2>1. CASE quick_access_enabled' = quick_access_enabled
    BY <2>1 DEF ShortcutInv
  <2>2. CASE quick_access_enabled' = (quick_access_enabled \/ SwitchesAt(q) # {})
    <3>1. SwitchesAt(q) # {} => quick_access_possible
      BY DEF SwitchesAt
    <3> QED
      BY <2>2, <3>1 DEF ShortcutInv
  <2> QED
    BY <2>1, <2>2 DEF ReadCall
<1> QED
  BY <1>1, <1>2, <1>3, <1>4 DEF ShortcutInv, forceVars

-------------------------------------------------------------------------------

LEMMA SignalInit == Init /\ SafeScenario(scenario) => SignalInv
BY InitInv, ShapeInit, ShortcutInit DEF SignalInv

LEMMA SignalNext ==
    ASSUME SignalInv, SafeScenario(scenario), [Next]_vars
    PROVE  SignalInv' /\ SafeScenario(scenario)'
<1>1. scenario' = scenario
  BY DEF Next, vars, clusterVars, initialize, StartPeriod, WriteCall, ReadCall, EndPeriod,
         KeepSchedule, reschedule_cluster, force_forced_value, release_value,
         force_trigger_process, get_number_of_trace_value_sample, Rest
<1>2. SafeScenario(scenario)'
  BY <1>1 DEF SafeScenario
<1>3. RingInv /\ ShapeInv /\ ShortcutInv
  BY DEF SignalInv
<1>4. RingInv'
  BY <1>3, NextInv
<1>5. \A p \in Ports : Calls(p) \in Nat /\ (phase # "initialize" => Calls(p) = call_counter[p])
  BY <1>3, CallsSplit
<1>6. ASSUME NEW p \in Ports, NEW k \in 0..cfg.delay[p] - 1, initialize(p, k)
      PROVE  ShapeInv' /\ ShortcutInv'
  <2>1. ShapeInv'
    BY <1>3, <1>6, ShapeInitialize
  <2>2. UNCHANGED <<clusterVars, quickVars, forceVars, buffer_offsets>>
    BY <1>6 DEF initialize, InitializeDriver, InitializeReader, delayVars
  <2>3. ShortcutInv'
    BY <1>3, <2>2, ShortcutQuiet DEF clusterVars, forceVars, Calls
  <2> QED
    BY <2>1, <2>3
<1>7. ASSUME StartPeriod PROVE ShapeInv' /\ ShortcutInv'
  <2>1. ShapeInv'
    BY <1>3, <1>7, ShapeQuiet DEF StartPeriod
  <2>2. \A p \in Ports : Calls(p)' = Calls(p)
    <3>1. call_counter' = [p \in Ports |-> Calls(p)]
      BY <1>7 DEF StartPeriod
    <3> QED
      BY <1>5, <3>1 DEF Calls
  <2>3. ShortcutInv'
    BY <1>3, <1>7, <2>2, ShortcutQuiet DEF StartPeriod, forceVars, delayVars
  <2> QED
    BY <2>1, <2>3
<1>8. ASSUME WriteCall PROVE ShapeInv' /\ ShortcutInv'
  BY <1>3, <1>8, ShapeWrite, ShortcutWrite
<1>9. ASSUME NEW q \in Readers, ReadCall(q) PROVE ShapeInv' /\ ShortcutInv'
  <2>1. ShapeInv'
    BY <1>3, <1>9, ShapeQuiet DEF ReadCall
  <2> QED
    BY <1>3, <1>9, <2>1, ShortcutRead
<1>10. ASSUME EndPeriod PROVE ShapeInv' /\ ShortcutInv'
  <2>1. ShapeInv'
    BY <1>3, <1>10, ShapeQuiet DEF EndPeriod
  <2>2. UNCHANGED <<scenario, cfg, single, call_counter, buffer_offsets, quickVars,
                    force_value_flag, scheduled_force_value_flag>>
    BY <1>10 DEF EndPeriod, delayVars
  <2>3. force_proc = "none" => force_proc' = "none"
    BY <1>10 DEF EndPeriod
  <2>4. ShortcutInv'
    BY <1>3, <2>2, <2>3, ShortcutQuiet DEF Calls
  <2> QED
    BY <2>1, <2>4
<1>11. ASSUME KeepSchedule PROVE ShapeInv' /\ ShortcutInv'
  <2>1. ShapeInv'
    BY <1>3, <1>11, ShapeQuiet DEF KeepSchedule
  <2>2. UNCHANGED <<scenario, cfg, single, call_counter, buffer_offsets, quickVars, forceVars>>
    BY <1>11 DEF KeepSchedule, delayVars
  <2>3. ShortcutInv'
    BY <1>3, <2>2, ShortcutQuiet DEF Calls, forceVars
  <2> QED
    BY <2>1, <2>3
<1>12. ASSUME NEW e \in scenario.changes, e[1] = cfg, reschedule_cluster(e[2])
       PROVE  ShapeInv' /\ ShortcutInv'
  <2>1. IsConfig(e[2]) /\ SafeChange(cfg, e[2])
    <3>1. scenario \in Scenarios
      BY <1>3 DEF RingInv
    <3> QED
      BY <3>1, <1>12, SignalAssumption DEF IsScenario, SafeScenario
  <2>2. ShapeInv'
    BY <1>3, <1>12, <2>1, ShapeReschedule
  <2>3. ~quick_access_possible /\ ~quick_access_enabled
    BY <1>3, <1>12 DEF ShortcutInv
  <2>4. UNCHANGED <<scenario, quickVars, forceVars>>
    BY <1>12 DEF reschedule_cluster
  <2>5. ShortcutInv'
    BY <1>3, <2>3, <2>4 DEF ShortcutInv, quickVars, forceVars
  <2> QED
    BY <2>2, <2>5
<1>13. ASSUME \/ force_forced_value \/ release_value
              \/ force_trigger_process \/ get_number_of_trace_value_sample
       PROVE  ShapeInv' /\ ShortcutInv'
  <2>1. UNCHANGED <<clusterVars, ringVars, delayVars, written>>
    BY <1>13 DEF force_forced_value, release_value, force_trigger_process,
                 get_number_of_trace_value_sample
  <2>2. ShapeInv'
    BY <1>3, <2>1, ShapeQuiet DEF clusterVars
  <2> QED
    BY <1>3, <1>13, <2>2, ShortcutDisturbed
<1>14. ASSUME UNCHANGED vars PROVE ShapeInv' /\ ShortcutInv'
  <2>1. ShapeInv'
    BY <1>3, <1>14, ShapeQuiet DEF vars, clusterVars
  <2>2. ShortcutInv'
    BY <1>3, <1>14, ShortcutQuiet DEF vars, clusterVars, delayVars, forceVars, Calls
  <2> QED
    BY <2>1, <2>2
<1>15. ASSUME Rest PROVE ShapeInv' /\ ShortcutInv'
  BY <1>14, <1>15 DEF Rest
<1>16. ShapeInv' /\ ShortcutInv'
  BY <1>6, <1>7, <1>8, <1>9, <1>10, <1>11, <1>12, <1>13, <1>14, <1>15 DEF Next
<1> QED
  BY <1>2, <1>4, <1>16 DEF SignalInv

-------------------------------------------------------------------------------
(* The samples on the way *)

LEMMA MaxOne ==
    ASSUME NEW j \in Int
    PROVE  Max({j}) = j
<1>1. j \in {j} /\ \A y \in {j} : j >= y
  OBVIOUS
<1> QED
  BY <1>1 DEF Max

\* A position a reader still has to read is in its own delay or in the ring.
LEMMA WhereSamplesAre ==
    ASSUME SignalInv, NEW r \in Readers, NEW pos \in Int, pos >= Mark(r)
    PROVE  /\ pos < indelay_start_sample =>
                /\ pos - indelay_start_sample + cfg.delay[r] + 1 \in 1..cfg.delay[r]
                /\ ValueAt(r, pos) =
                     in_delay_buffer[r][pos - indelay_start_sample + cfg.delay[r] + 1]
           /\ pos >= indelay_start_sample => pos \in Nat /\ ValueAt(r, pos) = Cell(pos)
           /\ pos >= Base => pos >= indelay_start_sample
<1>1. /\ Mark(r) \in Int /\ Base \in Nat /\ Mark(r) >= Base - cfg.delay[r]
      /\ cfg.delay[r] \in Nat /\ buffer_offsets[r] = -cfg.delay[r]
  BY Marks DEF SignalInv
<1>2. indelay_start_sample \in Nat /\ indelay_start_sample <= Base
  BY DEF SignalInv, ShapeInv
<1>3. pos < indelay_start_sample =>
        pos - indelay_start_sample + cfg.delay[r] + 1 \in 1..cfg.delay[r]
  BY <1>1, <1>2
<1>4. pos - indelay_start_sample - buffer_offsets[r] + 1
        = pos - indelay_start_sample + cfg.delay[r] + 1
  BY <1>1, <1>2
<1>5. pos < indelay_start_sample =>
        ValueAt(r, pos) = in_delay_buffer[r][pos - indelay_start_sample + cfg.delay[r] + 1]
  BY <1>4 DEF ValueAt
<1>6. pos >= indelay_start_sample => pos \in Nat /\ ValueAt(r, pos) = Cell(pos)
  BY <1>2 DEF ValueAt
<1>7. pos >= Base => pos >= indelay_start_sample
  BY <1>1, <1>2
<1> QED
  BY <1>3, <1>5, <1>6, <1>7

\* What the next read of a reader, and the reads after it, return.
PendingFacts ==
  \A r \in Readers :
    /\ HasLen(Pending(r), Tokens(r))
    /\ \A i \in 1..Tokens(r) : ~quick_access_enabled \/ i # 1 =>
         \A pos \in Int : pos = Mark(r) + (i - 1) =>
           /\ pos < indelay_start_sample =>
                /\ pos - indelay_start_sample + cfg.delay[r] + 1 \in 1..cfg.delay[r]
                /\ Pending(r)[i] =
                     in_delay_buffer[r][pos - indelay_start_sample + cfg.delay[r] + 1]
           /\ pos >= indelay_start_sample => pos \in Nat /\ Pending(r)[i] = Cell(pos)
    /\ quick_access_enabled /\ Tokens(r) > 0 => Pending(r)[1] = quick_value

LEMMA PendingIs == SignalInv => PendingFacts
<1> SUFFICES ASSUME SignalInv, NEW r \in Readers
    PROVE /\ HasLen(Pending(r), Tokens(r))
          /\ \A i \in 1..Tokens(r) : ~quick_access_enabled \/ i # 1 =>
               \A pos \in Int : pos = Mark(r) + (i - 1) =>
                 /\ pos < indelay_start_sample =>
                      /\ pos - indelay_start_sample + cfg.delay[r] + 1 \in 1..cfg.delay[r]
                      /\ Pending(r)[i] =
                           in_delay_buffer[r][pos - indelay_start_sample + cfg.delay[r] + 1]
                 /\ pos >= indelay_start_sample => pos \in Nat /\ Pending(r)[i] = Cell(pos)
          /\ quick_access_enabled /\ Tokens(r) > 0 => Pending(r)[1] = quick_value
  BY DEF PendingFacts
<1>1. Tokens(r) \in Nat /\ Mark(r) \in Int /\ \A i \in Int : Position(r, i) = Mark(r) + i
  BY Marks DEF SignalInv
<1>2. HasLen(Pending(r), Tokens(r))
  BY DEF Pending, HasLen
<1>3. ASSUME NEW i \in 1..Tokens(r), ~quick_access_enabled \/ i # 1,
             NEW pos \in Int, pos = Mark(r) + (i - 1)
      PROVE  /\ pos < indelay_start_sample =>
                  /\ pos - indelay_start_sample + cfg.delay[r] + 1 \in 1..cfg.delay[r]
                  /\ Pending(r)[i] =
                       in_delay_buffer[r][pos - indelay_start_sample + cfg.delay[r] + 1]
             /\ pos >= indelay_start_sample => pos \in Nat /\ Pending(r)[i] = Cell(pos)
  <2>1. Position(r, i - 1) = pos /\ pos >= Mark(r)
    BY <1>1, <1>3
  <2>2. Pending(r)[i] = ValueAt(r, pos)
    BY <1>3, <2>1 DEF Pending
  <2> QED
    BY <2>1, <2>2, WhereSamplesAre
<1>4. ASSUME quick_access_enabled, Tokens(r) > 0 PROVE Pending(r)[1] = quick_value
  BY <1>1, <1>4 DEF Pending
<1> QED
  BY <1>2, <1>3, <1>4

LEMMA PendingNext == SignalInv' => PendingFacts'
BY PendingIs, PTL

-------------------------------------------------------------------------------
(* The driver's call appends its samples to every queue *)

LEMMA LargeEnoughNext == RingInv' => RingIsLargeEnough'
<1>1. RingInv => RingIsLargeEnough
  BY RingInvImplies
<1> QED
  BY <1>1, PTL

\* A write changes the cells of its own positions and leaves the others of the
\* window alone.
LEMMA CellsWritten ==
    ASSUME SignalInv, WriteCall, ~quick_access_enabled, ~buffer_is_quick, NEW pos \in Nat
    PROVE  /\ pos < Edge /\ pos >= Edge + cfg.rate[Driver] - buffer_size =>
                store'[pos % buffer_size] = store[pos % buffer_size]
           /\ \A j \in 0..cfg.rate[Driver] - 1 : pos = Edge + j =>
                store'[pos % buffer_size] = written + 1 + j
<1> DEFINE n == cfg.rate[Driver]
           z == buffer_size
           hit(q) == {i \in 0..n-1 : (Edge + i) % z = q}
<1>1. PICK r \in Readers : TRUE
  BY SignalAssumption
<1>2. RingInv /\ RingInv' /\ ShapeInv /\ buffer_size' = buffer_size
  BY WriteCallInv DEF SignalInv, WriteCall
<1>3. /\ Edge \in Nat /\ z \in Nat \ {0} /\ n \in Nat \ {0}
      /\ \A i \in Int : Position(Driver, i) = Edge + i
  BY <1>2, Marks, <1>1
<1>4. n <= z
  <2>1. Tokens(r)' = Tokens(r) + n /\ Tokens(r) \in Nat
    BY <1>2, <1>1, WriteMarks, Marks
  <2>2. Tokens(r)' <= buffer_size'
    BY <1>2, <1>1, LargeEnoughNext DEF RingIsLargeEnough
  <2> QED
    BY <1>2, <1>3, <2>1, <2>2
<1>5. store' = [q \in DOMAIN store |->
                  IF hit(q) = {} THEN store[q] ELSE written + 1 + Max(hit(q))]
  <2>1. 0..n-1 = {i \in 0..n-1 : ~(quick_access_enabled /\ i = 0)}
    OBVIOUS
  <2>2. \A q : {i \in {i \in 0..n-1 : ~(quick_access_enabled /\ i = 0)} :
                   Position(Driver, i) % z = q} = hit(q)
    BY <1>3, <2>1
  <2> QED
    BY <2>2 DEF WriteCall
<1>6. DOMAIN store = 0..z-1
  BY <1>2 DEF ShapeInv
<1>7. pos % z \in 0..z-1
  BY <1>3, DivMod
<1> HIDE DEF n, z
<1>8. ASSUME pos < Edge, pos >= Edge + n - z PROVE store'[pos % z] = store[pos % z]
  <2>1. ASSUME NEW i \in 0..n-1, (Edge + i) % z = pos % z PROVE FALSE
    <3> DEFINE b == Edge + i
    <3>1. b \in Nat /\ b - pos < z /\ pos - b < z /\ b # pos
      BY <1>3, <1>8
    <3>2. b % z = pos % z
      BY <2>1
    <3> HIDE DEF b
    <3> QED
      BY <1>3, <3>1, <3>2, ModWindow
  <2>2. hit(pos % z) = {}
    BY <2>1
  <2> QED
    BY <1>5, <1>6, <1>7, <2>2
<1>9. ASSUME NEW j \in 0..n-1, pos = Edge + j PROVE store'[pos % z] = written + 1 + j
  <2>1. ASSUME NEW i \in 0..n-1, (Edge + i) % z = pos % z PROVE i = j
    <3> DEFINE b == Edge + i
    <3>1. b \in Nat /\ b - pos < z /\ pos - b < z
      BY <1>3, <1>4, <1>9
    <3>2. b % z = pos % z
      BY <2>1
    <3>3. b = Edge + i
      OBVIOUS
    <3> HIDE DEF b
    <3>4. b = pos
      BY <1>3, <3>1, <3>2, ModWindow
    <3> QED
      BY <1>3, <1>9, <3>3, <3>4
  <2>2. hit(pos % z) = {j}
    BY <1>9, <2>1
  <2>3. Max(hit(pos % z)) = j
    BY <2>2, MaxOne
  <2> QED
    BY <1>5, <1>6, <1>7, <2>2, <2>3
<1> QED
  BY <1>8, <1>9 DEF n, z

LEMMA ProduceStep ==
    ASSUME SignalInv, SafeScenario(scenario), WriteCall
    PROVE  Stream!Produce
<1> DEFINE n == cfg.rate[Driver]
           fresh == [i \in 1..n |-> written + i]
<1>1. SignalInv' /\ RingInv /\ ShapeInv /\ ShortcutInv
  BY SignalNext DEF Next, SignalInv
<1>2. PendingFacts /\ PendingFacts'
  BY <1>1, PendingIs, PendingNext
<1>3. /\ UNCHANGED <<cfg, buffer_size, buffer_is_quick, delayVars, quickVars, forceVars, got>>
      /\ written' = written + n
  BY DEF WriteCall
<1>4. ASSUME NEW r \in Readers PROVE Pending(r)' = Pending(r) \o fresh
  <2> DEFINE T == Tokens(r)
             P == Pending(r)
             Q == Pending(r)'
  <2>1. /\ Edge \in Nat /\ Mark(r) \in Int /\ Base \in Nat /\ T = Edge - Mark(r) /\ T \in Nat
        /\ Edge >= Base + cfg.delay[Driver] /\ cfg.delay[Driver] \in Nat
        /\ buffer_size \in Nat \ {0} /\ n \in Nat \ {0}
    BY <1>1, Marks
  <2>2. Tokens(r)' = T + n /\ Mark(r)' = Mark(r) /\ Edge' = Edge + n
    BY <1>1, WriteMarks
  <2>3. T + n <= buffer_size
    BY <1>1, <1>3, <2>2, LargeEnoughNext DEF RingIsLargeEnough, SignalInv
  <2>4. HasLen(P, T) /\ HasLen(Q, T + n) /\ HasLen(fresh, n)
    BY <1>2, <2>2 DEF PendingFacts, HasLen
  <2>5. indelay_start_sample \in Nat /\ indelay_start_sample <= Edge
    BY <1>1, <2>1 DEF ShapeInv
  <2>6. /\ \A i \in 1..T : Q[i] = P[i]
        /\ \A i \in 1..n : Q[T + i] = fresh[i]
    <3>1. CASE quick_access_enabled
      <4>1. n = 1 /\ T = 0
        <5>1. Driver \in Ports
          BY DEF Ports
        <5>2. n = 1 /\ T + n <= 1
          BY <3>1, <1>1, <5>1 DEF ShortcutInv, MayBeSingle, WriteCall
        <5> QED
          BY <5>2, <2>1
      <4>2. Q[1] = quick_value'
        BY <1>2, <1>3, <2>2, <3>1, <4>1 DEF PendingFacts, quickVars
      <4>3. quick_value' = written + 1
        BY <3>1 DEF WriteCall
      <4> QED
        BY <4>1, <4>2, <4>3
    <3>2. CASE ~quick_access_enabled /\ buffer_is_quick
      <4>1. buffer_size = 1
        BY <1>1, <3>2 DEF ShapeInv
      <4>2. n = 1 /\ T = 0
        BY <2>1, <2>3, <4>1
      <4>3. Q[1] = Cell(Edge)'
        <5>1. /\ 1 \in 1..Tokens(r)' /\ Edge \in Int /\ Edge = Mark(r)' + (1 - 1)
              /\ Edge >= indelay_start_sample' /\ ~quick_access_enabled'
          BY <1>3, <2>1, <2>2, <2>5, <3>2, <4>2 DEF quickVars, delayVars
        <5>2. PICK e : e = Edge
          OBVIOUS
        <5>3. Q[1] = Cell(e)'
          BY <1>2, <5>1, <5>2 DEF PendingFacts
        <5>4. Cell(e)' = quick_value' /\ Cell(Edge)' = quick_value'
          BY <1>3, <3>2 DEF Cell
        <5> QED
          BY <5>3, <5>4
      <4>4. Cell(Edge)' = quick_value' /\ quick_value' = written + 1
        BY <1>3, <3>2 DEF Cell, WriteCall
      <4> QED
        BY <4>2, <4>3, <4>4
    <3>3. CASE ~quick_access_enabled /\ ~buffer_is_quick
      <4>1. ASSUME NEW i \in 1..T PROVE Q[i] = P[i]
        <5>1. PICK pos \in Int : pos = Mark(r) + (i - 1)
          BY <2>1
        <5>2. i \in 1..Tokens(r)' /\ pos = Mark(r)' + (i - 1) /\ ~quick_access_enabled'
          BY <1>3, <2>1, <2>2, <3>3, <5>1 DEF quickVars
        <5>3. CASE pos < indelay_start_sample
          <6>1. P[i] = in_delay_buffer[r][pos - indelay_start_sample + cfg.delay[r] + 1]
            BY <1>2, <3>3, <5>1, <5>3 DEF PendingFacts
          <6>2. Q[i] = in_delay_buffer'[r][pos - indelay_start_sample' + cfg'.delay[r] + 1]
            BY <1>2, <1>3, <5>2, <5>3 DEF PendingFacts, delayVars
          <6> QED
            BY <1>3, <6>1, <6>2 DEF delayVars
        <5>4. CASE pos >= indelay_start_sample
          <6>1. P[i] = Cell(pos) /\ pos \in Nat
            BY <1>2, <3>3, <5>1, <5>4 DEF PendingFacts
          <6>2. Q[i] = Cell(pos)'
            BY <1>2, <1>3, <5>2, <5>4 DEF PendingFacts, delayVars
          <6>3. pos < Edge /\ pos >= Edge + n - buffer_size
            BY <2>1, <2>3, <5>1
          <6>4. store'[pos % buffer_size] = store[pos % buffer_size]
            BY <3>3, <6>1, <6>3, CellsWritten
          <6> QED
            BY <1>3, <3>3, <6>1, <6>2, <6>4 DEF Cell
        <5> QED
          BY <2>5, <5>3, <5>4
      <4>2. ASSUME NEW i \in 1..n PROVE Q[T + i] = fresh[i]
        <5>1. PICK pos \in Nat : pos = Edge + (i - 1)
          BY <2>1
        <5>2. T + i \in 1..Tokens(r)' /\ pos = Mark(r)' + ((T + i) - 1) /\ ~quick_access_enabled'
          BY <1>3, <2>1, <2>2, <3>3, <5>1 DEF quickVars
        <5>3. pos >= indelay_start_sample'
          BY <1>3, <2>1, <2>5, <5>1 DEF delayVars
        <5>4. Q[T + i] = Cell(pos)'
          BY <1>2, <5>2, <5>3 DEF PendingFacts
        <5>5. i - 1 \in 0..n-1 /\ written + 1 + (i - 1) = written + i
          BY <1>1, <2>1 DEF ShapeInv
        <5>6. store'[pos % buffer_size] = written + 1 + (i - 1)
          BY <3>3, <5>1, <5>5, CellsWritten
        <5> QED
          BY <1>3, <3>3, <5>4, <5>5, <5>6 DEF Cell
      <4> QED
        BY <4>1, <4>2
    <3> QED
      BY <3>1, <3>2, <3>3
  <2> HIDE DEF T, P, Q, n, fresh
  <2>7. n \in Nat
    BY <2>1
  <2> QED
    BY <2>1, <2>4, <2>6, <2>7, ConcatIs DEF P, Q
<1>5. [r \in Readers |-> Pending(r)]' = [r \in Readers |-> [q \in Readers |-> Pending(q)][r] \o fresh]
  BY <1>4
<1> QED
  BY <1>3, <1>5 DEF Stream!Produce, forceVars

-------------------------------------------------------------------------------
(* A reader's call takes its samples from its own queue *)

\* A call that turns the shortcut on reads the one sample on the way.
LEMMA SwitchReads ==
    ASSUME SignalInv, NEW q \in Readers, ReadCall(q)
    PROVE  /\ SwitchesAt(q) # {} =>
                /\ ~quick_access_enabled /\ quick_access_possible
                /\ cfg.rate[q] = 1 /\ Tokens(q) = 1
                /\ Mark(q) >= indelay_start_sample
                /\ Max(SwitchesAt(q)) = 0 /\ Position(q, 0) = Mark(q)
           /\ quick_access_possible => cfg.rate[q] = 1 /\ Tokens(q) = 1
<1>1. quick_access_possible => cfg.rate[q] = 1 /\ Tokens(q) = 1
  <2> SUFFICES ASSUME quick_access_possible PROVE cfg.rate[q] = 1 /\ Tokens(q) = 1
    OBVIOUS
  <2>1. cfg.rate[q] = 1 /\ Tokens(q) <= 1
    BY DEF SignalInv, ShortcutInv, MayBeSingle, Ports
  <2>2. Tokens(q) >= cfg.rate[q] /\ Tokens(q) \in Nat
    BY Marks DEF ReadCall, SignalInv
  <2> QED
    BY <2>1, <2>2
<1>2. ASSUME SwitchesAt(q) # {}
      PROVE  /\ ~quick_access_enabled /\ quick_access_possible
             /\ cfg.rate[q] = 1 /\ Tokens(q) = 1
             /\ Mark(q) >= indelay_start_sample
             /\ Max(SwitchesAt(q)) = 0 /\ Position(q, 0) = Mark(q)
  <2>1. quick_access_possible
    BY <1>2 DEF SwitchesAt
  <2>2. cfg.rate[q] = 1 /\ Tokens(q) = 1
    BY <1>1, <2>1
  <2>3. SwitchesAt(q) \subseteq {0}
    BY <2>2 DEF SwitchesAt
  <2>4. 0 \in SwitchesAt(q)
    BY <1>2, <2>3
  <2>5. ~quick_access_enabled /\ Position(q, 0) >= indelay_start_sample
    BY <2>1, <2>4 DEF SwitchesAt
  <2>6. Mark(q) \in Int /\ Position(q, 0) = Mark(q) + 0
    BY Marks DEF SignalInv
  <2>7. SwitchesAt(q) = {0}
    BY <2>3, <2>4
  <2>8. Max(SwitchesAt(q)) = 0
    BY <2>7, MaxOne
  <2> QED
    BY <2>1, <2>2, <2>5, <2>6, <2>8
<1> QED
  BY <1>1, <1>2

LEMMA ReadReturns ==
    ASSUME SignalInv, NEW q \in Readers, ReadCall(q)
    PROVE  [i \in 1..cfg.rate[q] |-> read(q, i - 1)] =
             IF force_value_flag THEN [i \in 1..cfg.rate[q] |-> Forced]
             ELSE SubSeq(Pending(q), 1, cfg.rate[q])
<1> DEFINE n == cfg.rate[q]
           reads == [i \in 1..n |-> read(q, i - 1)]
<1>1. n \in Nat \ {0} /\ Tokens(q) \in Nat /\ Tokens(q) >= n
  BY Marks DEF SignalInv, ReadCall
<1>2. CASE force_value_flag
  <2>1. ~quick_access_enabled
    BY <1>2 DEF SignalInv, ShortcutInv
  <2>2. \A i \in 1..n : read(q, i - 1) = Forced
    BY <1>2, <2>1 DEF read
  <2> QED
    BY <1>2, <2>2
<1>3. CASE ~force_value_flag
  <2>0. PICK a \in Int : a = 1
    OBVIOUS
  <2>1. ASSUME NEW i \in 1..n PROVE reads[i] = Pending(q)[a + i - 1]
    <3>1. i \in 1..Tokens(q) /\ a + i - 1 = i
      BY <1>1, <2>0
    <3>2. reads[i] = read(q, i - 1)
      OBVIOUS
    <3>3. i - 1 = 0 <=> i = 1
      BY <1>1
    <3> HIDE DEF n
    <3>4. read(q, i - 1) = Pending(q)[i]
      BY <1>3, <3>1, <3>3 DEF read, Pending
    <3> QED
      BY <3>1, <3>2, <3>4
  <2>2. HasLen(reads, n)
    BY DEF HasLen
  <2>3. n = n - a + 1 /\ n \in Nat /\ n \in Int /\ a \in Int
    BY <1>1, <2>0
  <2>6. PICK P : P = Pending(q)
    OBVIOUS
  <2>5. \A i \in 1..n : reads[i] = P[a + i - 1]
    BY <2>1, <2>6
  <2> HIDE DEF n, reads
  <2>4. SubSeq(P, a, n) = reads
    BY <2>5, <2>2, <2>3, SubSeqIs
  <2> QED
    BY <1>3, <2>0, <2>4, <2>6 DEF n, reads
<1> QED
  BY <1>2, <1>3

LEMMA ConsumeStep ==
    ASSUME SignalInv, SafeScenario(scenario), NEW q \in Readers, ReadCall(q)
    PROVE  Stream!Consume(q)
<1> DEFINE n == cfg.rate[q]
<1>1. SignalInv' /\ RingInv /\ ShapeInv /\ ShortcutInv
  BY SignalNext DEF Next, SignalInv
<1>2. PendingFacts /\ PendingFacts'
  BY <1>1, PendingIs, PendingNext
<1>3. UNCHANGED <<cfg, store, buffer_size, buffer_is_quick, delayVars, forceVars, written>>
  BY DEF ReadCall, ringVars
<1>4. \/ quick_access_enabled' = quick_access_enabled /\ quick_value' = quick_value
      \/ /\ SwitchesAt(q) # {}
         /\ quick_value' = Cell(Mark(q))
  <2>1. CASE SwitchesAt(q) = {}
    <3>1. quick_access_enabled \in BOOLEAN
      BY <1>1 DEF ShortcutInv
    <3> QED
      BY <2>1, <3>1 DEF ReadCall
  <2>2. CASE SwitchesAt(q) # {}
    <3>1. Max(SwitchesAt(q)) = 0 /\ Position(q, 0) = Mark(q)
      BY <2>2, SwitchReads
    <3> QED
      BY <2>2, <3>1 DEF ReadCall
  <2> QED
    BY <2>1, <2>2
<1>5. /\ n \in Nat \ {0} /\ Tokens(q) \in Nat /\ Tokens(q) >= n
  BY Marks DEF SignalInv, ReadCall
<1>6. ASSUME NEW r \in Readers, r # q PROVE Pending(r)' = Pending(r)
  <2> DEFINE T == Tokens(r)
             P == Pending(r)
             Q == Pending(r)'
  <2>1. Tokens(r)' = T /\ Mark(r)' = Mark(r) /\ T \in Nat /\ Mark(r) \in Int
    BY <1>1, <1>6, ReadMarks, Marks
  <2>2. HasLen(P, T) /\ HasLen(Q, T)
    BY <1>2, <2>1 DEF PendingFacts
  <2>3. ASSUME NEW i \in 1..T PROVE Q[i] = P[i]
    <3>1. PICK pos \in Int : pos = Mark(r) + (i - 1)
      BY <2>1
    <3>2. i \in 1..Tokens(r)' /\ pos = Mark(r)' + (i - 1)
      BY <2>1, <3>1
    <3>3. CASE quick_access_enabled' = quick_access_enabled /\ quick_value' = quick_value
      <4>1. CASE quick_access_enabled /\ i = 1
        <5>1. P[1] = quick_value
          BY <1>2, <2>1, <4>1 DEF PendingFacts
        <5>2. Q[1] = quick_value'
          BY <1>2, <2>1, <3>3, <4>1 DEF PendingFacts
        <5> QED
          BY <3>3, <4>1, <5>1, <5>2
      <4>2. CASE ~quick_access_enabled \/ i # 1
        <5>1. CASE pos < indelay_start_sample
          <6>1. P[i] = in_delay_buffer[r][pos - indelay_start_sample + cfg.delay[r] + 1]
            BY <1>2, <3>1, <4>2, <5>1 DEF PendingFacts
          <6>2. Q[i] = in_delay_buffer'[r][pos - indelay_start_sample' + cfg'.delay[r] + 1]
            BY <1>2, <1>3, <3>2, <3>3, <4>2, <5>1 DEF PendingFacts, delayVars
          <6> QED
            BY <1>3, <6>1, <6>2 DEF delayVars
        <5>2. CASE pos >= indelay_start_sample
          <6>1. P[i] = Cell(pos)
            BY <1>2, <3>1, <4>2, <5>2 DEF PendingFacts
          <6>2. Q[i] = Cell(pos)'
            BY <1>2, <1>3, <3>2, <3>3, <4>2, <5>2 DEF PendingFacts, delayVars
          <6>3. Cell(pos)' = Cell(pos)
            BY <1>3, <3>3 DEF Cell
          <6> QED
            BY <6>1, <6>2, <6>3
        <5>3. indelay_start_sample \in Nat
          BY <1>1 DEF ShapeInv
        <5> QED
          BY <5>1, <5>2, <5>3
      <4> QED
        BY <4>1, <4>2
    <3>4. CASE SwitchesAt(q) # {} /\ quick_value' = Cell(Mark(q))
      <4>1. /\ ~quick_access_enabled /\ quick_access_possible /\ Tokens(q) = 1
            /\ Mark(q) >= indelay_start_sample
        BY <3>4, SwitchReads
      <4>2. T <= 1
        BY <1>1, <4>1 DEF ShortcutInv
      <4>3. i = 1 /\ T = 1
        BY <2>1, <4>2
      <4>4. T = Edge - Mark(r) /\ Tokens(q) = Edge - Mark(q) /\ Edge \in Nat /\ Mark(q) \in Int
        BY <1>1, Marks
      <4>5. pos = Mark(q) /\ pos = Mark(r)
        BY <2>1, <3>1, <4>1, <4>3, <4>4
      <4>6. P[1] = Cell(pos)
        BY <1>2, <2>1, <3>1, <4>1, <4>3, <4>5 DEF PendingFacts
      <4>7. /\ quick_access_enabled = FALSE
            /\ quick_access_enabled' = TRUE \/ quick_access_enabled' = FALSE
        <5>1. quick_access_enabled = FALSE
          BY <1>1, <4>1 DEF ShortcutInv
        <5> QED
          BY <3>4, <5>1 DEF ReadCall
      <4>8. CASE quick_access_enabled' = TRUE
        <5>1. Q[1] = quick_value'
          BY <1>2, <2>1, <4>3, <4>8 DEF PendingFacts
        <5> QED
          BY <3>4, <4>3, <4>5, <4>6, <5>1
      <4>9. CASE quick_access_enabled' = FALSE
        <5>1. UNCHANGED <<quick_access_enabled, quick_value>>
          BY <3>4, <4>9 DEF ReadCall
        <5> QED
          BY <3>3, <5>1
      <4> QED
        BY <4>7, <4>8, <4>9
    <3> QED
      BY <1>4, <3>3, <3>4
  <2> HIDE DEF T, P, Q
  <2> QED
    BY <2>2, <2>3 DEF P, Q, HasLen
<1>7. Pending(q)' = SubSeq(Pending(q), n + 1, Len(Pending(q)))
  <2> DEFINE T == Tokens(q)
             P == Pending(q)
             Q == Pending(q)'
  <2>1. Tokens(q)' = T - n /\ Mark(q)' = Mark(q) + n /\ T \in Nat /\ Mark(q) \in Int
    BY <1>1, ReadMarks, Marks
  <2>2. HasLen(P, T) /\ HasLen(Q, T - n) /\ T - n \in Nat
    BY <1>2, <1>5, <2>1 DEF PendingFacts
  <2>3. ASSUME NEW i \in 1..T - n PROVE Q[i] = P[n + 1 + i - 1]
    <3>1. ~quick_access_possible
      BY <1>5, <2>1, SwitchReads
    <3>2. ~quick_access_enabled /\ SwitchesAt(q) = {}
      BY <1>1, <3>1, SwitchReads DEF ShortcutInv
    <3>3. quick_access_enabled' = quick_access_enabled /\ quick_value' = quick_value
      BY <1>4, <3>2
    <3>4. PICK pos \in Int : pos = Mark(q) + n + (i - 1)
      BY <1>5, <2>1
    <3>5. PICK k \in 1..T : k = n + i
      BY <1>5, <2>1
    <3>6. pos = Mark(q) + (k - 1) /\ n + 1 + i - 1 = k
      BY <1>5, <2>1, <3>4, <3>5
    <3>7. i \in 1..Tokens(q)' /\ pos = Mark(q)' + (i - 1)
      BY <2>1, <3>4
    <3>8. Q[i] = P[k]
      <4>1. CASE pos < indelay_start_sample
        <5>1. P[k] = in_delay_buffer[q][pos - indelay_start_sample + cfg.delay[q] + 1]
          BY <1>2, <3>2, <3>6, <4>1 DEF PendingFacts
        <5>2. Q[i] = in_delay_buffer'[q][pos - indelay_start_sample' + cfg'.delay[q] + 1]
          BY <1>2, <1>3, <3>2, <3>3, <3>7, <4>1 DEF PendingFacts, delayVars
        <5> QED
          BY <1>3, <5>1, <5>2 DEF delayVars
      <4>2. CASE pos >= indelay_start_sample
        <5>1. P[k] = Cell(pos)
          BY <1>2, <3>2, <3>6, <4>2 DEF PendingFacts
        <5>2. Q[i] = Cell(pos)'
          BY <1>2, <1>3, <3>2, <3>3, <3>7, <4>2 DEF PendingFacts, delayVars
        <5>3. Cell(pos)' = Cell(pos)
          BY <1>3, <3>3 DEF Cell
        <5> QED
          BY <5>1, <5>2, <5>3
      <4>3. indelay_start_sample \in Nat
        BY <1>1 DEF ShapeInv
      <4> QED
        BY <4>1, <4>2, <4>3
    <3> QED
      BY <3>6, <3>8
  <2>4. Len(P) = T
    BY <2>1, <2>2, IsSequence
  <2> HIDE DEF T, P, Q, n
  <2>5. T - n = T - (n + 1) + 1 /\ n + 1 \in Int /\ T \in Int
    BY <1>5, <2>1
  <2>6. SubSeq(P, n + 1, T) = Q
    BY <2>2, <2>3, <2>5, SubSeqIs
  <2> QED
    BY <2>4, <2>6 DEF P, Q
<1>8. Len(Pending(q)) >= n
  <2>1. Len(Pending(q)) = Tokens(q)
    BY <1>2, <1>5, IsSequence DEF PendingFacts
  <2> QED
    BY <1>5, <2>1
<1>9. [r \in Readers |-> Pending(r)]' =
        [[r \in Readers |-> Pending(r)] EXCEPT ![q] = SubSeq(@, n + 1, Len(@))]
  BY <1>6, <1>7
<1>10. \/ got' = [got EXCEPT ![q] = IF force_value_flag THEN [i \in 1..n |-> Forced]
                                    ELSE SubSeq([r \in Readers |-> Pending(r)][q], 1, n)]
       \/ got' = [got EXCEPT ![q] = << >>]
  <2>1. [r \in Readers |-> Pending(r)][q] = Pending(q)
    OBVIOUS
  <2>2. CASE got' = [got EXCEPT ![q] = [i \in 1..n |-> read(q, i - 1)]]
    BY <2>1, <2>2, ReadReturns
  <2> QED
    BY <2>2 DEF ReadCall
<1> HIDE DEF n
<1>11. Len([r \in Readers |-> Pending(r)][q]) >= n
  BY <1>8
<1> QED
  BY <1>3, <1>9, <1>10, <1>11 DEF Stream!Consume, forceVars, n

-------------------------------------------------------------------------------
(* initialize() presets one delay sample *)

\* Presets leave the positions alone.
LEMMA PresetMarks ==
    ASSUME SignalInv, NEW p \in Ports, NEW k \in 0..cfg.delay[p] - 1, initialize(p, k),
           NEW r \in Readers
    PROVE  /\ Mark(r)' = Mark(r) /\ Tokens(r)' = Tokens(r) /\ Base' = Base
           /\ Mark(r) = Base - cfg.delay[r]
           /\ Edge = Base + cfg.delay[Driver]
           /\ Tokens(r) = cfg.delay[r] + cfg.delay[Driver]
           /\ Calls(Driver) * cfg.rate[Driver] = Base
<1>1. UNCHANGED <<cfg, period, call_counter, buffer_offsets, phase>> /\ phase # "run"
  BY DEF initialize, clusterVars, InitializeDriver, InitializeReader, delayVars
<1>2. Mark(r)' = Mark(r) /\ Tokens(r)' = Tokens(r) /\ Base' = Base
  BY <1>1 DEF Mark, Tokens, Base, Calls, SamplesPerPeriod
<1>3. /\ Mark(r) = Base - cfg.delay[r] /\ Edge = Base + cfg.delay[Driver]
      /\ Tokens(r) = cfg.delay[r] + cfg.delay[Driver]
  BY <1>1, BorderMarks DEF SignalInv
<1>4. Calls(Driver) * cfg.rate[Driver] = Base
  <2>1. Driver \in Ports
    BY DEF Ports
  <2>2. Calls(Driver) * cfg.rate[Driver] \in Nat /\ cfg.delay[Driver] \in Nat /\ Base \in Nat
    BY <2>1, CallPositions, Marks DEF SignalInv
  <2>3. Calls(Driver) * cfg.rate[Driver] + cfg.delay[Driver] = Base + cfg.delay[Driver]
    BY <1>3 DEF Edge
  <2> QED
    BY <2>2, <2>3
<1> QED
  BY <1>2, <1>3, <1>4

\* A reader's preset goes to its delay, which then starts where the period does.
LEMMA ReaderPreset ==
    ASSUME SignalInv, NEW p \in Readers, NEW k \in 0..cfg.delay[p] - 1, initialize(p, k),
           ~quick_access_enabled
    PROVE  /\ indelay_start_sample' = Base
           /\ \A r \in Readers : \A i \in 1..cfg.delay[r] :
                in_delay_buffer'[r][i] = IF r = p /\ i = k + 1 THEN Preset ELSE Pending(r)[i]
<1> DEFINE idstart == (call_counter[p] \div cfg.calls[p]) * SamplesPerPeriod(cfg)
           renew   == call_counter[p] >= 0 /\ indelay_start_sample < idstart
           start   == IF renew THEN idstart ELSE indelay_start_sample
           buffers == IF renew THEN [q \in Readers |-> NewInDelay(q, cfg)] ELSE in_delay_buffer
           index   == IF call_counter[p] < 0 THEN k
                      ELSE Position(p, 0) + k - start - buffer_offsets[p]
<1>1. RingInv /\ ShapeInv /\ PendingFacts /\ phase # "run" /\ p \in Ports /\ p # Driver
  BY PendingIs, SignalAssumption DEF SignalInv, initialize, Ports
<1>2. /\ in_delay_buffer' = [buffers EXCEPT ![p][index + 1] = Preset]
      /\ indelay_start_sample' = start
  BY <1>1 DEF initialize, InitializeReader
<1>3. /\ call_counter[p] < 0 => Base = 0
      /\ call_counter[p] >= 0 => idstart = Base
      /\ call_counter[p] \in Int
  BY <1>1, StartOfPeriod DEF RingInv
<1>4. /\ indelay_start_sample \in Nat /\ indelay_start_sample <= Base /\ Base \in Nat
      /\ DOMAIN in_delay_buffer = Readers
      /\ \A r \in Readers : HasLen(in_delay_buffer[r], cfg.delay[r])
  BY <1>1, Marks DEF ShapeInv
<1>5. start = Base
  <2> HIDE DEF idstart
  <2> QED
    BY <1>3, <1>4
<1>6. index = k
  <2>1. CASE call_counter[p] < 0
    BY <2>1
  <2>2. CASE call_counter[p] >= 0
    <3>1. Position(p, 0) = Mark(p) + 0 /\ Mark(p) = Base - cfg.delay[p]
      BY <1>1, Marks, BorderMarks
    <3>2. buffer_offsets[p] = -cfg.delay[p] /\ cfg.delay[p] \in Nat
      BY <1>1, Marks
    <3>3. index = Position(p, 0) + k - start - buffer_offsets[p]
      BY <1>3, <2>2
    <3> HIDE DEF index, start
    <3> QED
      BY <1>4, <1>5, <3>1, <3>2, <3>3
  <2> QED
    BY <1>3, <2>1, <2>2
<1>7. ASSUME NEW r \in Readers, NEW i \in 1..cfg.delay[r]
      PROVE  Pending(r)[i] = ValueAt(r, Mark(r) + (i - 1)) /\ i \in 1..Tokens(r)
  <2>1. /\ Tokens(r) = cfg.delay[r] + cfg.delay[Driver] /\ cfg.delay[r] \in Nat
        /\ cfg.delay[Driver] \in Nat /\ Position(r, i - 1) = Mark(r) + (i - 1)
    BY <1>1, Marks, BorderMarks
  <2>2. i \in 1..Tokens(r)
    BY <2>1
  <2>3. Pending(r)[i] = ValueAt(r, Position(r, i - 1))
    BY <2>2 DEF Pending
  <2> QED
    BY <2>1, <2>2, <2>3
<1>8. /\ DOMAIN buffers = Readers
      /\ \A r \in Readers : /\ HasLen(buffers[r], cfg.delay[r])
                            /\ \A i \in 1..cfg.delay[r] : buffers[r][i] = Pending(r)[i]
  <2>1. CASE renew
    <3>1. buffers = [q \in Readers |-> NewInDelay(q, cfg)]
      BY <2>1
    <3> HIDE DEF buffers
    <3>2. ASSUME NEW r \in Readers, NEW i \in 1..cfg.delay[r]
          PROVE  NewInDelay(r, cfg)[i] = Pending(r)[i]
      <4>1. NewInDelay(r, cfg)[i] = ValueAt(r, Position(r, i - 1 - (cfg.delay[r] - cfg.delay[r])))
        <5>1. cfg.delay[r] \in Nat
          BY <1>1, Marks
        <5> QED
          BY <5>1 DEF NewInDelay
      <4>2. cfg.delay[r] \in Nat /\ i - 1 - (cfg.delay[r] - cfg.delay[r]) = i - 1
        BY <1>1, Marks
      <4>3. Position(r, i - 1) = Mark(r) + (i - 1)
        BY <1>1, Marks
      <4> QED
        BY <1>7, <4>1, <4>2, <4>3
    <3>3. \A r \in Readers : HasLen(NewInDelay(r, cfg), cfg.delay[r])
      BY <1>1, NewInDelayLen DEF RingInv
    <3> QED
      BY <3>1, <3>2, <3>3
  <2>2. CASE ~renew
    <3>1. buffers = in_delay_buffer /\ indelay_start_sample = Base
      BY <1>5, <2>2
    <3> HIDE DEF buffers
    <3>2. ASSUME NEW r \in Readers, NEW i \in 1..cfg.delay[r]
          PROVE  in_delay_buffer[r][i] = Pending(r)[i]
      <4>1. PICK pos \in Int : pos = Mark(r) + (i - 1)
        BY <1>1, Marks
      <4>2. /\ Mark(r) = Base - cfg.delay[r] /\ cfg.delay[r] \in Nat
        BY <1>1, Marks, BorderMarks
      <4>3. pos < indelay_start_sample
        BY <1>4, <3>1, <4>1, <4>2
      <4>4. pos - indelay_start_sample + cfg.delay[r] + 1 = i
        BY <1>4, <3>1, <4>1, <4>2
      <4>5. Pending(r)[i] =
              in_delay_buffer[r][pos - indelay_start_sample + cfg.delay[r] + 1]
        BY <1>1, <1>7, <4>1, <4>3 DEF PendingFacts
      <4> QED
        BY <4>4, <4>5
    <3> QED
      BY <1>4, <3>1, <3>2
  <2> QED
    BY <2>1, <2>2
<1> HIDE DEF idstart, renew, start, buffers, index
<1>9. ASSUME NEW r \in Readers, NEW i \in 1..cfg.delay[r]
      PROVE  in_delay_buffer'[r][i] = IF r = p /\ i = k + 1 THEN Preset ELSE Pending(r)[i]
  <2>1. in_delay_buffer' = [buffers EXCEPT ![p][k + 1] = Preset]
    BY <1>2, <1>6
  <2>2. DOMAIN buffers[r] = 1..cfg.delay[r]
    BY <1>8 DEF HasLen
  <2>3. CASE r = p
    <3>1. in_delay_buffer'[r] = [buffers[r] EXCEPT ![k + 1] = Preset]
      BY <1>8, <2>1, <2>3
    <3>2. in_delay_buffer'[r][i] = IF i = k + 1 THEN Preset ELSE buffers[r][i]
      BY <2>2, <3>1
    <3> QED
      BY <1>8, <2>3, <3>2
  <2>4. CASE r # p
    BY <1>8, <2>1, <2>4
  <2> QED
    BY <2>3, <2>4
<1> QED
  BY <1>2, <1>5, <1>9

\* The preset of the driver goes to the ring, where no other sample on the way is.
LEMMA DriverPreset ==
    ASSUME SignalInv, NEW k \in 0..cfg.delay[Driver] - 1, initialize(Driver, k),
           NEW r \in Readers, NEW pos \in Nat, pos >= Mark(r), pos < Edge
    PROVE  /\ ~buffer_is_quick
           /\ store'[pos % buffer_size] =
                IF pos = Base + k THEN Preset ELSE store[pos % buffer_size]
<1> DEFINE z == buffer_size
           b == Base + k
<1>1. RingInv /\ ShapeInv /\ Driver \in Ports /\ InitializeDriver(k)
  BY DEF SignalInv, Ports, initialize
<1>2. /\ z \in Nat \ {0} /\ Base \in Nat /\ cfg.delay[r] \in Nat /\ cfg.delay[Driver] \in Nat
      /\ Tokens(r) <= z
  BY <1>1, Marks
<1>3. /\ Mark(r) = Base - cfg.delay[r] /\ Edge = Base + cfg.delay[Driver]
      /\ Tokens(r) = cfg.delay[r] + cfg.delay[Driver]
      /\ Calls(Driver) * cfg.rate[Driver] = Base
  BY <1>1, PresetMarks
<1>4. ~buffer_is_quick
  <2> SUFFICES ASSUME buffer_is_quick PROVE FALSE
    OBVIOUS
  <2>1. buffer_size = 1 /\ buffer_size = BufferSize(cfg) /\ IsConfig(cfg)
    BY <1>1 DEF ShapeInv, RingInv
  <2>2. MaxInDelay(cfg) + cfg.delay[Driver] = 0 /\ MaxInDelay(cfg) \in Nat
    BY <2>1, SizeBounds DEF NoDelay
  <2> QED
    BY <1>2, <2>2
<1>5. store' = [store EXCEPT ![b % z] = Preset] /\ DOMAIN store = 0..z-1
  BY <1>1, <1>3, <1>4 DEF InitializeDriver, ShapeInv
<1>6. b \in Nat /\ pos - b < z /\ b - pos < z
  BY <1>2, <1>3
<1> HIDE DEF b, z
<1>7. pos % z \in 0..z-1 /\ b % z \in 0..z-1
  <2>1. pos \in Int /\ b \in Int
    BY <1>6
  <2> QED
    BY <1>2, <2>1, DivMod
<1>8. pos % z = b % z => pos = b
  BY <1>2, <1>6, ModWindow
<1>9. store'[pos % z] = IF pos = b THEN Preset ELSE store[pos % z]
  BY <1>5, <1>7, <1>8
<1> QED
  BY <1>4, <1>9 DEF b, z

LEMMA InitializeStep ==
    ASSUME SignalInv, SafeScenario(scenario), NEW p \in Ports, NEW k \in 0..cfg.delay[p] - 1,
           initialize(p, k)
    PROVE  \/ \E j \in 1..cfg.delay[p] : Stream!SetDelaySample(p, j)
           \/ UNCHANGED Stream!streamVars
<1>1. SignalInv' /\ RingInv /\ ShapeInv /\ ShortcutInv
  BY SignalNext DEF Next, SignalInv
<1>2. PendingFacts /\ PendingFacts'
  BY <1>1, PendingIs, PendingNext
<1>3. /\ UNCHANGED <<scenario, cfg, buffer_size, buffer_is_quick, quickVars, forceVars, got, written>>
      /\ phase # "run"
  BY DEF initialize, clusterVars
<1>4. \A r \in Readers :
        /\ Mark(r)' = Mark(r) /\ Tokens(r)' = Tokens(r) /\ Base' = Base
        /\ Mark(r) = Base - cfg.delay[r] /\ Edge = Base + cfg.delay[Driver]
        /\ Tokens(r) = cfg.delay[r] + cfg.delay[Driver]
  BY PresetMarks
<1>5. \A r \in Readers :
        /\ Edge \in Nat /\ Mark(r) \in Int /\ Base \in Nat /\ Tokens(r) \in Nat
        /\ cfg.delay[r] \in Nat /\ cfg.delay[Driver] \in Nat /\ r # Driver
  BY <1>1, Marks
<1>6. indelay_start_sample \in Nat /\ indelay_start_sample <= Base
  BY <1>1 DEF ShapeInv
<1>7. \A r \in Readers : HasLen(Pending(r), Tokens(r)) /\ HasLen(Pending(r)', Tokens(r))
  BY <1>2, <1>4 DEF PendingFacts
<1>8. CASE quick_access_enabled
  <2>1. \A r \in Readers : Tokens(r) <= 1
    BY <1>1, <1>8 DEF ShortcutInv
  <2>2. quick_value' = quick_value
    <3>1. CASE p # Driver
      BY <3>1 DEF initialize, InitializeReader
    <3>2. CASE p = Driver
      <4>1. PICK r \in Readers : TRUE
        BY SignalAssumption
      <4>2. Tokens(r) = 1 /\ cfg.delay[Driver] = 1 /\ cfg.delay[r] = 0
        BY <1>4, <1>5, <2>1, <3>2, <4>1
      <4>3. PICK e \in Nat : e = Base
        BY <1>5, <4>1
      <4>4. e >= Mark(r) /\ e < Edge
        BY <1>4, <1>5, <4>1, <4>2, <4>3
      <4>5. ~buffer_is_quick
        BY <3>2, <4>4, DriverPreset
      <4> QED
        BY <3>2, <4>5 DEF initialize, InitializeDriver
    <3> QED
      BY <3>1, <3>2
  <2>3. ASSUME NEW r \in Readers PROVE Pending(r)' = Pending(r)
    <3>1. ASSUME NEW i \in 1..Tokens(r) PROVE Pending(r)'[i] = Pending(r)[i]
      <4>1. i = 1 /\ Tokens(r) > 0
        BY <1>5, <2>1
      <4>2. Pending(r)[1] = quick_value
        BY <1>2, <1>8, <4>1 DEF PendingFacts
      <4>3. Pending(r)'[1] = quick_value'
        BY <1>2, <1>3, <1>4, <1>8, <4>1 DEF PendingFacts, quickVars
      <4> QED
        BY <2>2, <4>1, <4>2, <4>3
    <3> DEFINE P == Pending(r)
               Q == Pending(r)'
    <3>2. HasLen(P, Tokens(r)) /\ HasLen(Q, Tokens(r))
      BY <1>7
    <3> HIDE DEF P, Q
    <3> QED
      BY <3>1, <3>2 DEF HasLen, P, Q
  <2> QED
    BY <1>3, <2>3 DEF Stream!streamVars, forceVars
<1>9. CASE ~quick_access_enabled
  <2>1. Stream!OnlyDelays
    <3>1. \A r \in Readers : Len(Pending(r)) = Tokens(r)
      BY <1>5, <1>7, IsSequence
    <3> QED
      BY <1>4, <3>1 DEF Stream!OnlyDelays
  <2>2. ASSUME NEW r \in Readers, NEW i \in 1..Tokens(r)
        PROVE  Pending(r)'[i] =
                 IF \/ p = Driver /\ i = cfg.delay[r] + (k + 1)
                    \/ p = r /\ i = k + 1
                 THEN Preset ELSE Pending(r)[i]
    <3>1. PICK pos \in Int : pos = Mark(r) + (i - 1)
      BY <1>5
    <3>2. i \in 1..Tokens(r)' /\ pos = Mark(r)' + (i - 1) /\ ~quick_access_enabled'
      BY <1>3, <1>4, <1>9, <3>1 DEF quickVars
    <3>3. pos = Base - cfg.delay[r] + (i - 1) /\ pos < Edge /\ pos >= Mark(r)
      BY <1>4, <1>5, <3>1
    <3>4. CASE p = Driver
      <4>1. UNCHANGED delayVars
        BY <3>4 DEF initialize, InitializeDriver
      <4>2. CASE pos < indelay_start_sample
        <5>1. Pending(r)[i] = in_delay_buffer[r][pos - indelay_start_sample + cfg.delay[r] + 1]
          BY <1>2, <1>9, <3>1, <4>2 DEF PendingFacts
        <5>2. Pending(r)'[i] =
                in_delay_buffer'[r][pos - indelay_start_sample' + cfg'.delay[r] + 1]
          BY <1>2, <3>2, <4>1, <4>2 DEF PendingFacts, delayVars
        <5>3. i # cfg.delay[r] + (k + 1) /\ p # r
          BY <1>5, <1>6, <3>3, <3>4, <4>2
        <5> QED
          BY <1>3, <4>1, <5>1, <5>2, <5>3 DEF delayVars
      <4>3. CASE pos >= indelay_start_sample
        <5>1. Pending(r)[i] = Cell(pos) /\ pos \in Nat
          BY <1>2, <1>9, <3>1, <4>3 DEF PendingFacts
        <5>2. Pending(r)'[i] = Cell(pos)'
          BY <1>2, <3>2, <4>1, <4>3 DEF PendingFacts, delayVars
        <5>3. /\ ~buffer_is_quick
              /\ store'[pos % buffer_size] =
                   IF pos = Base + k THEN Preset ELSE store[pos % buffer_size]
          BY <3>3, <3>4, <5>1, DriverPreset
        <5>4. pos = Base + k <=> i = cfg.delay[r] + (k + 1)
          BY <1>5, <3>3, <3>4
        <5>5. p # r
          BY <1>5, <3>4
        <5> QED
          BY <1>3, <3>4, <5>1, <5>2, <5>3, <5>4, <5>5 DEF Cell
      <4> QED
        BY <1>6, <4>2, <4>3
    <3>5. CASE p # Driver
      <4>1. p \in Readers
        BY <3>5 DEF Ports
      <4>2. /\ indelay_start_sample' = Base
            /\ \A q \in Readers : \A j \in 1..cfg.delay[q] :
                 in_delay_buffer'[q][j] = IF q = p /\ j = k + 1 THEN Preset ELSE Pending(q)[j]
        BY <1>9, <4>1, ReaderPreset
      <4>3. CASE pos < Base
        <5>1. i \in 1..cfg.delay[r] /\ pos - Base + cfg.delay[r] + 1 = i
          BY <1>5, <3>3, <4>3
        <5>2. Pending(r)'[i] =
                in_delay_buffer'[r][pos - indelay_start_sample' + cfg'.delay[r] + 1]
          BY <1>2, <3>2, <4>2, <4>3 DEF PendingFacts
        <5>3. Pending(r)'[i] = in_delay_buffer'[r][i]
          BY <1>3, <4>2, <5>1, <5>2
        <5> QED
          BY <3>5, <4>2, <5>1, <5>3
      <4>4. CASE pos >= Base
        <5>1. Pending(r)[i] = Cell(pos)
          <6>1. pos >= indelay_start_sample
            BY <1>5, <1>6, <4>4
          <6> QED
            BY <1>2, <1>9, <3>1, <6>1 DEF PendingFacts
        <5>2. Pending(r)'[i] = Cell(pos)'
          BY <1>2, <3>2, <4>2, <4>4 DEF PendingFacts
        <5>3. Cell(pos)' = Cell(pos)
          BY <1>3, <3>5 DEF Cell, initialize, InitializeReader
        <5>4. ~(p = r /\ i = k + 1)
          BY <1>5, <3>3, <4>4
        <5> QED
          BY <3>5, <5>1, <5>2, <5>3, <5>4
      <4> QED
        BY <1>5, <4>3, <4>4
    <3> QED
      BY <3>4, <3>5
  <2>3. CASE p = Driver
    <3>1. ASSUME NEW r \in Readers
          PROVE  Pending(r)' = [Pending(r) EXCEPT ![cfg.delay[r] + (k + 1)] = Preset]
      <4> DEFINE P == Pending(r)
                 Q == Pending(r)'
                 T == Tokens(r)
      <4>1. HasLen(P, T) /\ HasLen(Q, T)
        BY <1>7
      <4>2. \A i \in 1..T : Q[i] = IF i = cfg.delay[r] + (k + 1) THEN Preset ELSE P[i]
        BY <1>5, <2>2, <2>3
      <4> HIDE DEF P, Q, T
      <4>3. DOMAIN P = 1..T
        BY <4>1 DEF HasLen
      <4>4. [P EXCEPT ![cfg.delay[r] + (k + 1)] = Preset]
              = [i \in 1..T |-> IF i = cfg.delay[r] + (k + 1) THEN Preset ELSE P[i]]
        BY <4>3
      <4>5. Q = [i \in 1..T |-> IF i = cfg.delay[r] + (k + 1) THEN Preset ELSE P[i]]
        BY <4>1, <4>2 DEF HasLen
      <4> QED
        BY <4>4, <4>5 DEF P, Q
    <3>2. k + 1 \in 1..cfg.delay[p]
      BY <1>5, <2>3, SignalAssumption
    <3>3. [r \in Readers |-> Pending(r)]' =
            [r \in Readers |-> [[q \in Readers |-> Pending(q)][r]
                                  EXCEPT ![cfg.delay[r] + (k + 1)] = Preset]]
      BY <3>1
    <3>4. Stream!SetDelaySample(p, k + 1)
      BY <1>3, <2>1, <2>3, <3>2, <3>3 DEF Stream!SetDelaySample, forceVars
    <3> QED
      BY <3>2, <3>4
  <2>4. CASE p # Driver
    <3>0. p \in Readers
      BY <2>4 DEF Ports
    <3>1. ASSUME NEW r \in Readers
          PROVE  Pending(r)' = IF r = p THEN [Pending(r) EXCEPT ![k + 1] = Preset]
                               ELSE Pending(r)
      <4> DEFINE P == Pending(r)
                 Q == Pending(r)'
                 T == Tokens(r)
      <4>1. HasLen(P, T) /\ HasLen(Q, T)
        BY <1>7
      <4>2. \A i \in 1..T : Q[i] = IF r = p /\ i = k + 1 THEN Preset ELSE P[i]
        BY <2>2, <2>4
      <4> HIDE DEF P, Q, T
      <4>3. DOMAIN P = 1..T
        BY <4>1 DEF HasLen
      <4>4. CASE r = p
        <5>1. [P EXCEPT ![k + 1] = Preset] = [i \in 1..T |-> IF i = k + 1 THEN Preset ELSE P[i]]
          BY <4>3
        <5>2. Q = [i \in 1..T |-> IF i = k + 1 THEN Preset ELSE P[i]]
          BY <4>1, <4>2, <4>4 DEF HasLen
        <5> QED
          BY <4>4, <5>1, <5>2 DEF P, Q
      <4>5. CASE r # p
        <5>1. Q = P
          BY <4>1, <4>2, <4>5 DEF HasLen
        <5> QED
          BY <4>5, <5>1 DEF P, Q
      <4> QED
        BY <4>4, <4>5
    <3>2. k + 1 \in 1..cfg.delay[p]
      BY <1>5, <3>0
    <3>3. [r \in Readers |-> Pending(r)]' =
            [[r \in Readers |-> Pending(r)] EXCEPT ![p][k + 1] = Preset]
      BY <3>0, <3>1
    <3>4. Stream!SetDelaySample(p, k + 1)
      BY <1>3, <2>1, <2>4, <3>2, <3>3 DEF Stream!SetDelaySample, forceVars
    <3> QED
      BY <3>2, <3>4
  <2> QED
    BY <2>3, <2>4
<1> QED
  BY <1>8, <1>9

-------------------------------------------------------------------------------
(* A re-scheduling keeps the delay samples, newest first *)

\* h is s, of length m, brought to length n at its old end.
IsResized(h, s, m, n) ==
  \A i \in 1..n : /\ i + m - n >= 1 => h[i] = s[i + m - n]
                  /\ i + m - n < 1 => h[i] = 0

LEMMA ResizeIs ==
    ASSUME NEW m \in Nat, NEW n \in Nat, NEW s, HasLen(s, m)
    PROVE  /\ HasLen(Stream!Resize(s, n), n)
           /\ IsResized(Stream!Resize(s, n), s, m, n)
<1> DEFINE h == [i \in 1..n |-> IF i + m - n >= 1 THEN s[i + m - n] ELSE 0]
<1>1. HasLen(h, n) /\ Len(s) = m /\ IsResized(h, s, m, n)
  BY IsSequence DEF HasLen, IsResized
<1>2. CASE n >= m
  <2> DEFINE z == n - m
             zeros == Stream!Zeros(z)
  <2>1. z \in Nat /\ z + m = n
    BY <1>2
  <2>2. HasLen(zeros, z)
    BY DEF Stream!Zeros, HasLen
  <2>3. \A i \in 1..z : h[i] = zeros[i]
    BY <2>1 DEF Stream!Zeros
  <2>4. \A i \in 1..m : h[z + i] = s[i]
    <3> SUFFICES ASSUME NEW i \in 1..m PROVE h[z + i] = s[i]
      OBVIOUS
    <3>1. z + i \in 1..n /\ (z + i) + m - n = i
      BY <2>1
    <3> QED
      BY <3>1
  <2>5. Stream!Resize(s, n) = zeros \o s
    BY <1>1, <1>2 DEF Stream!Resize
  <2> HIDE DEF h, zeros, z
  <2>6. zeros \o s = h
    BY <1>1, <2>1, <2>2, <2>3, <2>4, ConcatIs
  <2> QED
    BY <1>1, <2>5, <2>6
<1>3. CASE n < m
  <2>1. PICK a \in Int : a = m - n + 1
    OBVIOUS
  <2>2. \A i \in 1..n : h[i] = s[a + i - 1]
    <3> SUFFICES ASSUME NEW i \in 1..n PROVE h[i] = s[a + i - 1]
      OBVIOUS
    <3>1. a + i - 1 = i + m - n /\ i + m - n >= 1
      BY <1>3, <2>1
    <3> QED
      BY <3>1
  <2>3. Stream!Resize(s, n) = SubSeq(s, a, m)
    BY <1>1, <1>3, <2>1 DEF Stream!Resize
  <2>4. n = m - a + 1 /\ m \in Int
    BY <2>1
  <2> HIDE DEF h
  <2>5. a \in Int
    BY <2>1
  <2>6. SubSeq(s, a, m) = h
    BY <1>1, <2>2, <2>4, <2>5, SubSeqIs
  <2> QED
    BY <1>1, <2>3, <2>6
<1> QED
  BY <1>2, <1>3

\* The driver's delay in the new ring: the samples it had, behind initial values
\* when it grows, without the oldest when it shrinks.
LEMMA NewStoreIs ==
    ASSUME SignalInv, phase = "between", NEW c, IsConfig(c), NEW i \in 0..c.delay[Driver] - 1
    PROVE  LET old == cfg.delay[Driver]
               new == c.delay[Driver]
               cell == NewStore(c)[(SamplesPerPeriod(c) + i) % BufferSize(c)]
           IN /\ i + old - new >= 0 => cell = Cell(Base + (i + old - new))
              /\ i + old - new < 0 => cell = 0
<1> DEFINE old  == cfg.delay[Driver]
           new  == c.delay[Driver]
           size == BufferSize(c)
           s    == SamplesPerPeriod(c)
           drop == IF old > new THEN old - new ELSE 0
           skip == IF new > old THEN new - old ELSE 0
           kept == 0..(IF new > old THEN old ELSE new) - 1
           q    == (s + i) % size
           from == {j \in kept : (s + skip + j) % size = q}
<1>1. /\ s \in Nat \ {0} /\ new \in Nat /\ size \in Nat \ {0} /\ MaxInDelay(c) \in Nat
      /\ size = s + new + MaxInDelay(c)
  BY SizeBounds
<1>2. PICK r \in Readers : TRUE
  BY SignalAssumption
<1>3. old \in Nat /\ Base \in Nat
  BY <1>2, Marks DEF SignalInv
<1>4. call_counter[Driver] * cfg.rate[Driver] = Base
  <2>1. Driver \in Ports /\ RingInv
    BY DEF Ports, SignalInv
  <2>2. Calls(Driver) = call_counter[Driver] /\ Calls(Driver) * cfg.rate[Driver] \in Nat
    BY <2>1, CallsSplit, CallPositions
  <2>3. Edge = Base + cfg.delay[Driver]
    BY <1>2, <2>1, BorderMarks
  <2>4. Edge = Calls(Driver) * cfg.rate[Driver] + cfg.delay[Driver]
    BY DEF Edge
  <2> QED
    BY <1>3, <2>2, <2>3, <2>4
<1>5. NewStore(c) = [p \in 0..size - 1 |->
        LET hit == {j \in kept : (s + skip + j) % size = p}
        IN IF hit = {} THEN 0
           ELSE Cell(call_counter[Driver] * cfg.rate[Driver] + drop + Max(hit))]
  BY DEF NewStore
<1>6. q \in 0..size - 1
  <2> HIDE DEF s, size
  <2>1. s + i \in Int
    BY <1>1
  <2> QED
    BY <1>1, <2>1, DivMod
<1>7. NewStore(c)[q] = IF from = {} THEN 0 ELSE Cell(Base + drop + Max(from))
  <2> HIDE DEF q
  <2> QED
    BY <1>4, <1>5, <1>6
<1>8. skip \in Nat /\ drop \in Nat /\ skip + old = new + drop /\ (skip = 0 \/ drop = 0)
  BY <1>1, <1>3
<1>9. ASSUME NEW j \in kept PROVE (s + skip + j) % size = q <=> j = i - skip
  <2> DEFINE a == s + skip + j
             b == s + i
  <2>1. a \in Nat /\ b \in Nat /\ a - b < size /\ b - a < size
    BY <1>1, <1>3
  <2>2. a = b <=> j = i - skip
    BY <1>1, <1>3
  <2> HIDE DEF a, b, s, size
  <2>3. a % size = b % size => a = b
    BY <1>1, <2>1, ModWindow
  <2>4. (s + skip + j) % size = q <=> a % size = b % size
    BY DEF a, b
  <2> QED
    BY <2>2, <2>3, <2>4
<1>10. ASSUME i - skip >= 0
       PROVE  NewStore(c)[q] = Cell(Base + (i + old - new)) /\ i + old - new >= 0
  <2>1. i - skip \in kept
    BY <1>1, <1>3, <1>10
  <2> HIDE DEF kept, q, skip
  <2>2. from = {i - skip}
    BY <1>9, <2>1
  <2>3. i - skip \in Int
    BY <1>8
  <2>4. Max(from) = i - skip /\ from # {}
    BY <2>2, <2>3, MaxOne
  <2>5. NewStore(c)[q] = Cell(Base + drop + (i - skip))
    BY <1>7, <2>4
  <2> HIDE DEF old, new, drop
  <2>6. Base + drop + (i - skip) = Base + (i + old - new) /\ i + old - new >= 0
    BY <1>1, <1>3, <1>8, <1>10
  <2> QED
    BY <2>5, <2>6
<1>11. ASSUME i - skip < 0 PROVE NewStore(c)[q] = 0 /\ i + old - new < 0
  <2> HIDE DEF q
  <2>1. from = {}
    <3>1. \A j \in kept : j # i - skip
      BY <1>1, <1>3, <1>11
    <3> QED
      BY <1>9, <3>1
  <2>2. NewStore(c)[q] = 0
    BY <1>7, <2>1
  <2>3. i + old - new < 0
    BY <1>1, <1>3, <1>11
  <2> QED
    BY <2>2, <2>3
<1>12. i - skip >= 0 \/ i - skip < 0
  BY <1>8
<1> HIDE DEF skip
<1>13. /\ i + old - new >= 0 => NewStore(c)[q] = Cell(Base + (i + old - new))
       /\ i + old - new < 0 => NewStore(c)[q] = 0
  <2> DEFINE e == i + old - new
  <2>1. e \in Int
    BY <1>1, <1>3
  <2> HIDE DEF q, e
  <2>2. ~(e >= 0 /\ e < 0)
    BY <2>1
  <2> QED
    BY <1>10, <1>11, <1>12, <2>2 DEF e
<1> QED
  BY <1>13

BorderFacts ==
  phase # "run" => \A r \in Readers :
    /\ Mark(r) = Base - cfg.delay[r]
    /\ Tokens(r) = cfg.delay[r] + cfg.delay[Driver]

LEMMA BorderNext == RingInv' => BorderFacts'
<1>1. RingInv => BorderFacts
  BY BorderMarks DEF BorderFacts
<1> QED
  BY <1>1, PTL

\* The new delay of a reader, as a resized queue.
LEMMA NewInDelayIs ==
    ASSUME SignalInv, phase = "between", ~quick_access_enabled, NEW c, IsConfig(c),
           NEW r \in Readers, NEW i \in 1..c.delay[r]
    PROVE  /\ i + cfg.delay[r] - c.delay[r] >= 1 =>
                NewInDelay(r, c)[i] = Pending(r)[i + cfg.delay[r] - c.delay[r]]
           /\ i + cfg.delay[r] - c.delay[r] < 1 => NewInDelay(r, c)[i] = 0
<1> DEFINE old == cfg.delay[r]
           new == c.delay[r]
           e   == i + old - new
<1>1. old \in Nat /\ new \in Nat /\ cfg.delay[Driver] \in Nat
  BY Marks, ConfigTypes DEF SignalInv, Ports
<1>2. Tokens(r) = old + cfg.delay[Driver]
  BY BorderMarks DEF SignalInv
<1>3. ASSUME e >= 1 PROVE Pending(r)[e] = ValueAt(r, Position(r, e - 1))
  <2>1. e \in 1..Tokens(r)
    BY <1>1, <1>2, <1>3
  <2> HIDE DEF e
  <2> QED
    BY <2>1 DEF Pending
<1>4. CASE new >= old
  <2>1. NewInDelay(r, c)[i] = IF i <= new - old THEN 0
                              ELSE ValueAt(r, Position(r, i - 1 - (new - old)))
    BY <1>4 DEF NewInDelay
  <2>2. i - 1 - (new - old) = e - 1 /\ (i <= new - old <=> e < 1) /\ (e < 1 <=> ~(e >= 1))
    BY <1>1
  <2> HIDE DEF e, new, old
  <2> QED
    BY <1>3, <2>1, <2>2 DEF e, new, old
<1>5. CASE ~(new >= old)
  <2>1. NewInDelay(r, c)[i] = ValueAt(r, Position(r, i - 1 + (old - new)))
    BY <1>5 DEF NewInDelay
  <2>2. i - 1 + (old - new) = e - 1 /\ e >= 1 /\ ~(e < 1)
    BY <1>1, <1>5
  <2> HIDE DEF e, new, old
  <2> QED
    BY <1>3, <2>1, <2>2 DEF e, new, old
<1> QED
  BY <1>4, <1>5

LEMMA RescheduleStep ==
    ASSUME SignalInv, SignalInv', NEW c, IsConfig(c), reschedule_cluster(c),
           SafeChange(cfg, c), ~quick_access_possible
    PROVE  Stream!Reshape(c) /\ cfg' = c
<1> DEFINE oD == cfg.delay[Driver]
           nD == c.delay[Driver]
           s  == SamplesPerPeriod(c)
<1>1. /\ cfg' = c /\ phase = "between" /\ phase' = "reinitialize" /\ period' = 2
      /\ UNCHANGED <<quickVars, forceVars, got, written>> /\ resize_buffer(c)
      /\ indelay_start_sample' = s
  BY DEF reschedule_cluster, resize_buffer
<1>2. RingInv /\ RingInv' /\ ShapeInv /\ PendingFacts /\ PendingFacts' /\ BorderFacts'
  BY PendingIs, PendingNext, BorderNext DEF SignalInv
<1>3. ~quick_access_enabled /\ ~quick_access_enabled'
  BY <1>1 DEF SignalInv, ShortcutInv, quickVars
<1>4. s \in Nat \ {0} /\ Base' = s
  <2>1. s \in Nat \ {0}
    BY SizeBounds
  <2>2. Base' = (2 - 1) * s
    BY <1>1 DEF Base, SamplesPerPeriod
  <2> HIDE DEF s
  <2> QED
    BY <2>1, <2>2
<1>5. \A r \in Readers :
        /\ cfg.delay[r] \in Nat /\ oD \in Nat /\ c.delay[r] \in Nat /\ nD \in Nat
        /\ Mark(r) = Base - cfg.delay[r] /\ Base \in Nat
        /\ Tokens(r) = cfg.delay[r] + oD
        /\ Mark(r)' = s - c.delay[r]
        /\ Tokens(r)' = c.delay[r] + nD
  BY <1>1, <1>2, <1>4, Marks, BorderMarks, ConfigTypes DEF Ports, BorderFacts
<1>6. \A r \in Readers : HasLen(Pending(r), cfg.delay[r] + oD) /\ HasLen(Pending(r)', c.delay[r] + nD)
  BY <1>2, <1>5 DEF PendingFacts
<1>7. ASSUME NEW r \in Readers PROVE Len(Pending(r)) = cfg.delay[r] + oD
  <2> DEFINE n == cfg.delay[r] + oD
             P == Pending(r)
  <2>1. n \in Nat /\ HasLen(P, n)
    BY <1>5, <1>6
  <2> HIDE DEF n, P
  <2>2. Len(P) = n
    BY <2>1, IsSequence
  <2> QED
    BY <2>2 DEF n, P
<1>8. Stream!OnlyDelays
  BY <1>7 DEF Stream!OnlyDelays
<1>9. \/ \A r \in Readers : c.delay[r] = 0 /\ nD = 0
      \/ /\ ~NoDelay(c) /\ reinitialize_indelays(c)
         /\ buffer_size' = BufferSize(c) /\ buffer_is_quick' = FALSE /\ store' = NewStore(c)
  <2>1. \A e : IsConfig(e) /\ NoDelay(e) =>
          \A r \in Readers : e.delay[r] = 0 /\ e.delay[Driver] = 0
    <3> SUFFICES ASSUME NEW e, IsConfig(e), NoDelay(e), NEW r \in Readers
                 PROVE e.delay[r] = 0 /\ e.delay[Driver] = 0
      OBVIOUS
    <3>1. /\ MaxInDelay(e) \in Nat /\ e.delay[r] <= MaxInDelay(e)
          /\ e.delay[r] \in Nat /\ e.delay[Driver] \in Nat
      BY MaxInDelayBounds, ConfigTypes DEF Ports
    <3> QED
      BY <3>1 DEF NoDelay
  <2>2. buffer_size = BufferSize(cfg) /\ IsConfig(cfg)
    BY <1>2 DEF RingInv
  <2>3. CASE BufferSize(c) = buffer_size /\ c.delay = cfg.delay
    <3>1. NoDelay(cfg)
      BY <2>2, <2>3 DEF SafeChange
    <3> QED
      BY <2>1, <2>2, <2>3, <3>1
  <2>4. CASE NoDelay(c)
    BY <2>1, <2>4
  <2>5. CASE ~(BufferSize(c) = buffer_size /\ c.delay = cfg.delay) /\ ~NoDelay(c)
    <3>1. buffer_size # 1
      <4>1. BufferSize(cfg) > 1
        BY <2>5 DEF SafeChange
      <4> QED
        BY <2>2, <4>1, SizeBounds
    <3>2. /\ reinitialize_indelays(c) /\ buffer_size' = BufferSize(c)
          /\ buffer_is_quick' = (buffer_size = 1)
          /\ store' = IF buffer_size = 1 THEN << >> ELSE NewStore(c)
      BY <1>1, <2>5 DEF resize_buffer
    <3> QED
      BY <2>5, <3>1, <3>2
  <2> QED
    BY <2>3, <2>4, <2>5
<1>10. ASSUME NEW r \in Readers
       PROVE  Pending(r)' = Stream!Resize(SubSeq(Pending(r), 1, cfg.delay[r]), c.delay[r]) \o
                Stream!Resize(SubSeq(Pending(r), cfg.delay[r] + 1, Len(Pending(r))), nD)
  <2> DEFINE P  == Pending(r)
             Q  == Pending(r)'
             o  == cfg.delay[r]
             n  == c.delay[r]
             P1 == [i \in 1..o |-> P[i]]
             P2 == [i \in 1..oD |-> P[o + i]]
             R1 == Stream!Resize(P1, n)
             R2 == Stream!Resize(P2, nD)
  <2>1. o \in Nat /\ oD \in Nat /\ n \in Nat /\ nD \in Nat /\ o + oD \in Nat
    BY <1>5
  <2>2. HasLen(P, o + oD) /\ HasLen(Q, n + nD) /\ Len(P) = o + oD
    BY <1>6, <1>7
  <2>3. HasLen(P1, o) /\ HasLen(P2, oD)
    BY DEF HasLen
  <2>4. SubSeq(P, 1, o) = P1
    <3>1. PICK a \in Int : a = 1
      OBVIOUS
    <3>2. \A i \in 1..o : P1[i] = P[a + i - 1]
      <4> SUFFICES ASSUME NEW i \in 1..o PROVE P1[i] = P[a + i - 1]
        OBVIOUS
      <4>1. a + i - 1 = i
        BY <3>1
      <4> QED
        BY <4>1
    <3>3. o = o - a + 1 /\ o \in Int /\ a \in Int
      BY <2>1, <3>1
    <3> HIDE DEF o, P1, P
    <3>4. SubSeq(P, a, o) = P1
      BY <2>1, <2>3, <3>2, <3>3, SubSeqIs
    <3> QED
      BY <3>1, <3>4
  <2>5. SubSeq(P, o + 1, o + oD) = P2
    <3>1. PICK a \in Int : a = o + 1
      BY <2>1
    <3>2. \A i \in 1..oD : P2[i] = P[a + i - 1]
      <4> SUFFICES ASSUME NEW i \in 1..oD PROVE P2[i] = P[a + i - 1]
        OBVIOUS
      <4>1. a + i - 1 = o + i
        BY <2>1, <3>1
      <4> QED
        BY <4>1
    <3>3. PICK b \in Int : b = o + oD
      BY <2>1
    <3>4. oD = b - a + 1
      BY <2>1, <3>1, <3>3
    <3>5. a \in Int /\ b \in Int
      BY <3>1, <3>3
    <3> HIDE DEF o, oD, P2, P
    <3>6. SubSeq(P, a, b) = P2
      BY <2>1, <2>3, <3>2, <3>4, <3>5, SubSeqIs
    <3> QED
      BY <3>1, <3>3, <3>6
  <2>6. HasLen(R1, n) /\ HasLen(R2, nD)
    <3> HIDE DEF P1, P2, o, oD, n, nD
    <3> QED
      BY <2>1, <2>3, ResizeIs
  <2>7. ASSUME NEW i \in 1..n PROVE Q[i] = R1[i]
    <3> DEFINE e == i + o - n
    <3>1. /\ e >= 1 => R1[i] = P1[e]
          /\ e < 1 => R1[i] = 0
      <4>1. \A j \in 1..n : /\ j + o - n >= 1 => R1[j] = P1[j + o - n]
                            /\ j + o - n < 1 => R1[j] = 0
        <5>1. IsResized(R1, P1, o, n)
          <6> HIDE DEF P1, o, n
          <6> QED
            BY <2>1, <2>3, ResizeIs
        <5> HIDE DEF R1, P1, o, n
        <5> QED
          BY <5>1 DEF IsResized
      <4> HIDE DEF R1, P1, o, n
      <4> QED
        BY <4>1
    <3>2. /\ e >= 1 => NewInDelay(r, c)[i] = P[e]
          /\ e < 1 => NewInDelay(r, c)[i] = 0
      BY <1>1, <1>3, NewInDelayIs
    <3>3. e >= 1 => P1[e] = P[e]
      BY <2>1
    <3>4. e >= 1 \/ e < 1
      BY <2>1
    <3>5. in_delay_buffer'[r][i] = NewInDelay(r, c)[i]
      <4>1. n # 0
        BY <2>1
      <4>2. reinitialize_indelays(c)
        BY <1>9, <4>1
      <4> QED
        BY <4>2 DEF reinitialize_indelays
    <3>6. Q[i] = in_delay_buffer'[r][i]
      <4>1. PICK pos \in Int : pos = s - n + (i - 1)
        BY <1>4, <2>1
      <4>2. i \in 1..Tokens(r)' /\ pos = Mark(r)' + (i - 1) /\ pos < s
        BY <1>4, <1>5, <2>1, <4>1
      <4>3. pos - s + n + 1 = i
        BY <1>4, <2>1, <4>1
      <4>4. Q[i] = in_delay_buffer'[r][pos - indelay_start_sample' + cfg'.delay[r] + 1]
        BY <1>1, <1>2, <1>3, <4>2 DEF PendingFacts
      <4> QED
        BY <1>1, <4>3, <4>4
    <3> HIDE DEF e, R1, P1, P, Q
    <3> QED
      BY <3>1, <3>2, <3>3, <3>4, <3>5, <3>6
  <2>8. ASSUME NEW i \in 1..nD PROVE Q[n + i] = R2[i]
    <3> DEFINE e == i + oD - nD
    <3>1. /\ e >= 1 => R2[i] = P2[e]
          /\ e < 1 => R2[i] = 0
      <4>1. \A j \in 1..nD : /\ j + oD - nD >= 1 => R2[j] = P2[j + oD - nD]
                             /\ j + oD - nD < 1 => R2[j] = 0
        <5>1. IsResized(R2, P2, oD, nD)
          <6> HIDE DEF P2, oD, nD
          <6> QED
            BY <2>1, <2>3, ResizeIs
        <5> HIDE DEF R2, P2, oD, nD
        <5> QED
          BY <5>1 DEF IsResized
      <4> HIDE DEF R2, P2, oD, nD
      <4> QED
        BY <4>1
    <3>2. PICK j \in 0..nD - 1 : j = i - 1
      BY <2>1
    <3>3. PICK pos \in Nat : pos = s + j
      BY <1>4, <3>2
    <3>4. store' = NewStore(c) /\ buffer_size' = BufferSize(c) /\ buffer_is_quick' = FALSE
      <4>1. nD # 0
        BY <2>1
      <4> QED
        BY <1>9, <4>1
    <3>5. Q[n + i] = NewStore(c)[(s + j) % BufferSize(c)]
      <4>1. n + i \in 1..Tokens(r)' /\ pos = Mark(r)' + ((n + i) - 1) /\ pos >= s
        BY <1>4, <1>5, <2>1, <3>2, <3>3
      <4>2. Q[n + i] = Cell(pos)'
        BY <1>1, <1>2, <1>3, <4>1 DEF PendingFacts
      <4> QED
        BY <3>3, <3>4, <4>2 DEF Cell
    <3>6. /\ e >= 1 => Q[n + i] = Cell(Base + (e - 1))
          /\ e < 1 => Q[n + i] = 0
      <4>1. j + oD - nD = e - 1 /\ (j + oD - nD >= 0 <=> e >= 1) /\ (j + oD - nD < 0 <=> e < 1)
        BY <2>1, <3>2
      <4>2. LET cell == NewStore(c)[(s + j) % BufferSize(c)]
            IN /\ j + oD - nD >= 0 => cell = Cell(Base + (j + oD - nD))
               /\ j + oD - nD < 0 => cell = 0
        BY <1>1, NewStoreIs
      <4> HIDE DEF e, s
      <4> QED
        BY <3>5, <4>1, <4>2
    <3>7. ASSUME e >= 1 PROVE P2[e] = Cell(Base + (e - 1))
      <4>1. e \in 1..oD
        BY <2>1, <3>7
      <4>2. P2[e] = P[o + e]
        <5> HIDE DEF e
        <5> QED
          BY <4>1
      <4>3. PICK k \in 1..Tokens(r) : k = o + e
        BY <1>5, <2>1, <4>1
      <4>4. PICK at \in Int : at = Base + (e - 1)
        BY <1>5, <4>1
      <4>5. at = Mark(r) + (k - 1) /\ at >= Base
        BY <1>5, <2>1, <4>1, <4>3, <4>4
      <4>6. at >= indelay_start_sample
        BY <1>2, <1>5, <4>5 DEF ShapeInv
      <4>7. P[k] = Cell(at)
        BY <1>2, <1>3, <4>3, <4>5, <4>6 DEF PendingFacts
      <4> QED
        BY <4>2, <4>3, <4>4, <4>7
    <3>8. e >= 1 \/ e < 1
      BY <2>1
    <3> HIDE DEF e, R2, P2, P, Q
    <3> QED
      BY <3>1, <3>6, <3>7, <3>8
  <2> HIDE DEF P1, P2, R1, R2, P, Q, o, n, oD, nD
  <2>9. R1 \o R2 = Q
    BY <2>1, <2>2, <2>6, <2>7, <2>8, ConcatIs
  <2>10. R1 = Stream!Resize(SubSeq(P, 1, o), n)
    BY <2>4 DEF R1
  <2>11. R2 = Stream!Resize(SubSeq(P, o + 1, Len(P)), nD)
    BY <2>2, <2>5 DEF R2
  <2> QED
    BY <2>9, <2>10, <2>11 DEF P, Q, o, n
<1>11. [r \in Readers |-> Pending(r)]' = [r \in Readers |->
          LET d == cfg.delay[r]
              p == [q \in Readers |-> Pending(q)][r]
          IN Stream!Resize(SubSeq(p, 1, d), c.delay[r]) \o
             Stream!Resize(SubSeq(p, d + 1, Len(p)), c.delay[Driver])]
  BY <1>10
<1> QED
  BY <1>1, <1>8, <1>11 DEF Stream!Reshape, forceVars

-------------------------------------------------------------------------------
(* The beginning, and the steps the stream does not see *)

\* A new ring holds nothing but initial values.
LEMMA InitialCells ==
    ASSUME Init, NEW pos \in Nat
    PROVE  Cell(pos) = 0
<1>1. create_buffer(BufferSize(cfg))
  BY DEF Init
<1>2. BufferSize(cfg) \in Nat \ {0}
  BY InitInv, SizeBounds DEF RingInv
<1>3. /\ buffer_size = BufferSize(cfg) /\ buffer_is_quick = (BufferSize(cfg) = 1)
      /\ quick_value = 0
      /\ BufferSize(cfg) # 1 => store = [i \in 0..BufferSize(cfg) - 1 |-> 0]
  BY <1>1 DEF create_buffer
<1>4. pos % BufferSize(cfg) \in 0..BufferSize(cfg) - 1
  <2> DEFINE z == BufferSize(cfg)
  <2>1. z \in Nat \ {0}
    BY <1>2
  <2> HIDE DEF z
  <2>2. pos % z \in 0..z-1
    BY <2>1, DivMod
  <2> QED
    BY <2>2 DEF z
<1> QED
  BY <1>3, <1>4 DEF Cell

LEMMA InitialStream ==
    ASSUME Init, SafeScenario(scenario)
    PROVE  Stream!StreamInit
<1>1. /\ cfg = scenario.start /\ phase = "initialize" /\ period = 1
      /\ InitDelays(cfg) /\ create_buffer(BufferSize(cfg))
      /\ quick_access_enabled = (quick_access_possible /\ NoDelay(cfg))
      /\ force_value_flag = FALSE /\ got = [r \in Readers |-> << >>] /\ written = 0
  BY DEF Init
<1>2. SignalInv /\ RingInv /\ PendingFacts
  BY SignalInit, PendingIs DEF SignalInv
<1>3. IsConfig(cfg) /\ SamplesPerPeriod(cfg) \in Nat /\ BufferSize(cfg) \in Nat \ {0}
  BY <1>2, SizeBounds DEF RingInv
<1>4. Base = 0
  BY <1>1, <1>3 DEF Base
<1>5. \A pos \in Nat : Cell(pos) = 0
  BY InitialCells
<1>6. ASSUME NEW r \in Readers
      PROVE  Pending(r) = [i \in 1..cfg.delay[r] |-> Unset] \o Stream!Zeros(cfg.delay[Driver])
  <2> DEFINE d == cfg.delay[r]
             e == cfg.delay[Driver]
             P == Pending(r)
             F == [i \in 1..d |-> Unset]
             Z == Stream!Zeros(e)
  <2>1. /\ d \in Nat /\ e \in Nat /\ Mark(r) = -d /\ Tokens(r) = d + e
    <3>1. d \in Nat /\ e \in Nat
      BY <1>2, Marks
    <3>2. phase # "run"
      BY <1>1
    <3>3. Mark(r) = Base - d /\ Tokens(r) = d + e
      BY <1>2, <3>2, BorderMarks
    <3> QED
      BY <1>4, <3>1, <3>3
  <2>2. HasLen(P, d + e) /\ HasLen(F, d) /\ HasLen(Z, e)
    BY <1>2, <2>1 DEF PendingFacts, HasLen, Stream!Zeros
  <2>3. quick_access_enabled => d = 0 /\ e = 0
    <3>1. quick_access_enabled => MaxInDelay(cfg) + e = 0
      BY <1>1 DEF NoDelay
    <3>2. MaxInDelay(cfg) \in Nat /\ d <= MaxInDelay(cfg)
      BY <1>3, MaxInDelayBounds
    <3> QED
      BY <2>1, <3>1, <3>2
  <2>4. indelay_start_sample = 0 /\ in_delay_buffer[r] = F
    BY <1>1 DEF InitDelays
  <2>5. ASSUME NEW i \in 1..d PROVE P[i] = F[i]
    <3>1. i \in 1..Tokens(r) /\ ~quick_access_enabled
      BY <2>1, <2>3
    <3>2. PICK pos \in Int : pos = Mark(r) + (i - 1)
      BY <2>1
    <3>3. pos < indelay_start_sample /\ pos - indelay_start_sample + d + 1 = i
      BY <2>1, <2>4, <3>2
    <3>4. P[i] = in_delay_buffer[r][pos - indelay_start_sample + d + 1]
      BY <1>2, <3>1, <3>2, <3>3 DEF PendingFacts
    <3> QED
      BY <2>4, <3>3, <3>4
  <2>6. ASSUME NEW i \in 1..e PROVE P[d + i] = Z[i]
    <3>1. d + i \in 1..Tokens(r) /\ ~quick_access_enabled
      BY <2>1, <2>3
    <3>2. PICK pos \in Nat : pos = i - 1
      OBVIOUS
    <3>3. pos = Mark(r) + ((d + i) - 1) /\ pos >= indelay_start_sample
      BY <2>1, <2>4, <3>2
    <3>4. P[d + i] = Cell(pos)
      BY <1>2, <3>1, <3>3 DEF PendingFacts
    <3>5. Z[i] = 0
      BY DEF Stream!Zeros
    <3> QED
      BY <1>5, <3>4, <3>5
  <2> HIDE DEF d, e, P, F, Z
  <2>7. F \o Z = P
    BY <2>1, <2>2, <2>5, <2>6, ConcatIs
  <2> QED
    BY <2>7 DEF d, e, P, F, Z
<1> QED
  BY <1>1, <1>6 DEF Stream!StreamInit

\* Steps that move neither positions nor samples.
LEMMA PendingQuiet ==
    ASSUME UNCHANGED <<cfg, ringVars, delayVars, quick_value, quick_access_enabled>>,
           \A p \in Ports : Calls(p)' = Calls(p)
    PROVE  [r \in Readers |-> Pending(r)]' = [r \in Readers |-> Pending(r)]
<1> SUFFICES ASSUME NEW r \in Readers PROVE Pending(r)' = Pending(r)
  OBVIOUS
<1>1. Tokens(r)' = Tokens(r)
  BY DEF Tokens, Ports, delayVars
<1>2. \A i : Position(r, i)' = Position(r, i)
  BY DEF Position, Ports, delayVars
<1>3. \A pos : Cell(pos)' = Cell(pos)
  BY DEF Cell, ringVars
<1>4. \A pos : ValueAt(r, pos)' = ValueAt(r, pos)
  BY <1>3 DEF ValueAt, delayVars
<1> QED
  BY <1>1, <1>2, <1>4 DEF Pending

LEMMA StreamStep ==
    ASSUME SignalInv, SafeScenario(scenario), [Next]_vars
    PROVE  [Stream!StreamNext]_(Stream!streamVars)
<1>1. RingInv /\ ShortcutInv
  BY DEF SignalInv
<1>2. SignalInv'
  BY SignalNext
<1>3. ASSUME NEW p \in Ports, NEW k \in 0..cfg.delay[p] - 1, initialize(p, k)
      PROVE  Stream!StreamNext \/ UNCHANGED Stream!streamVars
  BY <1>3, InitializeStep DEF Stream!StreamNext, Ports
<1>4. ASSUME WriteCall PROVE Stream!StreamNext
  BY <1>4, ProduceStep DEF Stream!StreamNext
<1>5. ASSUME NEW r \in Readers, ReadCall(r) PROVE Stream!StreamNext
  BY <1>5, ConsumeStep DEF Stream!StreamNext
<1>6. ASSUME NEW e \in scenario.changes, e[1] = cfg, reschedule_cluster(e[2])
      PROVE  Stream!StreamNext
  <2>1. IsConfig(e[2]) /\ SafeChange(cfg, e[2])
    <3>1. scenario \in Scenarios
      BY <1>1 DEF RingInv
    <3> QED
      BY <3>1, <1>6, SignalAssumption DEF IsScenario, SafeScenario
  <2>2. ~quick_access_possible
    BY <1>1, <1>6 DEF ShortcutInv
  <2>3. Stream!Reshape(e[2]) /\ cfg' = e[2]
    BY <1>2, <1>6, <2>1, <2>2, RescheduleStep
  <2> QED
    BY <2>3 DEF Stream!StreamNext
<1>7. ASSUME StartPeriod PROVE UNCHANGED Stream!streamVars
  <2>1. \A p \in Ports : Calls(p)' = Calls(p)
    <3>1. call_counter' = [p \in Ports |-> Calls(p)]
      BY <1>7 DEF StartPeriod
    <3>2. \A p \in Ports : Calls(p) \in Nat
      BY <1>1, CallsSplit
    <3> QED
      BY <3>1, <3>2 DEF Calls
  <2>2. UNCHANGED <<cfg, ringVars, delayVars, quick_value, quickVars, forceVars, got, written>>
    BY <1>7 DEF StartPeriod
  <2> QED
    BY <2>1, <2>2, PendingQuiet DEF Stream!streamVars, quickVars, forceVars
<1>8. ASSUME EndPeriod \/ KeepSchedule PROVE UNCHANGED Stream!streamVars
  <2>1. UNCHANGED <<cfg, call_counter, ringVars, delayVars, quick_value, quickVars,
                    force_value_flag, got, written>>
    BY <1>8 DEF EndPeriod, KeepSchedule, forceVars
  <2>2. \A p \in Ports : Calls(p)' = Calls(p)
    BY <2>1 DEF Calls
  <2> QED
    BY <2>1, <2>2, PendingQuiet DEF Stream!streamVars, quickVars
<1>9. ASSUME \/ force_forced_value \/ release_value
             \/ force_trigger_process \/ get_number_of_trace_value_sample
      PROVE  Stream!StreamNext
  <2>1. UNCHANGED <<clusterVars, ringVars, delayVars, quick_value, got, written>>
    BY <1>9 DEF force_forced_value, release_value, force_trigger_process,
                get_number_of_trace_value_sample
  <2>2. scenario' = scenario /\ scenario.disturbed
    BY <1>1, <1>9 DEF force_forced_value, release_value, force_trigger_process,
           get_number_of_trace_value_sample, clusterVars, Disturbed, ShortcutInv
  <2>3. ~quick_access_enabled /\ ~quick_access_enabled'
    BY <1>1, <1>2, <2>2 DEF ShortcutInv, SignalInv
  <2>4. quick_access_enabled' = quick_access_enabled /\ force_value_flag' \in BOOLEAN
    BY <1>1, <1>2, <2>3 DEF ShortcutInv, SignalInv
  <2>5. \A p \in Ports : Calls(p)' = Calls(p)
    BY <2>1 DEF Calls, clusterVars
  <2>6. [r \in Readers |-> Pending(r)]' = [r \in Readers |-> Pending(r)]
    BY <2>1, <2>4, <2>5, PendingQuiet DEF clusterVars
  <2> QED
    BY <2>1, <2>4, <2>6 DEF Stream!StreamNext, Stream!SwitchForce, clusterVars
<1>10. ASSUME UNCHANGED vars PROVE UNCHANGED Stream!streamVars
  <2>1. \A p \in Ports : Calls(p)' = Calls(p)
    BY <1>10 DEF vars, clusterVars, Calls
  <2> QED
    BY <1>10, <2>1, PendingQuiet DEF vars, clusterVars, quickVars, forceVars, Stream!streamVars
<1> QED
  BY <1>3, <1>4, <1>5, <1>6, <1>7, <1>8, <1>9, <1>10 DEF Next, Rest

\* Whatever the rates, the delays, the order of the calls, the presets, the forced
\* values and the re-schedulings of a safe scenario: the ring buffer, the delay
\* buffers and the shortcut deliver the driver's samples to every reader once, in
\* order, behind both delays. SafeScenario leaves out the changes after which the
\* code does not do so, and disturbances of a signal whose readers may take the
\* shortcut.
THEOREM SignalImplementsStream == Spec /\ SafeScenario(scenario) => ImplementsStream
<1> DEFINE Inv == SignalInv /\ SafeScenario(scenario)
<1>1. Init /\ SafeScenario(scenario) => Inv /\ Stream!StreamInit
  BY SignalInit, InitialStream
<1>2. Inv /\ [Next]_vars => Inv' /\ [Stream!StreamNext]_(Stream!streamVars)
  BY SignalNext, StreamStep
<1> HIDE DEF Inv
<1> QED
  BY <1>1, <1>2, PTL DEF Spec, ImplementsStream, Stream!StreamSpec

-------------------------------------------------------------------------------
(* Types, and the bound on the samples written *)

BoundInv ==
  /\ cfg \in {scenario.start} \cup {e[2] : e \in scenario.changes}
  /\ single \in BOOLEAN
  /\ force_proc \in {"none", "enabled", "triggered"}
  /\ written <= MaxSamples
  /\ phase = "run" =>
       written + (cfg.calls[Driver] - CallsDone(Driver)) * cfg.rate[Driver] <= MaxSamples

LEMMA ScenarioStays == ASSUME [Next]_vars PROVE scenario' = scenario
BY DEF Next, vars, clusterVars, initialize, StartPeriod, WriteCall, ReadCall, EndPeriod,
       KeepSchedule, reschedule_cluster, force_forced_value, release_value,
       force_trigger_process, get_number_of_trace_value_sample, Rest

LEMMA BoundNext ==
    ASSUME RingInv, ShapeInv, BoundInv, [Next]_vars
    PROVE  BoundInv'
<1>1. scenario' = scenario
  BY ScenarioStays
<1>2. /\ cfg.calls[Driver] \in Nat \ {0} /\ cfg.rate[Driver] \in Nat \ {0}
      /\ written \in Nat /\ MaxSamples \in Nat /\ Driver \in Ports
      /\ period \in Nat \ {0} /\ call_counter \in [Ports -> Int]
  BY ConfigTypes, SignalAssumption DEF RingInv, ShapeInv, Ports
<1>3. phase = "run" => CallsDone(Driver) \in 0..cfg.calls[Driver]
  BY <1>2 DEF RingInv, CallsInPeriod
<1>4. ASSUME NEW p \in Ports, NEW k \in 0..cfg.delay[p] - 1, initialize(p, k) PROVE BoundInv'
  <2>1. UNCHANGED <<clusterVars, forceVars, written>>
    BY <1>4 DEF initialize
  <2> QED
    BY <2>1 DEF BoundInv, CallsDone, clusterVars, forceVars
<1>5. ASSUME StartPeriod PROVE BoundInv'
  <2>1. /\ UNCHANGED <<cfg, single, period, forceVars, written>>
        /\ written + SamplesPerPeriod(cfg) <= MaxSamples
        /\ call_counter' = [p \in Ports |-> Calls(p)]
    BY <1>5 DEF StartPeriod
  <2>2. CallsDone(Driver)' = 0
    <3>1. CASE phase = "initialize"
      <4>1. period = 1 /\ call_counter[Driver] = -1
        BY <1>2, <3>1 DEF RingInv, CallsInPeriod
      <4>2. call_counter'[Driver] = 0
        BY <1>2, <2>1, <4>1 DEF Calls
      <4> QED
        BY <1>2, <2>1, <4>1, <4>2 DEF CallsDone
    <3>2. CASE phase = "reinitialize"
      <4>1. CallsDone(Driver) = 0
        BY <1>2, <3>2 DEF RingInv, CallsInPeriod
      <4>2. call_counter'[Driver] = call_counter[Driver]
        BY <1>2, <2>1, <3>2, CallsSplit
      <4> QED
        BY <2>1, <4>1, <4>2 DEF CallsDone
    <3> QED
      BY <1>5, <3>1, <3>2 DEF StartPeriod
  <2>3. SamplesPerPeriod(cfg) = cfg.calls[Driver] * cfg.rate[Driver]
    BY <1>2 DEF SamplesPerPeriod
  <2>4. \A c, r \in Nat : (c - 0) * r = c * r
    OBVIOUS
  <2>5. (cfg.calls[Driver] - 0) * cfg.rate[Driver] = SamplesPerPeriod(cfg)
    BY <1>2, <2>3, <2>4
  <2> QED
    BY <1>1, <2>1, <2>2, <2>5 DEF BoundInv, forceVars
<1>6. ASSUME WriteCall PROVE BoundInv'
  <2> DEFINE left == cfg.calls[Driver] - CallsDone(Driver)
             n == cfg.rate[Driver]
  <2>1. /\ UNCHANGED <<cfg, single, phase, period, forceVars>>
        /\ CanCall(Driver) /\ written' = written + n
        /\ call_counter' = [call_counter EXCEPT ![Driver] = @ + 1]
    BY <1>6 DEF WriteCall
  <2>2. left \in Nat \ {0} /\ phase = "run"
    BY <1>2, <1>3, <2>1 DEF CanCall
  <2>3. CallsDone(Driver)' = CallsDone(Driver) + 1
    <3>1. call_counter'[Driver] = call_counter[Driver] + 1
      BY <1>2, <2>1
    <3>2. (period - 1) * cfg.calls[Driver] \in Int /\ call_counter[Driver] \in Int
      BY <1>2
    <3> QED
      BY <2>1, <3>1, <3>2 DEF CallsDone
  <2>4. cfg.calls[Driver] - (CallsDone(Driver) + 1) = left - 1
    BY <1>2, <1>3, <2>2
  <2>5. written + left * n <= MaxSamples
    BY <2>2 DEF BoundInv
  <2> HIDE DEF left, n
  <2>6. n \in Nat
    BY <1>2 DEF n
  <2>7. (left - 1) * n + n = left * n /\ (left - 1) * n \in Nat
    BY <2>2, <2>6, TimesNat
  <2>8. written + n <= MaxSamples /\ (written + n) + (left - 1) * n <= MaxSamples
    <3>1. \A w, a, b, m \in Nat : w + (a + b) <= m => w + b <= m /\ (w + b) + a <= m
      OBVIOUS
    <3>2. written + ((left - 1) * n + n) <= MaxSamples
      BY <2>5, <2>7
    <3> QED
      BY <1>2, <2>6, <2>7, <3>1, <3>2
  <2> QED
    BY <1>1, <2>1, <2>3, <2>4, <2>8 DEF BoundInv, forceVars, n
<1>7. ASSUME NEW q \in Readers, ReadCall(q) PROVE BoundInv'
  <2>1. /\ UNCHANGED <<cfg, single, phase, period, forceVars, written>>
        /\ call_counter' = [call_counter EXCEPT ![q] = @ + 1]
    BY <1>7 DEF ReadCall
  <2>2. q # Driver
    BY SignalAssumption
  <2>3. CallsDone(Driver)' = CallsDone(Driver)
    BY <1>2, <2>1, <2>2 DEF CallsDone
  <2> QED
    BY <1>1, <2>1, <2>3 DEF BoundInv, forceVars
<1>8. ASSUME EndPeriod \/ KeepSchedule PROVE BoundInv'
  <2>1. /\ UNCHANGED <<cfg, single, written>> /\ phase' # "run"
        /\ force_proc' \in {force_proc, "triggered"}
    BY <1>8 DEF EndPeriod, KeepSchedule, forceVars
  <2> QED
    BY <1>1, <2>1 DEF BoundInv
<1>9. ASSUME NEW e \in scenario.changes, reschedule_cluster(e[2]) PROVE BoundInv'
  <2>1. /\ cfg' = e[2] /\ phase' = "reinitialize" /\ UNCHANGED <<forceVars, written>>
        /\ single' \in BOOLEAN
    BY <1>9 DEF reschedule_cluster
  <2> QED
    BY <1>1, <2>1 DEF BoundInv, forceVars
<1>10. ASSUME \/ force_forced_value \/ release_value
              \/ force_trigger_process \/ get_number_of_trace_value_sample
       PROVE  BoundInv'
  <2>1. /\ UNCHANGED <<clusterVars, written>>
        /\ force_proc' \in {force_proc, "enabled", "none"}
    BY <1>10 DEF force_forced_value, release_value, force_trigger_process,
                 get_number_of_trace_value_sample, forceVars
  <2> QED
    BY <2>1 DEF BoundInv, CallsDone, clusterVars
<1>11. ASSUME UNCHANGED vars PROVE BoundInv'
  BY <1>11 DEF BoundInv, CallsDone, vars, clusterVars, forceVars
<1> QED
  BY <1>4, <1>5, <1>6, <1>7, <1>8, <1>9, <1>10, <1>11 DEF Next, Rest

LEMMA BoundInit == Init => BoundInv
<1> SUFFICES ASSUME Init PROVE BoundInv
  OBVIOUS
<1>1. /\ cfg = scenario.start /\ single \in BOOLEAN /\ force_proc = "none"
      /\ written = 0 /\ phase = "initialize"
  BY DEF Init
<1>2. 0 <= MaxSamples
  BY SignalAssumption
<1> QED
  BY <1>1, <1>2 DEF BoundInv

LEMMA SoundBuffers == ASSUME SignalInv, BoundInv PROVE BuffersSound
<1>1. RingInv /\ ShapeInv /\ ShortcutInv
  BY DEF SignalInv
<1>2. buffer_size \in Nat \ {0}
  BY <1>1, SizeBounds DEF RingInv
<1>3. buffer_offsets \in [Ports -> Int]
  <2>1. \A p \in Ports : cfg.delay[p] \in Nat
    BY <1>1, ConfigTypes DEF RingInv
  <2> QED
    BY <1>1, <2>1 DEF RingInv, Offsets
<1>4. ASSUME NEW r \in Readers PROVE Len(in_delay_buffer[r]) = cfg.delay[r]
  <2>1. cfg.delay[r] \in Nat /\ HasLen(in_delay_buffer[r], cfg.delay[r])
    BY <1>1, Marks DEF ShapeInv
  <2> QED
    BY <2>1, IsSequence
<1>5. written \in 0..MaxSamples
  BY <1>1, SignalAssumption DEF ShapeInv, BoundInv
<1>6. {quick_access_enabled, quick_access_possible, force_value_flag,
       scheduled_force_value_flag} \subseteq BOOLEAN
  BY <1>1 DEF ShortcutInv
<1>7. buffer_is_quick \in BOOLEAN
  BY <1>1 DEF ShapeInv
<1>8. TypeOK
  BY <1>1, <1>2, <1>3, <1>4, <1>5, <1>6, <1>7
  DEF TypeOK, RingInv, ShapeInv, BoundInv, CallsInPeriod
<1>9. QuickValueIsNext
  <2> SUFFICES ASSUME quick_access_enabled, NEW r \in Readers, Tokens(r) > 0
               PROVE  Tokens(r) = 1 /\ cfg.rate[r] = 1
    BY DEF QuickValueIsNext
  <2>1. Tokens(r) <= 1 /\ MayBeSingle(cfg)
    BY <1>1 DEF ShortcutInv
  <2>2. Tokens(r) \in Nat
    BY <1>1, Marks
  <2> QED
    BY <2>1, <2>2 DEF MayBeSingle, Ports
<1> QED
  BY <1>8, <1>9 DEF BuffersSound

\* In the same scenarios: types, buffers as large as their sizes, delay buffers as
\* long as the delays, and the shortcut only with one sample per reader on the way.
THEOREM BuffersStaySound == Spec /\ SafeScenario(scenario) => []BuffersSound
<1> DEFINE Inv == SignalInv /\ SafeScenario(scenario) /\ BoundInv
<1>1. Init /\ SafeScenario(scenario) => Inv
  BY SignalInit, BoundInit
<1>2. Inv /\ [Next]_vars => Inv'
  BY SignalNext, BoundNext DEF SignalInv
<1>3. Inv => BuffersSound
  BY SoundBuffers
<1> HIDE DEF Inv
<1> QED
  BY <1>1, <1>2, <1>3, PTL DEF Spec

-------------------------------------------------------------------------------
(* What a trace file records *)

Recorded == scenario.traced /\ scenario.changes = {}

\* Every cell of the window behind the write position holds its sample, or a
\* preset, or, before the first samples, an initial value.
WindowInv ==
  /\ written = Calls(Driver) * cfg.rate[Driver]
  /\ \A pos \in Nat : pos < Edge /\ pos >= Edge - buffer_size =>
       \/ Cell(pos) \in {pos + 1 - cfg.delay[Driver], Preset}
       \/ pos + 1 - cfg.delay[Driver] <= 0 /\ Cell(pos) = 0

LEMMA WindowInit == Init => WindowInv
<1> SUFFICES ASSUME Init PROVE WindowInv
  OBVIOUS
<1>1. RingInv /\ phase = "initialize" /\ written = 0 /\ Driver \in Ports
  BY InitInv DEF Init, Ports
<1>2. Calls(Driver) = 0
  BY <1>1 DEF RingInv, CallsInPeriod, Calls
<1>3. /\ cfg.rate[Driver] \in Nat /\ cfg.delay[Driver] \in Nat
  BY <1>1, ConfigTypes DEF RingInv
<1>4. Calls(Driver) * cfg.rate[Driver] = 0 /\ Edge = cfg.delay[Driver]
  BY <1>2, <1>3 DEF Edge
<1>5. ASSUME NEW pos \in Nat, pos < Edge
      PROVE  pos + 1 - cfg.delay[Driver] <= 0 /\ Cell(pos) = 0
  BY <1>3, <1>4, <1>5, InitialCells
<1> QED
  BY <1>1, <1>4, <1>5 DEF WindowInv

\* Steps that leave the calls and the cells alone.
LEMMA WindowQuiet ==
    ASSUME WindowInv, UNCHANGED <<cfg, ringVars, quick_value, written>>,
           Calls(Driver)' = Calls(Driver)
    PROVE  WindowInv'
<1>1. Edge' = Edge
  BY DEF Edge
<1>2. \A pos : Cell(pos)' = Cell(pos)
  BY DEF Cell, ringVars
<1> QED
  BY <1>1, <1>2 DEF WindowInv, ringVars

LEMMA WindowPreset ==
    ASSUME SignalInv, WindowInv, NEW p \in Ports, NEW k \in 0..cfg.delay[p] - 1, initialize(p, k)
    PROVE  WindowInv'
<1>1. UNCHANGED <<clusterVars, buffer_size, buffer_is_quick, written>>
  BY DEF initialize
<1>2. Edge' = Edge /\ Calls(Driver)' = Calls(Driver) /\ cfg' = cfg
  BY <1>1 DEF Edge, Calls, clusterVars
<1>3. ASSUME NEW pos \in Nat PROVE Cell(pos)' \in {Cell(pos), Preset}
  <2>1. CASE p # Driver
    <3>1. UNCHANGED <<store, quick_value>>
      BY <2>1 DEF initialize, InitializeReader
    <3> QED
      BY <1>1, <3>1 DEF Cell
  <2>2. CASE p = Driver
    <3>1. InitializeDriver(k)
      BY <2>2 DEF initialize
    <3>2. CASE buffer_is_quick
      BY <1>1, <3>1, <3>2 DEF InitializeDriver, Cell
    <3>3. CASE ~buffer_is_quick
      <4>1. PICK at : store' = [store EXCEPT ![at] = Preset]
        BY <3>1, <3>3 DEF InitializeDriver
      <4>2. buffer_size \in Nat \ {0} /\ DOMAIN store = 0..buffer_size - 1
        <5>1. Readers # {}
          BY SignalAssumption
        <5> QED
          BY <3>3, <5>1, Marks DEF SignalInv, ShapeInv
      <4>3. pos % buffer_size \in DOMAIN store
        BY <4>2, DivMod
      <4>4. store'[pos % buffer_size] \in {store[pos % buffer_size], Preset}
        BY <4>1, <4>3
      <4> QED
        BY <1>1, <3>3, <4>4 DEF Cell
    <3> QED
      BY <3>2, <3>3
  <2> QED
    BY <2>1, <2>2
<1> QED
  BY <1>1, <1>2, <1>3 DEF WindowInv, clusterVars

LEMMA WindowWrite ==
    ASSUME SignalInv, WindowInv, WriteCall, ~quick_access_enabled
    PROVE  WindowInv'
<1> DEFINE n == cfg.rate[Driver]
           d == cfg.delay[Driver]
           z == buffer_size
<1>1. RingInv /\ RingInv' /\ ShapeInv
  BY WriteCallInv DEF SignalInv
<1>2. PICK r \in Readers : TRUE
  BY SignalAssumption
<1>3. /\ UNCHANGED <<cfg, phase, buffer_size, buffer_is_quick>> /\ phase = "run"
      /\ written' = written + n
  BY DEF WriteCall, CanCall
<1>4. /\ Edge \in Nat /\ z \in Nat \ {0} /\ n \in Nat \ {0} /\ d \in Nat
      /\ Edge' = Edge + n /\ Tokens(r)' = Tokens(r) + n /\ Tokens(r) \in Nat
  BY <1>1, <1>2, Marks, WriteMarks
<1>5. n <= z
  <2>1. Tokens(r)' <= z
    BY <1>1, <1>2, <1>3, LargeEnoughNext DEF RingIsLargeEnough
  <2> QED
    BY <1>4, <2>1
<1>6. /\ written = Calls(Driver) * n /\ written' = Calls(Driver)' * cfg'.rate[Driver]
      /\ Edge = written + d /\ written \in Nat
  <2>1. Driver \in Ports
    BY DEF Ports
  <2>2. Calls(Driver)' * cfg.rate[Driver] = Calls(Driver) * cfg.rate[Driver] + cfg.rate[Driver]
    BY <1>1, <2>1, CallStep DEF WriteCall, delayVars
  <2>3. written = Calls(Driver) * n
    BY DEF WindowInv
  <2>4. Edge = written + d
    BY <2>3 DEF Edge
  <2> QED
    BY <1>1, <1>3, <2>2, <2>3, <2>4 DEF ShapeInv
<1>7. ASSUME NEW pos \in Nat, pos < Edge + n, pos >= Edge + n - z
      PROVE  \/ Cell(pos)' \in {pos + 1 - d, Preset}
             \/ pos + 1 - d <= 0 /\ Cell(pos)' = 0
  <2>1. CASE buffer_is_quick
    <3>1. z = 1 /\ n = 1 /\ pos = Edge
      <4>1. z = 1
        BY <1>1, <2>1 DEF ShapeInv
      <4> QED
        BY <1>4, <1>5, <1>7, <4>1
    <3>2. Cell(pos)' = written + 1
      BY <1>3, <2>1 DEF Cell, WriteCall
    <3>3. written + 1 = pos + 1 - d
      BY <1>4, <1>6, <3>1
    <3> QED
      BY <3>2, <3>3
  <2>2. CASE ~buffer_is_quick /\ pos < Edge
    <3>1. store'[pos % z] = store[pos % z]
      BY <1>7, <2>2, CellsWritten
    <3>2. Cell(pos)' = Cell(pos)
      BY <1>3, <2>2, <3>1 DEF Cell
    <3>3. pos >= Edge - z
      BY <1>4, <1>7
    <3> QED
      BY <2>2, <3>2, <3>3 DEF WindowInv
  <2>3. CASE ~buffer_is_quick /\ pos >= Edge
    <3>1. PICK j \in 0..n-1 : j = pos - Edge
      BY <1>4, <1>7, <2>3
    <3>2. pos = Edge + j
      BY <1>4, <3>1
    <3>3. store'[pos % z] = written + 1 + j
      BY <2>3, <3>2, CellsWritten
    <3>4. Cell(pos)' = written + 1 + j
      BY <1>3, <2>3, <3>3 DEF Cell
    <3>5. written + 1 + j = pos + 1 - d
      BY <1>4, <1>6, <3>2
    <3> QED
      BY <3>4, <3>5
  <2> QED
    BY <1>4, <2>1, <2>2, <2>3
<1> QED
  BY <1>3, <1>4, <1>6, <1>7 DEF WindowInv

LEMMA WindowNext ==
    ASSUME Recorded, SignalInv, WindowInv, [Next]_vars
    PROVE  WindowInv'
<1>1. ~quick_access_possible /\ ~quick_access_enabled
  BY DEF Recorded, SignalInv, ShortcutInv
<1>2. RingInv /\ period \in Nat \ {0} /\ Driver \in Ports
  BY DEF SignalInv, RingInv, Ports
<1>3. ASSUME StartPeriod PROVE WindowInv'
  <2>1. call_counter' = [p \in Ports |-> Calls(p)] /\ Calls(Driver) \in Nat
    BY <1>2, <1>3, CallsSplit DEF StartPeriod
  <2>2. Calls(Driver)' = Calls(Driver)
    BY <1>2, <2>1 DEF Calls
  <2> QED
    BY <1>3, <2>2, WindowQuiet DEF StartPeriod
<1>4. ASSUME NEW q \in Readers, ReadCall(q) PROVE WindowInv'
  <2>1. SwitchesAt(q) = {}
    BY <1>1 DEF SwitchesAt
  <2>2. UNCHANGED <<cfg, ringVars, quick_value, written, phase>> /\ phase = "run"
    BY <1>4, <2>1 DEF ReadCall, CanCall
  <2>3. Calls(Driver)' = Calls(Driver)
    <3>1. call_counter' = [call_counter EXCEPT ![q] = @ + 1] /\ q # Driver
      BY <1>4, SignalAssumption DEF ReadCall
    <3>2. call_counter'[Driver] = call_counter[Driver]
      BY <1>2, <3>1
    <3> QED
      BY <3>2 DEF Calls
  <2> QED
    BY <2>2, <2>3, WindowQuiet
<1>5. ASSUME EndPeriod PROVE WindowInv'
  <2>1. UNCHANGED <<cfg, ringVars, quick_value, written, call_counter>>
    BY <1>5 DEF EndPeriod
  <2> QED
    BY <2>1, WindowQuiet DEF Calls
<1>6. ASSUME KeepSchedule PROVE WindowInv'
  BY <1>6, WindowQuiet DEF KeepSchedule, Calls
<1>7. ASSUME \/ force_forced_value \/ release_value
             \/ force_trigger_process \/ get_number_of_trace_value_sample
      PROVE  WindowInv'
  <2>1. UNCHANGED <<clusterVars, ringVars, quick_value, written>>
    BY <1>7 DEF force_forced_value, release_value, force_trigger_process,
                get_number_of_trace_value_sample
  <2> QED
    BY <2>1, WindowQuiet DEF clusterVars, Calls, WindowInv
<1>8. ASSUME UNCHANGED vars PROVE WindowInv'
  BY <1>8, WindowQuiet DEF vars, clusterVars, Calls, WindowInv
<1>9. scenario.changes = {}
  BY DEF Recorded
<1> QED
  BY <1>1, <1>3, <1>4, <1>5, <1>6, <1>7, <1>8, <1>9, WindowPreset, WindowWrite DEF Next, Rest

LEMMA RecordedStream ==
    ASSUME SignalInv, WindowInv, EndPeriod, ~force_value_flag
    PROVE  RecordsStream
<1> DEFINE s == SamplesPerPeriod(cfg)
           d == cfg.delay[Driver]
           c == call_counter[Driver]
           m == cfg.calls[Driver]
           n == cfg.rate[Driver]
<1> SUFFICES ASSUME NEW i \in 1..s
             PROVE  \/ Traced[i] \in {written - s + i - d, Preset}
                    \/ written - s + i - d <= 0 /\ Traced[i] = 0
  BY DEF RecordsStream
<1>1. RingInv /\ Driver \in Ports /\ phase = "run" /\ CallsDone(Driver) = m
  BY DEF SignalInv, EndPeriod, Ports
<1>2. /\ s \in Nat /\ d \in Nat /\ m \in Nat /\ n \in Nat /\ n * m = s
      /\ period \in Nat \ {0} /\ c \in Int
      /\ buffer_size = s + d + MaxInDelay(cfg) /\ MaxInDelay(cfg) \in Nat
  BY <1>1, ConfigTypes, SizeBounds DEF RingInv
<1>3. PICK k \in Nat : period - 1 = k
  BY <1>2
<1>4. c = Calls(Driver) /\ c = k * m + m /\ k * m \in Nat
  <2>1. c = Calls(Driver)
    BY <1>1, CallsSplit
  <2>2. k * m \in Nat
    BY <1>2, TimesNat
  <2> HIDE DEF c, m
  <2>3. c - k * m = m
    BY <1>1, <1>3 DEF CallsDone, c, m
  <2> QED
    BY <1>2, <2>1, <2>2, <2>3
<1>5. written = c * n /\ Edge = written + d
  BY <1>4 DEF WindowInv, Edge
<1>6. (c - m) * n = k * s /\ written = k * s + s /\ k * s \in Nat
  <2> HIDE DEF c, m, n, s
  <2>1. c - m = k * m
    BY <1>2, <1>4
  <2>2. \A x, y, w \in Nat : (x * y) * w = x * (w * y) /\ (x * y + y) * w = x * (w * y) + w * y
    OBVIOUS
  <2>3. (k * m) * n = k * s /\ (k * m + m) * n = k * s + s
    BY <1>2, <2>2
  <2>4. k * s \in Nat
    BY <1>2, TimesNat
  <2> QED
    BY <1>4, <1>5, <2>1, <2>3, <2>4
<1>7. Traced[i] = Cell((c - m) * n + (i - 1))
  BY DEF Traced, TracedPosition
<1> HIDE DEF c, m, n, s, d
<1>8. PICK pos \in Nat : pos = k * s + (i - 1)
  BY <1>6
<1>9. /\ pos < Edge /\ pos >= Edge - buffer_size
      /\ pos + 1 - d = written - s + i - d
  BY <1>2, <1>5, <1>6, <1>8
<1>10. Traced[i] = Cell(pos)
  BY <1>6, <1>7, <1>8
<1>11. \/ Cell(pos) \in {pos + 1 - d, Preset}
       \/ pos + 1 - d <= 0 /\ Cell(pos) = 0
  BY <1>9 DEF WindowInv, d
<1> QED
  BY <1>9, <1>10, <1>11

GotForced(r) == \A j \in DOMAIN got[r] : got[r][j] = Forced

\* A trigger that is still to come keeps the cluster from running, so the flag stays as
\* it is while the readers are called; every reader called since the start of a forced
\* period got the forced value.
ForceInv ==
  /\ DOMAIN got = Readers
  /\ force_proc = "triggered" => phase = "between"
  /\ phase = "run" /\ force_value_flag =>
       \A r \in Readers : CallsDone(r) # 0 => GotForced(r)

LEMMA ForceInit == Init => ForceInv
  BY DEF Init, ForceInv

LEMMA ForceStart == ASSUME RingInv, ForceInv, StartPeriod PROVE ForceInv'
<1>1. ASSUME NEW r \in Readers PROVE CallsDone(r)' = 0
  <2>1. r \in Ports /\ cfg.calls[r] \in Nat /\ period \in Nat \ {0} /\ call_counter[r] \in Int
    BY ConfigTypes DEF Ports, RingInv
  <2>2. phase \in {"initialize", "reinitialize"} /\ UNCHANGED <<cfg, period>>
        /\ call_counter'[r] = Calls(r)
    BY <2>1 DEF StartPeriod
  <2>3. CASE phase = "initialize"
    BY <2>1, <2>2, <2>3 DEF RingInv, CallsInPeriod, Calls, CallsDone
  <2>4. CASE phase = "reinitialize"
    <3>1. CallsDone(r) = 0 /\ call_counter'[r] = call_counter[r]
      BY <2>1, <2>2, <2>4, CallsSplit DEF RingInv, CallsInPeriod
    <3> QED
      BY <2>2, <3>1 DEF CallsDone
  <2> QED
    BY <2>2, <2>3, <2>4
<1>2. UNCHANGED <<got, forceVars>> /\ phase' = "run" /\ phase # "between"
  BY DEF StartPeriod
<1> QED
  BY <1>1, <1>2 DEF ForceInv, forceVars

\* With the shortcut closed a reader of a forced signal gets nothing else.
LEMMA ForceRead ==
    ASSUME RingInv, ForceInv, ~quick_access_enabled, NEW q \in Readers, ReadCall(q)
    PROVE  ForceInv'
<1>1. /\ UNCHANGED <<cfg, phase, period, forceVars>> /\ phase = "run"
      /\ call_counter' = [call_counter EXCEPT ![q] = @ + 1]
      /\ \/ got' = [got EXCEPT ![q] = [i \in 1..cfg.rate[q] |-> read(q, i - 1)]]
         \/ got' = [got EXCEPT ![q] = << >>]
  BY DEF ReadCall, CanCall
<1>2. ASSUME NEW r \in Readers, r # q
      PROVE  CallsDone(r)' = CallsDone(r) /\ GotForced(r)' = GotForced(r)
  <2>1. call_counter'[r] = call_counter[r] /\ got'[r] = got[r]
    BY <1>1, <1>2 DEF ForceInv, RingInv, Ports
  <2> QED
    BY <1>1, <2>1 DEF CallsDone, GotForced
<1>3. ASSUME force_value_flag PROVE GotForced(q)'
  <2>1. \A i : read(q, i) = Forced
    BY <1>3 DEF read
  <2> DEFINE all == [i \in 1..cfg.rate[q] |-> read(q, i - 1)]
  <2>2. \A j \in DOMAIN all : all[j] = Forced
    BY <2>1
  <2>3. \A j \in DOMAIN << >> : << >>[j] = Forced
    OBVIOUS
  <2>4. got'[q] = all \/ got'[q] = << >>
    BY <1>1 DEF ForceInv
  <2> HIDE DEF all
  <2> QED
    BY <2>2, <2>3, <2>4 DEF GotForced
<1>4. DOMAIN got' = Readers /\ phase' = phase /\ UNCHANGED <<force_value_flag, force_proc>>
  BY <1>1 DEF ForceInv, forceVars
<1> QED
  BY <1>1, <1>2, <1>3, <1>4 DEF ForceInv

LEMMA ForceNext ==
    ASSUME Recorded, SignalInv, ForceInv, [Next]_vars
    PROVE  ForceInv'
<1>1. RingInv /\ ~quick_access_enabled
  BY DEF Recorded, SignalInv, ShortcutInv
<1>2. ASSUME NEW p \in Ports, NEW k \in 0..cfg.delay[p] - 1, initialize(p, k) PROVE ForceInv'
  <2>1. UNCHANGED <<cfg, phase, period, call_counter, forceVars, got>>
    BY <1>2 DEF initialize, clusterVars
  <2> QED
    BY <2>1 DEF forceVars, ForceInv, GotForced, CallsDone
<1>3. ASSUME WriteCall PROVE ForceInv'
  <2>1. /\ UNCHANGED <<cfg, phase, period, forceVars, got>>
        /\ call_counter' = [call_counter EXCEPT ![Driver] = @ + 1]
    BY <1>3 DEF WriteCall
  <2>2. \A r \in Readers : CallsDone(r)' = CallsDone(r)
    BY <1>1, <2>1, SignalAssumption DEF CallsDone, RingInv
  <2> QED
    BY <2>1, <2>2 DEF ForceInv, GotForced, forceVars
<1>4. ASSUME EndPeriod PROVE ForceInv'
  BY <1>4 DEF EndPeriod, ForceInv
<1>5. ASSUME KeepSchedule PROVE ForceInv'
  BY <1>5 DEF KeepSchedule, ForceInv, forceVars
<1>6. ASSUME force_forced_value \/ release_value PROVE ForceInv'
  <2>1. /\ UNCHANGED <<cfg, phase, period, call_counter, got>>
        /\ phase = "run" => force_value_flag' = force_value_flag
        /\ force_proc' \in {force_proc, "enabled"}
    BY <1>6 DEF force_forced_value, release_value, clusterVars
  <2>2. \A r : CallsDone(r)' = CallsDone(r)
    BY <2>1 DEF CallsDone
  <2> QED
    BY <2>1, <2>2 DEF ForceInv, GotForced
<1>7. ASSUME force_trigger_process PROVE ForceInv'
  BY <1>7 DEF force_trigger_process, clusterVars, ForceInv
<1>8. ASSUME get_number_of_trace_value_sample \/ UNCHANGED vars PROVE ForceInv'
  BY <1>8 DEF get_number_of_trace_value_sample, vars, clusterVars, forceVars, ForceInv,
              GotForced, CallsDone
<1>9. scenario.changes = {}
  BY DEF Recorded
<1> QED
  BY <1>1, <1>2, <1>3, <1>4, <1>5, <1>6, <1>7, <1>8, <1>9, ForceStart, ForceRead DEF Next, Rest

LEMMA RecordedForced ==
    ASSUME SignalInv, ForceInv, EndPeriod, force_value_flag
    PROVE  RecordsForced
<1>1. \A i \in 1..SamplesPerPeriod(cfg) : Traced[i] = Forced
  BY DEF Traced
<1>2. ASSUME NEW r \in Readers PROVE GotForced(r)
  <2>1. r \in Ports /\ cfg.calls[r] \in Nat \ {0}
    BY DEF Ports, SignalInv, RingInv, IsConfig
  <2>2. phase = "run" /\ CallsDone(r) # 0
    BY <2>1 DEF EndPeriod
  <2> QED
    BY <2>2 DEF ForceInv
<1> QED
  BY <1>1, <1>2 DEF RecordsForced, GotForced

\* Without re-scheduling, whatever else happens to a traced signal: at the end of
\* a period trace() records the samples of that period, each behind the delay of the
\* driver's port, or, if the signal was forced, the value all readers got.
THEOREM TraceRecordsStream == Spec => TraceIsDelayedStream
<1> DEFINE Inv == Recorded => SignalInv /\ WindowInv /\ ForceInv
           Step == phase = "run" /\ phase' = "between" /\ scenario.traced /\ scenario.changes = {} =>
                     IF force_value_flag THEN RecordsForced ELSE RecordsStream
<1>1. Init => Inv
  BY SignalInit, WindowInit, ForceInit DEF Recorded, SafeScenario
<1>2. Inv /\ [Next]_vars => Inv'
  <2> SUFFICES ASSUME Inv, [Next]_vars, Recorded' PROVE (SignalInv /\ WindowInv /\ ForceInv)'
    OBVIOUS
  <2>1. Recorded
    BY ScenarioStays DEF Recorded
  <2>2. SafeScenario(scenario)
    BY <2>1 DEF Recorded, SafeScenario
  <2> QED
    BY <2>1, <2>2, SignalNext, WindowNext, ForceNext
<1>3. Inv /\ [Next]_vars => [Step]_vars
  <2> SUFFICES ASSUME Inv, [Next]_vars, phase = "run", phase' = "between", Recorded
               PROVE  IF force_value_flag THEN RecordsForced ELSE RecordsStream
    BY DEF Recorded
  <2>1. EndPeriod
    BY DEF Next, Recorded, initialize, StartPeriod, WriteCall, ReadCall, KeepSchedule,
           force_forced_value, release_value, force_trigger_process,
           get_number_of_trace_value_sample, Rest, clusterVars, vars
  <2> QED
    BY <2>1, RecordedStream, RecordedForced
<1> HIDE DEF Inv
<1> QED
  BY <1>1, <1>2, <1>3, PTL DEF Spec, TraceIsDelayedStream

===============================================================================
