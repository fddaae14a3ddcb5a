----------------------------- MODULE SampleStream -----------------------------
(***************************************************************************)
(* What a TDF signal promises to the ports bound to it: every reader sees  *)
(* every sample of the driver once and in order, behind the delay samples  *)
(* of its own port and those of the driver's port.                         *)
(*                                                                         *)
(* The samples on the way to a reader are a queue: the delay samples of    *)
(* the reader are its older part, those of the driver its younger part.    *)
(* Modules preset the delay of their own port; a delay sample of a reader  *)
(* that is not preset has no defined value.                                *)
(* TdfSignal implements this with one ring buffer for all readers.         *)
(***************************************************************************)
EXTENDS Integers, Sequences

CONSTANTS Readers,    \* the in ports bound to the signal
          Driver,     \* the out port bound to the signal
          Preset,     \* the value initialize() writes
          Forced,     \* the value force_value() sets
          Unset       \* the value of a sample nothing was written to

VARIABLES cfg,        \* rate, delay and calls per period of every port
          pending,    \* reader -> queue of samples on the way to it
          got,        \* reader -> the samples its last call read
          written,    \* samples written so far; sample n has the value n
          forced      \* is the value forced

streamVars == <<cfg, pending, got, written, forced>>

Zeros(n) == [i \in 1..n |-> 0]

\* A delay is enlarged with initial values and shortened at its oldest sample.
Resize(s, n) == IF n >= Len(s) THEN Zeros(n - Len(s)) \o s
                               ELSE SubSeq(s, Len(s) - n + 1, Len(s))

\* Between two periods exactly the delay samples are on the way.
OnlyDelays == \A r \in Readers : Len(pending[r]) = cfg.delay[r] + cfg.delay[Driver]

StreamInit ==
  /\ pending = [r \in Readers |-> [i \in 1..cfg.delay[r] |-> Unset] \o
                                   Zeros(cfg.delay[Driver])]
  /\ got = [r \in Readers |-> << >>]
  /\ written = 0
  /\ forced = FALSE

Produce ==
  LET fresh == [i \in 1..cfg.rate[Driver] |-> written + i]
  IN /\ pending' = [r \in Readers |-> pending[r] \o fresh]
     /\ written' = written + cfg.rate[Driver]
     /\ UNCHANGED <<cfg, got, forced>>

\* The module of r is called; it may leave its input unread.
Consume(r) ==
  LET n == cfg.rate[r]
  IN /\ Len(pending[r]) >= n
     /\ pending' = [pending EXCEPT ![r] = SubSeq(@, n + 1, Len(@))]
     /\ \/ got' = [got EXCEPT ![r] = IF forced THEN [i \in 1..n |-> Forced]
                                               ELSE SubSeq(pending[r], 1, n)]
        \/ got' = [got EXCEPT ![r] = << >>]
     /\ UNCHANGED <<cfg, written, forced>>

\* A module presets sample k of the delay of its own port.
SetDelaySample(p, k) ==
  /\ OnlyDelays
  /\ k \in 1..cfg.delay[p]
  /\ pending' = IF p = Driver
                THEN [r \in Readers |->
                        [pending[r] EXCEPT ![cfg.delay[r] + k] = Preset]]
                ELSE [pending EXCEPT ![p][k] = Preset]
  /\ UNCHANGED <<cfg, got, written, forced>>

Reshape(c) ==
  /\ OnlyDelays
  /\ cfg' = c
  /\ pending' = [r \in Readers |->
       LET d == cfg.delay[r]
       IN Resize(SubSeq(pending[r], 1, d), c.delay[r]) \o
          Resize(SubSeq(pending[r], d + 1, Len(pending[r])), c.delay[Driver])]
  /\ UNCHANGED <<got, written, forced>>

SwitchForce ==
  /\ forced' \in BOOLEAN
  /\ UNCHANGED <<cfg, pending, got, written>>

StreamNext ==
  \/ Produce
  \/ \E r \in Readers : Consume(r)
  \/ \E p \in Readers \cup {Driver} : \E k \in 1..cfg.delay[p] : SetDelaySample(p, k)
  \/ Reshape(cfg')
  \/ SwitchForce

StreamSpec == StreamInit /\ [][StreamNext]_streamVars
===============================================================================
