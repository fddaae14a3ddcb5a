---------------------------- MODULE MCSmallSignal ----------------------------
(***************************************************************************)
(* Small systems for the small-signal analysis, a complex matrix in use    *)
(* and the functions for ac_processing (both in ComplexMatrix), which      *)
(* all stand on the same matrices and the same decomposition.  A behaviour *)
(* is about one of the three; the variables of the others stand still.     *)
(***************************************************************************)
EXTENDS SmallSignal

VARIABLES part,                            \* "analysis", "matrix" or "functions"
          filter                           \* the transfer function of a behaviour

Q(i) == Int2Q(i)
C(re, im) == <<Q(re), Q(im)>>

In(name, i)  == [name |-> name, kind |-> "in", interface |-> i]
Out(name, i) == [name |-> name, kind |-> "out", interface |-> i]
Through(port, num, den) == [port |-> port, num |-> num, den |-> den]
Val(const, through, noise) ==
  [const |-> const, through |-> through, noise |-> noise, in_noise |-> TRUE]

Ac(children) == [kind |-> "ac", children |-> children, domain |-> NoValue]
Solver(n) == [kind |-> "solver", children |-> <<>>, domain |-> n]
Prim(kind, n) == [kind |-> kind, children |-> <<>>, domain |-> n]
Group(children) == [kind |-> "module", children |-> children, domain |-> NoValue]

Seen(i) == [kind |-> "interface", interface |-> i]
Of(n, con) == [kind |-> "primitive", network |-> n, con |-> con]
TraceFile_ == [ac_disabled |-> FALSE, trace_disabled |-> FALSE]

(* Modules: a source, a low pass, a module with two outputs, a loop. *)
Source(const, noise) ==
  [ports |-> <<Out("out", "i1")>>, outs |-> [out |-> Val(const, <<>>, noise)]]
Pass(from, to, num, den, noise) ==
  [ports |-> <<In("in", from), Out("out", to)>>,
   outs |-> [out |-> Val(CZero, <<Through("in", num, den)>>, noise)]]
Mixer ==
  [ports |-> <<Out("sum", "i4"), In("a", "i2"), In("open", "i9"), Out("loop", "i3"), In("b", "i3")>>,
   outs |-> [sum |-> Val(C(0, 1), <<Through("a", <<Q(1)>>, <<Q(1)>>), Through("open", <<Q(3)>>, <<Q(1)>>)>>, Q(1)),
             loop |-> Val(CZero, <<Through("a", <<Q(1)>>, <<Q(2)>>), Through("b", <<Q(-1)>>, <<Q(0), Q(1)>>)>>, Zero)]]

LowPass == Pass("i1", "i2", <<Q(1)>>, <<Q(1), Q(1)>>, Q(2))

Modules ==
  [objects |-> [m1 |-> Ac(<<>>), m2 |-> Ac(<<>>), m3 |-> Ac(<<>>), top |-> Group(<<"m2", "m3">>)],
   top |-> <<"top", "m1">>,
   modules |-> [m1 |-> Source(C(2, 1), Q(1)), m2 |-> LowPass, m3 |-> Mixer],
   networks |-> [n \in {} |-> <<>>],
   enabled |-> {"m1", "m2", "m3"},
   traced |-> <<Seen("i1"), Seen("i2"), Seen("i4"), Seen("i9")>>,
   file |-> TraceFile_]

\* A module that takes part by its own ac_processing hides the modules below it; one
\* that is not enabled does not.
Hierarchy(on) ==
  [Modules EXCEPT !.objects.m2 = Ac(<<"m3">>), !.objects.top = Group(<<"m2">>), !.enabled = on]

(* A network: a source driven by i1, a resistor to a second node with a capacitor, and   *)
(* what the node shows at i2.  Unknowns: both voltages, the current of the source.        *)
Rc(noise) ==
  [n |-> 3,
   B |-> {<<1, 1, Q(1)>>, <<1, 2, Q(-1)>>, <<1, 3, Q(1)>>, <<2, 1, Q(-1)>>, <<2, 2, Q(1)>>,
          <<3, 1, Q(1)>>},
   A |-> {<<2, 2, Frac(1, 2)>>}, q |-> <<Zero, Q(-1), Zero>>,
   inputs |-> <<[name |-> "inp", interface |-> "i1", eq |-> 3, scale |-> Q(-2)]>>,
   outputs |-> <<[name |-> "outp", interface |-> "i2", con |-> <<Zero, Q(1), Zero>>]>>,
   noise |-> IF noise THEN {[eq |-> 2, name |-> "r", amplitude |-> Q(2)]} ELSE {},
   nodes |-> <<[interface |-> "a", pos |-> 1, reference |-> FALSE],
               [interface |-> "b", pos |-> 2, reference |-> FALSE],
               [interface |-> "gnd", pos |-> 0, reference |-> TRUE]>>]

Mixed(noise) ==
  [objects |-> [m1 |-> Ac(<<>>), m2 |-> Ac(<<"p">>), p |-> Prim("tdf", "net"), r |-> Prim("eln", "net"),
                net |-> Solver("net")],
   top |-> <<"m2", "net", "r", "m1">>,
   modules |-> [m1 |-> Source(COne, Q(1)), m2 |-> Pass("i2", "i3", <<Q(1), Q(2)>>, <<Q(2)>>, Zero)],
   networks |-> [net |-> Rc(noise)],
   enabled |-> {"m1", "m2", "net"},
   traced |-> <<Seen("i3"), Seen("a"), Seen("gnd"), Of("net", <<Zero, Zero, Q(2)>>)>>,
   file |-> TraceFile_]

\* The resistor stands below a module with an ac_processing of its own.
HiddenNetwork == [Mixed(TRUE) EXCEPT !.objects.m2 = Ac(<<"p", "r">>)]

\* Neither side is driven by the other: the network alone.
Alone == [Mixed(TRUE) EXCEPT !.enabled = {"net"}]

\* A coil and a capacitor: no solution at w = 1.
Resonant ==
  [Mixed(FALSE) EXCEPT
     !.networks.net =
       [n |-> 2, B |-> {<<1, 2, Q(-1)>>, <<2, 1, Q(1)>>}, A |-> {<<1, 1, Q(1)>>, <<2, 2, Q(1)>>},
        q |-> <<Zero, Zero>>,
        inputs |-> <<[name |-> "inp", interface |-> "i1", eq |-> 2, scale |-> Q(1)]>>,
        outputs |-> <<[name |-> "outp", interface |-> "i2", con |-> <<Zero, Q(1)>>]>>,
        noise |-> {}, nodes |-> <<>>],
     !.traced = <<Seen("i2"), Seen("i3")>>]

MCSystems ==
  {Modules, Hierarchy({"m1", "m2", "m3"}), Hierarchy({"m1", "m3"}), Hierarchy({"m2"}),
   Mixed(TRUE), Mixed(FALSE), HiddenNetwork, Alone, Resonant,
   [Modules EXCEPT !.file.ac_disabled = TRUE], [Modules EXCEPT !.file.trace_disabled = TRUE]}

Analysis(noise, omegas) == [noise |-> noise, omegas |-> omegas]
MCSweeps ==
  {<<Analysis(FALSE, <<1, 2>>), Analysis(TRUE, <<1>>), Analysis(FALSE, <<2>>)>>,
   <<Analysis(TRUE, <<2, 1>>), Analysis(FALSE, <<2, 1>>), Analysis(TRUE, <<>>)>>}

(* Systems for which a promise does not hold; what happens is in the README. *)
\* Networks of signal flow primitives are not hidden.
LsfBelow == {[HiddenNetwork EXCEPT !.objects.r = Prim("lsf", "net")]}
\* Nothing takes part: simulation in the time domain stays off.
NobodyThere == {[Modules EXCEPT !.enabled = {}]}
\* What a primitive shows depends on two unknowns.
TwoUnknowns == {[Mixed(TRUE) EXCEPT !.traced = <<Of("net", <<Q(1), Q(-1), Zero>>)>>]}
\* The output is written outside a noise analysis only.
AcOnly == {[Modules EXCEPT !.modules.m3.outs.sum.in_noise = FALSE]}

(***************************************************************************)
(* The functions.                                                          *)
(***************************************************************************)
\* gain, zeros and poles (numbers, or a conjugate pair by its real and imaginary part).
Filters ==
  [k : {1, 2}, zero : {<<>>, <<-1>>, <<2>>}, poles : {<<-1>>, <<-1, -2>>, <<2, -1>>}, w : {1, 2},
   delay : {0, 1, 2, 3}, pair : {<<-1, 1>>, <<0, 2>>, <<-1, 2>>}]

Roots(rs) == [i \in DOMAIN rs |-> C(rs[i], 0)]
\* The coefficients of (s - r1) (s - r2) and of a conjugate pair.
Coefficients(rs) ==
  IF rs = <<>> THEN <<Q(1)>>
  ELSE IF Len(rs) = 1 THEN <<Q(-rs[1]), Q(1)>>
  ELSE <<Q(rs[1] * rs[2]), Q(-(rs[1] + rs[2])), Q(1)>>
PairRoots(p) == <<C(p[1], p[2]), C(p[1], -p[2])>>
PairCoefficients(p) == <<Q(p[1] * p[1] + p[2] * p[2]), Q(-2 * p[1]), Q(1)>>

\* The state-space equations of num / den (den of order two, num of at most order one).
Controllable(num, den) ==
  [a |-> <<<<Zero, One>>, <<Neg(den[1]), Neg(den[2])>>>>, b |-> <<<<Zero>>, <<One>>>>,
   c |-> <<<<num[1], IF Len(num) = 2 THEN num[2] ELSE Zero>>>>, d |-> <<<<Zero>>>>]

Inputs == {COne, C(1, -2)}

\* The three forms of one transfer function give the same value, a delay turns it by its
\* angle, z**-1 is a delay of one time step, and the frequencies go from the first to the
\* last in equal distances, or in equal ratios (sca_ac_functions.cpp, sca_ac_domain_globals.cpp).
TransferFunction(f, roots, den, x) == sca_ac_ltf_nd(f.w, Coefficients(roots), den, x, Q(f.k))
DelaysAgree(f, nd) ==
  /\ Delayed(f.w, f.delay, nd) = CTimes(nd, sca_ac_z(f.w, -f.delay, 1))
  /\ CTimes(sca_ac_delay(f.w, f.delay), sca_ac_delay(f.w, 4 - f.delay)) = sca_ac_delay(f.w, 4)
FormsAgree(f) ==
  \A x \in Inputs :
    /\ TransferFunction(f, f.zero, Coefficients(f.poles), x) =
          sca_ac_ltf_zp(f.w, Roots(f.zero), Roots(f.poles), x, Q(f.k))
    /\ DelaysAgree(f, TransferFunction(f, f.zero, Coefficients(f.poles), x))
StatesAgree(f, s) ==
  /\ sca_ac_ss(f.w, <<>>, <<>>, <<>>, <<<<One, Q(2)>>>>, <<COne, C(0, 1)>>) = <<C(1, 2)>>
  /\ sca_ac_ss(f.w, s.a, s.b, s.c, s.d, <<COne, COne>>) = <<>>
  /\ <<TransferFunction([f EXCEPT !.k = 1], f.zero, PairCoefficients(f.pair), C(1, -2))>> =
       sca_ac_ss(f.w, s.a, s.b, s.c, s.d, <<C(1, -2)>>)
PairsAgree(f) ==
  f.pair # <<0, f.w>> =>
    /\ TransferFunction(f, f.zero, PairCoefficients(f.pair), COne) =
         sca_ac_ltf_zp(f.w, Roots(f.zero), PairRoots(f.pair), COne, Q(f.k))
    /\ StatesAgree(f, Controllable(Coefficients(f.zero), PairCoefficients(f.pair)))
LinearSpace(from, n, fs) ==
  /\ Len(fs) = n /\ fs[1] = Q(from) /\ (n > 1 => fs[n] = Q(from + 6))
  /\ \A i \in 2..n - 1 : Plus(fs[i - 1], fs[i + 1]) = Times(Q(2), fs[i])
LogarithmicSpace(first, ratio, fs) ==
  /\ fs[1] = first /\ fs[4] = Q(8)
  /\ \A i \in 3..4 : fs[i] = Times(ratio, fs[i - 1])
SpacesAgree(from, n) ==
  /\ LinearSpace(from, n, generate_frequencies(from, from + 6, n, "lin", 1))
  /\ from <= 1 => LogarithmicSpace(Q(from), Q(2), generate_frequencies(from, 8, 4, "log", 1))
AcFunctionsAgree ==
  part = "functions" =>
    FormsAgree(filter) /\ PairsAgree(filter) /\ SpacesAgree(filter.delay - 1, filter.k + filter.w)

(***************************************************************************)
(* The three kinds of behaviours.                                          *)
(***************************************************************************)
MCEntered == {CZero, COne, C(0, 2), C(1, -1)}

\* A complex matrix shows what was assigned and added to it, and the functions that
\* solve equations with one agree with the direct forms.
MatricesAndFunctionsAgree == ComplexIsTable /\ AcFunctionsAgree

Use(sparse, operations, left) == [sparse |-> sparse, operations |-> operations, left |-> left]
Uses == {Use(TRUE, {"write", "add", "read", "resize"}, 3), Use(TRUE, {"write", "add", "reset", "copy"}, 3),
         Use(FALSE, {"write", "mode", "copy"}, 4)}

NoUse == Use(TRUE, {}, 0)
SomeFilter == CHOOSE f \in Filters : TRUE
IdleAnalysis ==
  /\ sys = Alone /\ analyses = <<>> /\ enabled = {} /\ db = NewDb /\ eqs = NoEquations
  /\ file = <<>>

MCInit ==
  \/ part = "analysis" /\ Init /\ filter = SomeFilter /\ CInit(NoUse)
  \/ part = "matrix" /\ IdleAnalysis /\ filter = SomeFilter /\ \E u \in Uses : CInit(u)
  \/ part = "functions" /\ IdleAnalysis /\ filter \in Filters /\ CInit(NoUse)

MCNext ==
  \/ part = "analysis" /\ Next /\ UNCHANGED <<part, filter, cvars>>
  \/ part = "matrix" /\ CNext /\ UNCHANGED <<part, filter, avars>>

MCSpec == MCInit /\ [][MCNext]_<<part, filter, cvars, avars>>
==============================================================================
