--------------------------- MODULE EmbeddedFunction ---------------------------
(***************************************************************************)
(* A module of a TDF cluster that uses an embedded continuous-time function*)
(* in its processing(): sca_tdf::sca_ltf_nd, sca_ltf_zp or sca_ss, with    *)
(* the proxy CtProxy and its two relatives below behind them. The module   *)
(* may change the coefficients between two uses, and another function may  *)
(* use the same coefficients.                                              *)
(***************************************************************************)
EXTENDS CtProxy

(***************************************************************************)
(* sca_ct_ltf_zp_proxy: a transfer function given by its zeros and poles.  *)
(* They are expanded to the polynomials of the base class, and everything  *)
(* else is left to it. Complex numbers with whole parts, [re, im].         *)
(***************************************************************************)

CTimes(a, b) == [re |-> a.re * b.re - a.im * b.im, im |-> a.re * b.im + a.im * b.re]
CMinus(a, b) == [re |-> a.re - b.re, im |-> a.im - b.im]
CZero == [re |-> 0, im |-> 0]
COne  == [re |-> 1, im |-> 0]

\* A polynomial is the sequence of its coefficients, the constant one first.
\* p * (s - z)
TimesRoot(p, z) ==
  [k \in 1..Len(p) + 1 |->
     CMinus(IF k = 1 THEN CZero ELSE p[k - 1], IF k > Len(p) THEN CZero ELSE CTimes(z, p[k]))]

Expanded(roots) == FoldLeft(TimesRoot, <<COne>>, roots)

calculate_nd_coefficients(roots) == Expanded(roots)

\* coeff_changed: a function without zeros, or without poles, counts as changed
\* whenever their vector was written.
zp_changed(q, u) ==
  \/ q.coef = None
  \/ \E i \in {1, 2} : u.accessed[i] /\ (q.zp[i] # u.coef[i] \/ u.coef[i] = << >>)

IsReal(p) == \A k \in DOMAIN p : p[k].im = 0
RealPart(p) == [k \in DOMAIN p |-> p[k].re]

Polynomials(u) == [i \in {1, 2} |-> calculate_nd_coefficients(u.coef[i])]

\* register_zp: nd_coeff_changed is overloaded, it reports what was found here.
register_zp(q, u) ==
  LET p == Polynomials(u)
      z == [q EXCEPT !.zp = u.coef]
      v == [u EXCEPT !.coef = [i \in {1, 2} |-> RealPart(p[i])]]
  IN IF ~zp_changed(q, u) THEN Stored(Registered(TakenOver(q, v, FALSE), v), v)
     ELSE IF ~\A i \in {1, 2} : IsReal(p[i]) THEN [z EXCEPT !.error = "not conjugate complex"]
     ELSE Stored(Registered(TakenOver(z, v, TRUE), v), v)

-------------------------------------------------------------------------------
(***************************************************************************)
(* sca_ct_vector_ss_proxy: state space equations embedded into the call of *)
(* a TDF module. The class repeats the code of sca_ct_ltf_nd_proxy for     *)
(* vectors in place of numbers: where the two agree statement by statement *)
(* the operators of CtProxy stand for both, and only what differs is       *)
(* written once more. scenario.inputs and scenario.outputs are the numbers *)
(* of columns of B and of rows of C; all entries of an input are alike.    *)
(***************************************************************************)

\* coeff_changed: the matrices are compared in any case, the object is never the copy.
matrix_changed(q, u, i) == q.coef = None \/ q.coef[i] # u.coef[i]
ss_coeff_changed(q, u)  == \E i \in {1, 2} : matrix_changed(q, u, i)

\* register_ss_common.
FirstUse_ss(q, u) == IF call_counter = 0 THEN FirstCall(q, u) ELSE LaterCall(q, u)
NextUse_ss(q, u)  == SameCall(q, u)

register_ss_common(q, u) ==
  LET a == WithInterval(WithBuffer(Opened(TakenOver(q, u, ss_coeff_changed(q, u))), u), u)
  IN Checked(IF call_counter = q.module_activations THEN NextUse_ss(a, u)
             ELSE FirstUse_ss(a, u), u)

register_ss(q, u)      == Stored(register_ss_common(q, u), u)
register_ss_port(q, u) == Stored(register_ss_common(q, u), u)

-------------------------------------------------------------------------------
initialize_ss(q) == Reset(q)

setup_ss(q) ==
  IF q.first_step THEN initialize_equation_system(initialize_ss(q), 0, q.first_in_time_step)
  ELSE IF q.reinit_request
  THEN initialize_equation_system(initialize_ss(q), 1, q.first_in_time_step)
  ELSE q

calculate_ss(q, h, value, to) == Calculate(q, h, value, to)

convert_to_double_vector(q, u) ==
  [ToDouble([setup_ss(q) EXCEPT !.reinit_request = FALSE], u) EXCEPT !.first_step = FALSE]

\* An input between two samples has as many entries as there are outputs; the delay,
\* for which there is a buffer, plays no part.
Interpolated(q, l, u, input) ==
  q.s.in_last + ((input - q.s.in_last) * (l.next_out - q.s.in_time)) \div l.in_step

Between(q, l, u, h) ==
  Solved(initialize_equation_system(q, 2, h), h,
         Interpolated(q, l, u, Input(u, l.in_index)), l.next_out, scenario.outputs)

RECURSIVE Undelayed_ss(_, _, _)
Undelayed_ss(q, l, u) ==
  LET input == Input(u, l.in_index)
      dt    == l.next_out - q.s.calc
      until == l.next_in + u.delay - q.s.calc
      over  == l.next_out + u.delay - q.s.calc
  IN IF l.out_index >= u.m THEN q
     ELSE IF Near(l.next_in + u.delay, l.next_out, 2)
     THEN Undelayed_ss(Written([calculate_ss(q, OrInStep(q, dt), input, q.s.calc + dt)
                                  EXCEPT !.s.in_last = input, !.s.in_time = l.next_in,
                                         !.s.calc = @ + dt], l),
                       NextOut(NextIn(q, l)), u)
     ELSE IF l.next_in + u.delay < l.next_out
     THEN Undelayed_ss([calculate_ss(q, OrInStep(q, until), input, q.s.calc + until)
                          EXCEPT !.s.in_last = input, !.s.in_time = l.next_in,
                                 !.s.calc = @ + until], NextIn(q, l), u)
     ELSE Undelayed_ss(Written([Between(q, l, u, OrInStep(q, over))
                                  EXCEPT !.s.calc = l.next_out], l), NextOut(l), u)

Delayed_ss(q, l, u) == Delayed(q, [l EXCEPT !.read = q.s.calc - u.delay], u)

calculate_timeinterval_ss(q, l, u) ==
  LET p == [setup_ss(q) EXCEPT !.s.in_last = IF q.first_step THEN Input(u, 0) ELSE @,
                               !.first_step = FALSE]
  IN IF q.buffer = << >> THEN Undelayed_ss(p, l, u) ELSE Delayed_ss(p, l, u)

convert_to_port_ss(q, u) ==
  IF ~IsCausal(q, u) THEN [q EXCEPT !.error = "causality"]
  ELSE calculate_timeinterval_ss(q, PortLoop(q, u), u)

convert_to_matrix(q, u) ==
  calculate_timeinterval_ss(VectorStart(q, u), VectorLoop(q, u), u)

Converted_ss(r, u) ==
  IF r.error # None THEN r
  ELSE CASE u.form = "double" -> convert_to_double_vector(r, u)
         [] u.form = "vector" -> convert_to_matrix(r, u)
         [] u.form = "port"   -> convert_to_port_ss(r, u)

estimate_next_ss(q) == estimate_next_value(q)

-------------------------------------------------------------------------------
VARIABLES
  coef,                    \* the coefficients in the module, and their access flags
  \* what the module has asked for, the reference for the proxy
  want,                    \* end of the time asked for by the last use
  kept,                    \* steps of the solution the last use must continue
  committed,               \* the same before the first call for the present time
  used                     \* number of uses in this call of processing()

envVars == <<scenario, clock, start, step, last_step, call_counter>>
vars    == <<envVars, proxy, coef, want, kept, committed, used>>

-------------------------------------------------------------------------------
(* The module. Its next call is for a later time or, if it changes its     *)
(* attributes, for the present time once more.                             *)

Init ==
  /\ scenario \in Scenarios
  /\ clock = 0 /\ start = 0 /\ last_step = 0 /\ call_counter = 0
  /\ step \in scenario.steps
  /\ proxy = NewProxy(scenario)
  /\ coef \in [value : scenario.coefficients, accessed : {<<TRUE, TRUE>>}]
  /\ want = 0 /\ kept = << >> /\ used = 0
  /\ committed = [want |-> 0, kept |-> << >>, trajectory |-> << >>]

Called ==
  /\ proxy.error = None
  /\ used = 0 => scenario.skips
  /\ call_counter < scenario.calls
  /\ call_counter' = call_counter + 1
  /\ last_step' = step
  /\ used' = 0
  /\ UNCHANGED <<scenario, proxy, coef, want, kept>>

CallLater(d) ==
  /\ Called
  /\ step' = d /\ clock' = clock + d /\ start' = clock
  /\ committed' = [want |-> want, kept |-> kept, trajectory |-> proxy.s.trajectory]

\* convert_to_sca_port refuses a time step of zero.
CallAgain ==
  /\ Called
  /\ scenario.dynamic /\ scenario.form # "port"
  /\ step = 0 => scenario.twice
  /\ clock = 0 /\ scenario.n > 1 => scenario.early
  /\ step' = 0
  /\ UNCHANGED <<clock, start, committed>>

\* What a use asks for: to go on to the present time, to go on for a part of it, or
\* (tstep zero) to make the last use once more. The first use in a call for the time
\* of the last call goes on from where that call began.
Asked(tstep) ==
  LET fresh == used = 0
      from  == IF fresh /\ step = 0 /\ call_counter > 0 THEN committed
               ELSE [want |-> want, kept |-> kept, trajectory |-> proxy.s.trajectory]
  IN CASE tstep = End -> [want |-> clock, kept |-> from.trajectory]
       [] tstep > 0   -> [want |-> (IF fresh THEN start ELSE want) + tstep,
                          kept |-> from.trajectory]
       [] tstep = 0   -> IF fresh /\ from.want < start
                         THEN [want |-> start, kept |-> from.trajectory]
                         ELSE [want |-> from.want, kept |-> from.kept]

\* The functions as a module calls them: any input, with and without a delay, with and
\* without a state vector of its own. A port is always used up to its end.
sca_ltf_nd(q, u) == Converted(register_nd(q, u), u)
sca_ltf_zp(q, u) == Converted(register_zp(q, u), u)
sca_ss(q, u) == Converted_ss(IF u.form = "port" THEN register_ss_port(q, u)
                                                ELSE register_ss(q, u), u)

Used(q, u) == CASE scenario.kind = "nd" -> sca_ltf_nd(q, u)
                [] scenario.kind = "zp" -> sca_ltf_zp(q, u)
                [] scenario.kind = "ss" -> sca_ss(q, u)

Detected(q, u) == CASE scenario.kind = "nd" -> coeff_changed(q, u)
                    [] scenario.kind = "zp" -> zp_changed(q, u)
                    [] scenario.kind = "ss" -> ss_coeff_changed(q, u)

\* The module has assigned the coefficients c; the assignment sets the flag, and a
\* function that takes them over clears both.
Written_flags(c) == [i \in {1, 2} |-> coef.accessed[i] \/ c[i] # coef.value[i]]

Use(tstep, delay, c, shared) ==
  LET asked == Asked(tstep)
      flags == IF shared THEN <<FALSE, FALSE>> ELSE Written_flags(c)
      u == [form |-> scenario.form, n |-> scenario.n, m |-> scenario.m,
            given |-> IF scenario.form = "port" THEN step \div scenario.n ELSE 0,
            tstep |-> tstep, delay |-> delay, value |-> asked.want,
            coef |-> c, accessed |-> flags]
  IN /\ proxy.error = None
     /\ used < scenario.uses
     /\ asked.want <= clock
     /\ tstep = End => used = 0 \/ want < clock
     /\ tstep # End => clock > 0
     /\ tstep = 0 => scenario.iterations /\ (scenario.early \/ start > 0 \/ used > 0)
     /\ proxy' = Used(proxy, u)
     /\ coef' = [value |-> c, accessed |-> IF Detected(proxy, u) THEN <<FALSE, FALSE>> ELSE flags]
     /\ want' = asked.want
     /\ kept' = IF c # coef.value /\ ~scenario.external THEN << >> ELSE asked.kept
     /\ used' = used + 1
     /\ UNCHANGED <<scenario, clock, start, step, last_step, call_counter, committed>>

\* Between two uses the module may ask for an estimate of the next value.
Estimate ==
  /\ scenario.estimates /\ used > 0 /\ proxy.error = None
  /\ proxy' = IF scenario.kind = "ss" THEN estimate_next_ss(proxy) ELSE estimate_next_value(proxy)
  /\ UNCHANGED <<envVars, coef, want, kept, committed, used>>

Next ==
  \/ Estimate
  \/ \E d \in scenario.steps : CallLater(d)
  \/ CallAgain
  \/ \E tstep \in scenario.tsteps, delay \in scenario.delays, c \in scenario.coefficients,
        shared \in scenario.shared : Use(tstep, delay, c, shared)

Spec == Init /\ [][Next]_vars

-------------------------------------------------------------------------------
(* What a module relies on.                                                *)

Step == proxy.s.trajectory

\* Types, and the shape of the buffer: its points are ascending, and its first one is
\* where the number of points in use says.
TypeOK ==
  /\ scenario \in Scenarios
  /\ {clock, start, step, last_step, used, want} \subseteq Nat
  /\ call_counter \in 0..MaxActivations
  /\ proxy.s.in_time \in Int /\ proxy.s.calc \in Int
  /\ proxy.s.out_time \in Int \cup {None}
  /\ \A i \in DOMAIN Step :
       /\ Step[i].to \in Int /\ Step[i].h \in Int /\ Step[i].value \in Int
       /\ Step[i].by \in {"DC", "EULER", "TRAPEZ"}
  /\ \A k \in DOMAIN proxy.buffer :
       LET b == proxy.buffer[k]
           c == Content(b)
       IN /\ b.used \in 0..b.size /\ b.first = b.write - b.used
          /\ \A i \in 2..b.used : c[i - 1].time < c[i].time

\* The time the last use has to reach; the samples of a port reach beyond the call.
EndOfUse == want + (IF scenario.form = "port" THEN (scenario.m - 1) * (step \div scenario.m)
                                             ELSE 0)

\* The steps of the integration follow each other without gap or overlap, up to the
\* time asked for: no time is integrated twice, left out, or passed in DC mode.
AllTimeIsIntegrated ==
  used > 0 /\ proxy.error = None =>
    /\ Near(proxy.s.calc, EndOfUse, 2)
    /\ Near(Step[Len(Step)].to, EndOfUse, 2)
    /\ \A i \in 2..Len(Step) :
         Step[i].to - Step[i - 1].to = IF Step[i].by = "DC" THEN 0 ELSE Step[i].h

\* The input of each step is the one of its end, shifted by the delay of the use; for
\* times before the first sample it is the first sample. Each entry of the input takes
\* part in the step.
InputIsDelayedCurve ==
  [][\A tstep \in scenario.tsteps, delay \in scenario.delays, c \in scenario.coefficients,
        shared \in scenario.shared :
       Use(tstep, delay, c, shared) /\ proxy'.error = None =>
         \A i \in Len(kept') + 1..Len(Step') :
            LET at == Step'[i].to - delay
            IN /\ Near(Step'[i].value, IF at < 0 THEN Step'[i].value ELSE at, 2)
               /\ Step'[i].width = scenario.inputs]_vars

\* The coefficients of the function: of a zp function, the polynomial that is one for
\* the highest power and vanishes at the roots given, as its value at as many points as
\* it has coefficients.
RECURSIVE ValueAt(_, _)
ValueAt(p, x) == IF p = << >> THEN 0 ELSE p[1] + x * ValueAt(Tail(p), x)

RootsProduct(roots, x) ==
  FoldLeft(LAMBDA y, z : CTimes(y, CMinus([re |-> x, im |-> 0], z)), COne, roots)

IsCoefficient(p, c) ==
  IF scenario.kind # "zp" THEN p = c
  ELSE /\ Len(p) = Len(c) + 1
       /\ \A x \in 0..Len(c) : RootsProduct(c, x) = [re |-> ValueAt(p, x), im |-> 0]

\* Each integration step is made with matrices for the coefficients as they are now and
\* for its own length, and after a jump of the coefficients, or at the beginning, the
\* first one is a step of Euler's method.
EquationsAreCurrent ==
  used > 0 /\ proxy.error = None =>
    /\ \A i \in {1, 2} : IsCoefficient(proxy.coef[i], coef.value[i])
    /\ \A i \in Len(kept) + 1..Len(Step) :
         Step[i].by # "DC" =>
           /\ Step[i].matrices = [coef |-> proxy.coef, h |-> Step[i].h]
           /\ (\A j \in 1..i - 1 : Step[j].by = "DC") => Step[i].by = "EULER"

\* A use continues the steps made before it. A call for the present time once more
\* drops those of the call before, a use with tstep zero those of the use before,
\* and no other step is lost or survives.
OnlyTheLastIsTakenBack ==
  used > 0 /\ proxy.error = None => IsPrefix(kept, Step) /\ Len(kept) < Len(Step)

\* The results are delivered for the times of the samples they are converted to.
ResultsOnTime ==
  used > 0 /\ proxy.error = None =>
    proxy.outs =
      CASE scenario.form = "double" -> {<<0, proxy.s.calc>>}
        [] scenario.form = "port" ->
             {<<k, clock + k * (step \div scenario.m)>> : k \in 0..scenario.m - 1}
        [] scenario.form = "vector" ->
             {<<k, want - (scenario.m - 1 - k) * (proxy.time_interval \div scenario.m)>> :
                k \in 0..scenario.m - 1}

\* No legal use is refused or meets a buffer without the samples it needs.
NoError == proxy.error = None

\* A use neither fails nor disturbs what was computed before, and delivers its results
\* where they belong.
UsesContinue == TypeOK /\ NoError /\ OnlyTheLastIsTakenBack /\ ResultsOnTime
===============================================================================
