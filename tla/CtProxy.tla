------------------------------- MODULE CtProxy --------------------------------
(***************************************************************************)
(* sca_ct_ltf_nd_proxy: the object that embeds a linear continuous-time    *)
(* function into the call of a TDF module. Each use of it in a call of     *)
(* processing() registers input samples (register_nd) and then converts    *)
(* the result to a double, to a vector or to the samples of a port; the    *)
(* equations are integrated over the time the use asks for.                *)
(*                                                                         *)
(* A module that changes its attributes may be called again for the time   *)
(* it was called for before; a module that has enabled iterations may use  *)
(* the proxy again with tstep zero. Both have to undo integration steps    *)
(* that were already made: the proxy keeps three check points for them.    *)
(*                                                                         *)
(* The solution is represented by the integration steps it results from,   *)
(* each with the matrices it was solved with: the coefficients and the     *)
(* step width they were made for, see AnalogSolver for the numbers. The    *)
(* input is the ramp u(t) = t, so that each value tells the time it belongs*)
(* to; one unit of time is the time resolution.                            *)
(*                                                                         *)
(* The uses, and what a module may rely on, are in EmbeddedFunction.       *)
(***************************************************************************)
EXTENDS Integers, Sequences, SequencesExt

(***************************************************************************)
(* sca_delay_buffer_base with sca_ct_delay_buffer<double>: a ring buffer   *)
(* of points (time, value) with ascending times. Positions are counted     *)
(* from the first store on and taken modulo the size; two of them are kept *)
(* from one read to the next, so that reads in ascending order of time     *)
(* need no search.                                                         *)
(***************************************************************************)

CONSTANT Growth          \* places a full buffer gets in addition, 10 in the code

\* A place nothing was written to: the constructors set time and value to zero.
EmptyPlace == [time |-> 0, value |-> 0]

NewBuffer == [place |-> [i \in 0..1 |-> EmptyPlace], size |-> 2,
              used |-> 0, write |-> 0, first |-> 0, first_index |-> 0, second_index |-> 1,
              last_read_time |-> 0, time_reached |-> 0, max_time |-> 0]

At(b, i) == b.place[i % b.size]

\* resize. Positions restart at zero; the two remembered positions are kept.
resize(b, size) ==
  [b EXCEPT !.place = [i \in 0..size - 1 |-> IF i < b.used THEN At(b, b.first + i) ELSE EmptyPlace],
            !.size = size, !.first = 0, !.write = b.used]

\* Points older than the delay and older than the last read are removed, but two.
RECURSIVE RemoveObsolete(_, _)
RemoveObsolete(b, time) ==
  IF At(b, b.first + 1).time < time /\ b.used > 2
  THEN RemoveObsolete([b EXCEPT !.first = @ + 1, !.used = @ - 1], time)
  ELSE b

MakeRoom(b) ==
  LET limit  == b.time_reached - b.max_time
      pruned == IF b.time_reached <= b.max_time THEN b
                ELSE RemoveObsolete(b, IF b.last_read_time > limit THEN limit
                                                                  ELSE b.last_read_time)
  IN IF b.used < b.size THEN b
     ELSE IF pruned.used < pruned.size THEN pruned
     ELSE resize(pruned, pruned.size + Growth)

\* store_value: a value for the time of the last point replaces it.
store_value(b, time, value) ==
  LET r    == MakeRoom(b)
      last == r.write >= 1 /\ At(r, r.write - 1).time = time
      w    == IF last THEN r.write - 1 ELSE r.write
  IN [r EXCEPT !.place[w % r.size] = [time |-> time, value |-> value],
               !.write = w + 1, !.used = IF last THEN @ ELSE @ + 1]

\* The remembered position cannot be used: it was removed, or lies behind time.
Behind(b, time) == b.first_index < b.write - b.used \/ At(b, b.first_index).time >= time

Rewound(b, time) ==
  IF Behind(b, time)
  THEN [b EXCEPT !.first_index = b.write - b.used, !.second_index = b.write - b.used + 1]
  ELSE b

\* The first position from `from' on whose point is at time or later, and the first
\* one whose point is later, as sets.
FirstOf(positions) == {i \in positions : \A j \in positions : i <= j}
FirstAt(b, from, time)    == FirstOf({i \in from..b.write - 1 : At(b, i).time >= time})
FirstAfter(b, from, time) == FirstOf({i \in from..b.write - 1 : At(b, i).time > time})

\* get_time_interval. res 1: between the two positions, 2: at the first of them,
\* 0 and -1: no such interval. r: the buffer with usable positions.
AtFirst(r) == [res |-> 2, b |-> [r EXCEPT !.second_index = r.first_index]]

BeforeFirst(r, time) == IF time < 0 THEN AtFirst(r) ELSE [res |-> -1, b |-> r]

Between2(r, i) == [res |-> 1, b |-> [r EXCEPT !.first_index = i - 1, !.second_index = i]]

\* Without a hit the loop leaves the positions at the last interval.
AtEnd(r) == IF r.second_index >= r.write THEN r
            ELSE [r EXCEPT !.first_index = r.write - 2, !.second_index = r.write - 1]

AfterLast(r, time) ==
  IF At(r, r.first_index).time = time THEN AtFirst(r)
  ELSE [res |-> 0, b |-> [r EXCEPT !.first_index = r.second_index]]

IntervalOf(r, hit, time) ==
  IF hit # {} THEN Between2(r, CHOOSE i \in hit : TRUE) ELSE AfterLast(AtEnd(r), time)

TimeInterval(r, behind, time) ==
  IF behind /\ At(r, r.first_index).time > time THEN BeforeFirst(r, time)
  ELSE IntervalOf(r, FirstAt(r, r.second_index, time), time)

get_time_interval(b, time) == TimeInterval(Rewound(b, time), Behind(b, time), time)

\* Faulty: the value of the point before.
ValueIn_NoInterpolation(i, time) ==
  [b |-> i.b, value |-> IF i.res <= 0 THEN << >> ELSE <<At(i.b, i.b.first_index).value>>]
get_value_NoInterpolation(b, time) == ValueIn_NoInterpolation(get_time_interval(b, time), time)

\* get_value: << >> stands for the error, the value is interpolated linearly.
Line(p, q, time) == p.value + ((q.value - p.value) * (time - p.time)) \div (q.time - p.time)

ValueIn(i, time) ==
  [b |-> i.b,
   value |-> CASE i.res <= 0 -> << >>
               [] i.res = 2  -> <<At(i.b, i.b.first_index).value>>
               [] i.res = 1  -> <<Line(At(i.b, i.b.first_index), At(i.b, i.b.second_index), time)>>]

get_value(b, time) == ValueIn(get_time_interval(b, time), time)

\* get_next_value_after: the point after time; none if there is no such point,
\* the last one of the buffer is taken then.
NextAfter(r, hit) ==
  LET i == IF hit = {} THEN r.write - 1 ELSE CHOOSE i \in hit : TRUE
  IN [b     |-> [r EXCEPT !.first_index = i,
                          !.second_index = IF hit = {} THEN i ELSE i + 1],
      none  |-> hit = {},
      point |-> At(r, i)]

NextValue(r, time) == NextAfter(r, FirstAfter(r, r.first_index, time))

get_next_value_after(b, time) == NextValue(Rewound([b EXCEPT !.last_read_time = time], time), time)

RECURSIVE remove_timestamps_after(_, _)
remove_timestamps_after(b, time) ==
  IF b.used > 0 /\ At(b, b.write - 1).time > time
  THEN remove_timestamps_after([b EXCEPT !.used = @ - 1, !.write = @ - 1], time)
  ELSE b

\* The points in the buffer, oldest first.
Content(b) == [i \in 1..b.used |-> At(b, b.write - b.used + i - 1)]

-------------------------------------------------------------------------------
CONSTANTS Scenarios,       \* how a module uses its proxy
          MaxActivations,  \* bound on the calls of processing()
          None             \* no time, no error

End == -1                  \* tstep = sca_max_time(): up to the time of the module

VARIABLES
  scenario,
  clock, step, last_step,  \* time of the module, its time step and the one before
  start,                   \* time of the call before the present time
  call_counter,
  proxy

-------------------------------------------------------------------------------
(* The state that can be restored, and the proxy.                          *)

Solution0 == [in_time |-> 0, out_time |-> None, calc |-> 0, in_last |-> 0,
              trajectory |-> << >>, algorithm |-> "EULER"]

NoMatrices == [coef |-> None, h |-> 0]

NewProxy(sc) ==
  [s |-> Solution0, module_backup |-> Solution0, module_tstep_backup |-> Solution0,
   tstep_backup |-> Solution0,
   buffer |-> IF sc.max_delay = 0 THEN << >>
              ELSE <<[NewBuffer EXCEPT !.max_time = sc.max_delay]>>,
   current_time |-> 0, module_time_step |-> 0, module_activations |-> -1,
   dc_init |-> TRUE, dt_last |-> 0, first_step |-> TRUE, last_available |-> 0, outs |-> {},
   time_interval |-> 0, in_time_step |-> 0, first_in_time_step |-> 0,
   coef |-> None, zp |-> << >>, reinit_request |-> TRUE, last_h |-> 0,
   euler |-> NoMatrices, trapez |-> NoMatrices,
   error |-> None]

\* The state vector is only saved and restored if the proxy owns it.
Saved(q, s) == IF scenario.external
               THEN [s EXCEPT !.trajectory = << >>, !.algorithm = "EULER"] ELSE s

Restored(q, backup) ==
  [q EXCEPT !.s = [backup EXCEPT
                     !.trajectory = IF scenario.external THEN q.s.trajectory ELSE @,
                     !.algorithm  = IF scenario.external THEN q.s.algorithm ELSE @],
            !.buffer = IF q.buffer = << >> THEN << >>
                       ELSE <<remove_timestamps_after(q.buffer[1], backup.calc)>>]

-------------------------------------------------------------------------------
(* register_nd_common. u: one use of the proxy, n: number of input samples,*)
(* given: time step of the input port (0: derived from the interval).      *)

Opened(q) ==
  IF call_counter = q.module_activations THEN q
  ELSE [q EXCEPT !.current_time = 0, !.module_time_step = step]

WithBuffer(q, u) ==
  IF q.buffer = << >> /\ u.delay = 0 /\ u.n = 1 THEN q
  ELSE LET b == IF q.buffer = << >> THEN NewBuffer ELSE q.buffer[1]
           m == scenario.max_delay
       IN [q EXCEPT !.buffer = <<[b EXCEPT !.max_time = IF m < q.module_time_step
                                                        THEN q.module_time_step ELSE m]>>]

WithInterval(q, u) ==
  LET interval == IF u.tstep = End THEN q.module_time_step - q.current_time ELSE u.tstep
      in_step  == IF u.given = 0 THEN interval \div u.n ELSE u.given
  IN [q EXCEPT !.time_interval = interval, !.in_time_step = in_step,
               !.first_in_time_step = in_step, !.dc_init = @ \/ clock = 0]

\* Time the module has not used in its earlier calls.
Remaining(q) == IF q.module_time_step < clock
                THEN clock - q.module_time_step - q.s.in_time ELSE 0

\* Uses in the very first call, module_activations stays at -1.
FirstCall(q, u) ==
  LET s == [q.s EXCEPT !.in_time = -(q.in_time_step * u.n)]
      Backup(b) == [s EXCEPT !.trajectory = b.trajectory, !.algorithm = b.algorithm]
  IN [q EXCEPT !.s = s, !.module_backup = Backup(@), !.module_tstep_backup = Backup(@),
               !.tstep_backup = Backup(@)]

\* The module is called again for the time of its last call.
RepeatedCall(q, u) ==
  LET r == Restored(q, q.module_backup)
      i == IF u.tstep = End THEN last_step ELSE q.time_interval
      d == IF u.tstep = End THEN last_step \div u.n ELSE q.in_time_step
  IN [r EXCEPT !.module_time_step = last_step, !.current_time = 0,
               !.tstep_backup = IF scenario.iterations THEN r.module_tstep_backup ELSE @,
               !.time_interval = i, !.in_time_step = d, !.first_in_time_step = d]

\* Faulty: the check point of the call is left as it was.
ProgressingCall_NoBackup(q) ==
  [q EXCEPT !.module_tstep_backup = IF scenario.iterations THEN q.tstep_backup ELSE @]

ProgressingCall(q) ==
  [q EXCEPT !.module_tstep_backup = IF scenario.iterations THEN q.tstep_backup ELSE @,
            !.module_backup = Saved(q, q.s)]

\* last_calculated_time below zero compares as a large unsigned number.
IsRepeated(q) == clock <= q.s.calc \/ q.s.calc < 0 \/ q.module_time_step <= 0

\* The first use in a later call.
LaterCall(q, u) ==
  LET p == IF ~scenario.dynamic THEN q
           ELSE IF IsRepeated(q) THEN RepeatedCall(q, u) ELSE ProgressingCall(q)
      f == [p EXCEPT !.first_in_time_step = Remaining(p) + p.in_time_step,
                     !.module_activations = call_counter]
      r == Restored(f, f.tstep_backup)
  IN IF ~scenario.iterations THEN f
     ELSE IF f.first_in_time_step = 0
     THEN [r EXCEPT !.in_time_step = Remaining(r) \div u.n,
                    !.first_in_time_step = Remaining(r) \div u.n]
     ELSE [f EXCEPT !.tstep_backup = Saved(f, f.s)]

\* A further use in the same call: tstep zero takes the last one back.
SameCall(q, u) ==
  LET r     == Restored(q, q.tstep_backup)
      taken == q.s.calc - q.tstep_backup.calc
  IN IF ~scenario.iterations THEN q
     ELSE IF q.time_interval # 0 THEN [q EXCEPT !.tstep_backup = Saved(q, q.s)]
     ELSE IF q.current_time = 0
     THEN [r EXCEPT !.first_in_time_step = Remaining(r) \div u.n, !.in_time_step = 0]
     ELSE [r EXCEPT !.time_interval = taken, !.current_time = @ - taken,
                    !.first_in_time_step = taken \div u.n, !.in_time_step = taken \div u.n]

\* Faulty: the second call is made in DC mode, too.
Checked_DcInSecondCall(q, u) ==
  [q EXCEPT !.dc_init = @ \/ q.first_in_time_step = 0 \/ call_counter <= 1]

Checked(q, u) ==
  [q EXCEPT !.dc_init = @ \/ q.first_in_time_step = 0 \/ call_counter = 0,
            !.error = IF q.current_time + q.time_interval > q.module_time_step
                      THEN "interval"
                      ELSE IF u.delay > (IF q.buffer = << >> \/ scenario.max_delay = 0
                                         THEN q.time_interval ELSE scenario.max_delay)
                      THEN "delay" ELSE @]

\* coeff_changed: numerator and denominator, each with its flag of a write access since
\* a function has taken it over.
coeff_changed(q, u) ==
  \/ q.coef = None
  \/ \E i \in {1, 2} : u.accessed[i] /\ q.coef[i] # u.coef[i]

TakenOver(q, u, changed) ==
  [q EXCEPT !.reinit_request = changed, !.coef = IF changed THEN u.coef ELSE @]

Registered(q, u) ==
  LET a == WithInterval(WithBuffer(Opened(q), u), u)
  IN Checked(IF call_counter = q.module_activations THEN SameCall(a, u)
             ELSE IF call_counter = 0 THEN FirstCall(a, u) ELSE LaterCall(a, u), u)

register_nd_common(q, u) == Registered(TakenOver(q, u, coeff_changed(q, u)), u)

-------------------------------------------------------------------------------
(* The input samples: their time stamps, which are their values, too.      *)

VectorStamp(q, u, i) == clock + q.current_time - (u.n - 1 - i) * q.in_time_step
PortStamp(u, i)      == clock + i * u.given

\* r: the proxy after the common part of the registration.
Stored(r, u) ==
  LET Stamp(i)    == IF u.form = "port" THEN PortStamp(u, i) ELSE VectorStamp(r, u, i)
      Store(b, i) == IF u.form = "port" /\ i * u.given < r.current_time THEN b
                     ELSE store_value(b, Stamp(i), Stamp(i))
  IN [r EXCEPT !.buffer = IF @ = << >> THEN @
                          ELSE <<FoldLeft(Store, @[1], [i \in 1..u.n |-> i - 1])>>,
               !.last_available = Stamp(u.n - 1),
               !.current_time = @ + r.time_interval,
               !.outs = {}]

register_nd(q, u) == Stored(register_nd_common(q, u), u)

-------------------------------------------------------------------------------
(* The equations and one integration step.                                 *)

\* initialize: an internal state starts from zero again.
Reset(q) == IF scenario.external THEN q ELSE [q EXCEPT !.s.trajectory = << >>]

\* ana_reinit: mode 2 makes the matrices of the trapezoidal method only, unless Euler's
\* method comes next; the other modes start with Euler's method.
Decomposed(q, mode, h) ==
  LET m == [coef |-> q.coef, h |-> h]
  IN IF mode = 2 /\ q.s.algorithm = "TRAPEZ" THEN [q EXCEPT !.trapez = m]
     ELSE [q EXCEPT !.euler = m, !.trapez = m, !.s.algorithm = "EULER"]

\* Faulty: the matrices are made for the first step of a use only.
initialize_equation_system_Once(q, mode, h) ==
  IF h <= 0 THEN [q EXCEPT !.dc_init = TRUE]
  ELSE IF mode = 2 /\ q.last_h # 0 THEN q
  ELSE Decomposed([q EXCEPT !.last_h = h], mode, h)

initialize_equation_system(q, mode, h) ==
  IF h <= 0 THEN [q EXCEPT !.dc_init = TRUE]
  ELSE IF h = q.last_h /\ ~q.reinit_request THEN q
  ELSE Decomposed([q EXCEPT !.last_h = h], mode, h)

\* What a conversion starts with: in the first one, and after a change of the
\* coefficients, the equations are set up.
SetUp(q) ==
  IF q.first_step THEN initialize_equation_system(Reset(q), 0, q.first_in_time_step)
  ELSE IF q.reinit_request THEN initialize_equation_system(Reset(q), 1, q.first_in_time_step)
  ELSE q

\* calculate: one integration step of length h that ends at time `to'; in DC mode the
\* states are left alone. The length is the one of the matrices, if need be they are
\* made new.
Solved(q, h, value, to, width) ==
  LET by == IF q.dc_init THEN "DC" ELSE q.s.algorithm
      matrices == CASE by = "DC" -> NoMatrices [] by = "EULER" -> q.euler [] OTHER -> q.trapez
  IN [q EXCEPT !.s.trajectory = Append(@, [to |-> to, h |-> h, by |-> by, value |-> value,
                                           width |-> width, matrices |-> matrices]),
               !.s.algorithm = IF by = "DC" THEN @ ELSE "TRAPEZ",
               !.dc_init = FALSE]

Calculate(q, h, value, to) ==
  Solved(initialize_equation_system(q, 2, h), h, value, to, scenario.inputs)

\* estimate_next_value: one step more, which is taken back but for the matrices.
estimate_next_value(q) ==
  IF q.first_step THEN q
  ELSE [initialize_equation_system(q, 2, q.time_interval) EXCEPT !.s = q.s, !.dc_init = FALSE]

Failed(q) == [q EXCEPT !.error = "internal error"]

\* The output lies before the next point: g, the input there, is interpolated.
Interrupted(q, g, next_out) ==
  IF g.value = << >> THEN Failed(q)
  ELSE [Calculate([q EXCEPT !.buffer = <<g.b>>], next_out - q.s.calc, g.value[1], next_out)
          EXCEPT !.s.calc = next_out]

\* convert_to_double with a buffer: integrate until the output time is reached.
\* n: the next point of the buffer, at: the time it takes effect.
RECURSIVE Reach(_, _, _)
Reached(q, n, at, next_out, delay) ==
  IF at = next_out
  THEN [Calculate(q, at - q.s.calc, n.point.value, at)
          EXCEPT !.s.calc = next_out, !.s.in_time = n.point.time]
  ELSE IF n.none THEN Failed(q)
  ELSE IF at < next_out /\ at >= 0
  THEN Reach([Calculate(q, at - q.s.calc, n.point.value, at)
                EXCEPT !.s.calc = at, !.s.in_time = n.point.time], next_out, delay)
  ELSE Interrupted(q, get_value(n.b, next_out - delay), next_out)

Found(q, n, next_out, delay) ==
  Reached([q EXCEPT !.buffer = <<n.b>>], n, n.point.time + delay, next_out, delay)

Reach(q, next_out, delay) ==
  Found(q, get_next_value_after(q.buffer[1], q.s.calc - delay), next_out, delay)

Finished(r, out) ==
  IF r.error # None THEN r
  ELSE [r EXCEPT !.buffer[1].time_reached = r.s.in_time, !.s.out_time = out,
                 !.outs = {<<0, r.s.calc>>}]

ToDouble(q, u) ==
  IF q.buffer = << >>
  THEN LET to == q.s.in_time + q.first_in_time_step
       IN [Calculate(q, q.first_in_time_step, u.value, to)
             EXCEPT !.s.in_last = u.value, !.s.in_time = to, !.s.calc = to,
                    !.outs = {<<0, to>>}]
  ELSE LET first == q.s.out_time = None
           out   == IF first THEN clock ELSE q.s.out_time + q.time_interval
       IN Finished(Reach(IF first THEN [q EXCEPT !.s.calc = q.s.in_time] ELSE q, out, u.delay),
                   out)

convert_to_double(q, u) == [ToDouble(SetUp(q), u) EXCEPT !.first_step = FALSE]

-------------------------------------------------------------------------------
(* calculate_timeinterval: u.m output samples at l.next_out, + out_step .. *)

\* A vector of more than one sample is read from the buffer.
Input(u, i) == IF u.form = "port" THEN PortStamp(u, i) ELSE u.value

Written(q, l) == [q EXCEPT !.outs = @ \cup {<<l.out_index, l.next_out>>},
                           !.s.out_time = l.next_out]
NextOut(l) == [l EXCEPT !.out_index = @ + 1, !.next_out = @ + l.out_step]
NextIn(q, l) == [l EXCEPT !.in_index = @ + 1, !.next_in = @ + l.in_step,
                          !.in_step = q.in_time_step]
OrInStep(q, dt) == IF dt = 0 THEN q.in_time_step ELSE dt
Near(a, b, d) == a - b < d /\ b - a < d

RECURSIVE Undelayed(_, _, _)
Undelayed(q, l, u) ==
  LET input == Input(u, l.in_index)
      dist  == l.next_out - q.s.calc
      dt    == IF Near(dist, q.dt_last, 2) THEN q.dt_last ELSE dist
      until == l.next_in + u.delay - q.s.calc
      over  == l.next_out + u.delay - q.s.calc
      inter == q.s.in_last + ((input - q.s.in_last) * (l.next_out - q.s.in_time + u.delay))
                               \div l.in_step
  IN IF l.out_index >= u.m THEN q
     ELSE IF Near(l.next_in + u.delay, l.next_out, 2)
     THEN Undelayed(Written([Calculate(q, OrInStep(q, dt), input, q.s.calc + dt)
                               EXCEPT !.s.in_last = input, !.s.in_time = l.next_in,
                                      !.dt_last = dt, !.s.calc = @ + dt], l),
                    NextOut(NextIn(q, l)), u)
     ELSE IF l.next_in + u.delay < l.next_out
     THEN Undelayed([Calculate(q, OrInStep(q, until), input, q.s.calc + until)
                       EXCEPT !.s.in_last = input, !.s.in_time = l.next_in,
                              !.s.calc = @ + until], NextIn(q, l), u)
     ELSE Undelayed(Written([Calculate(q, OrInStep(q, over), inter, l.next_out)
                               EXCEPT !.s.calc = l.next_out], l), NextOut(l), u)

\* n: the next point of the buffer, at: the time of the input for the next output,
\* g: the input there.
RECURSIVE Delayed(_, _, _)
Output(q, l, u, at, hit, g) ==
  IF g.value = << >> THEN Failed(q)
  ELSE Delayed(Written([Calculate(q, l.next_out - q.s.calc, g.value[1], l.next_out)
                          EXCEPT !.s.calc = l.next_out,
                                 !.s.in_time = IF hit THEN at ELSE @,
                                 !.buffer = <<[g.b EXCEPT !.time_reached = l.next_out]>>], l),
               [NextOut(l) EXCEPT !.read = at], u)

NextPoint(q, l, u, n, at) ==
  IF ~n.none /\ n.point.time < at
  THEN Delayed([Calculate(q, n.point.time + u.delay - q.s.calc, n.point.value,
                          n.point.time + u.delay)
                  EXCEPT !.s.calc = n.point.time + u.delay, !.s.in_time = n.point.time],
               [l EXCEPT !.read = n.point.time], u)
  ELSE IF n.point.time = at
  THEN Output(q, l, u, at, TRUE, [b |-> n.b, value |-> <<n.point.value>>])
  ELSE Output(q, l, u, at, FALSE, get_value(n.b, at))

WithPoint(q, l, u, n) ==
  NextPoint([q EXCEPT !.buffer = <<n.b>>], l, u, n, l.next_out - u.delay)

Delayed(q, l, u) ==
  IF l.out_index >= u.m THEN q
  ELSE WithPoint(q, l, u, get_next_value_after(q.buffer[1], l.read))

calculate_timeinterval(q, l, u) ==
  LET p == [SetUp(q) EXCEPT !.s.in_last = IF q.first_step THEN Input(u, 0) ELSE @,
                            !.first_step = FALSE, !.reinit_request = FALSE]
  IN IF q.buffer = << >> THEN Undelayed(p, l, u)
     ELSE Delayed(p, [l EXCEPT !.read = q.s.calc - u.delay], u)

\* The variables of the loop: the input to be read next and the output to be computed.
Loop(q, out_index, out_step, next_out) ==
  [in_index |-> 0, out_index |-> out_index, out_step |-> out_step, read |-> 0,
   next_in |-> q.s.in_time + q.first_in_time_step, in_step |-> q.in_time_step,
   next_out |-> next_out]

\* The samples of a port that were computed before are skipped.
PortLoop(q, u) ==
  LET out_step == step \div u.m
      last     == IF q.s.out_time = None THEN 0 ELSE q.s.out_time
      skipped  == IF clock <= last /\ last # 0
                  THEN (last - clock + out_step - 1) \div out_step + 1 ELSE 0
  IN Loop(q, skipped, out_step, clock + out_step * skipped)

IsCausal(q, u) == clock + (step \div u.m) * (u.m - 1) <= q.last_available + u.delay

convert_to_port(q, u) ==
  IF ~IsCausal(q, u) THEN [q EXCEPT !.error = "causality"]
  ELSE calculate_timeinterval(q, PortLoop(q, u), u)

VectorLoop(q, u) ==
  LET out_step == q.time_interval \div u.m
  IN Loop(q, 0, out_step,
          IF q.s.out_time # None THEN q.s.out_time + q.time_interval - (u.m - 1) * out_step
                                 ELSE -(out_step * (u.m - 1)))

VectorStart(q, u) ==
  IF q.s.out_time # None THEN q ELSE [q EXCEPT !.s.calc = -(q.time_interval \div u.m) * u.m]

convert_to_vector(q, u) == calculate_timeinterval(VectorStart(q, u), VectorLoop(q, u), u)

\* r: the proxy after the registration. A failed one reports its error and converts
\* nothing.
Converted(r, u) ==
  IF r.error # None THEN r
  ELSE CASE u.form = "double" -> convert_to_double(r, u)
         [] u.form = "vector" -> convert_to_vector(r, u)
         [] u.form = "port"   -> convert_to_port(r, u)
===============================================================================
