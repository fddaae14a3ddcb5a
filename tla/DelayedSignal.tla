----------------------------- MODULE DelayedSignal -----------------------------
(***************************************************************************)
(* What a signal crossing a delay promises: a sample given to it becomes   *)
(* due at a later time, and who looks at the signal at some time finds     *)
(* what the samples due until then say, whoever of the two sides acts      *)
(* first at that time. Between the samples the signal is a step (it holds  *)
(* the last sample due before) or a line (it is interpolated linearly).        *)
(***************************************************************************)
EXTENDS Integers, Sequences

LOCAL INSTANCE FiniteSetsExt

CONSTANT Unset         \* value of a sample nothing was written to

VARIABLES shape,       \* "step", "line" or "bent"
          now,         \* present time
          history,     \* the points [due, value] given so far
          seen         \* what was seen last: << >> or <<time, value>>

delayedVars == <<shape, now, history, seen>>

\* Linear interpolation between two points, a value at time t.
Between(p, q, t) ==
  IF t = q.due THEN q.value
  ELSE IF t = p.due THEN p.value
  ELSE IF Unset \in {p.value, q.value} THEN Unset
  ELSE p.value + ((q.value - p.value) * (t - p.due)) \div (q.due - p.due)

\* The last point due before t.
Before(t) == CHOOSE i \in DOMAIN history :
               /\ history[i].due < t
               /\ i = Len(history) \/ history[i + 1].due >= t

Reaches(t) == history[Len(history)].due >= t

StepAt(t) == history[Before(t)].value

LineAt(t) == IF t <= history[1].due THEN history[1].value
             ELSE Between(history[Before(t)], history[Before(t) + 1], t)

\* A sample, or a value on the way from it to the next one.
OnTheWay(v) ==
  \E i \in DOMAIN history :
     \/ v = history[i].value
     \/ /\ i < Len(history)
        /\ LET ends == {history[i].value, history[i + 1].value}
           IN Unset \notin ends /\ v \in Min(ends)..Max(ends)

MaySee(v) == CASE shape = "step" -> v = StepAt(now)
               [] shape = "line" -> Reaches(now) /\ v = LineAt(now)
               [] shape = "bent" -> OnTheWay(v)

\* The signal has a first value, maybe followed by presettings of its delay.
DelayedInit == /\ shape \in {"step", "line", "bent"}
               /\ now = 0
               /\ history # << >> /\ history[1].due <= now
               /\ \A i \in 2..Len(history) : history[i].due > history[i - 1].due
               /\ seen = << >>

TimePasses == /\ now' > now
              /\ UNCHANGED <<shape, history, seen>>

\* Samples are given in the order of their due times and never for the past.
Give == /\ Len(history') > Len(history)
        /\ SubSeq(history', 1, Len(history)) = history
        /\ \A i \in Len(history)..Len(history') - 1 :
              /\ history'[i + 1].due > history'[i].due
              /\ history'[i + 1].due >= now
        /\ UNCHANGED <<shape, now, seen>>

\* Nothing has to be guessed: a line is known up to the time it is looked at.
Look == /\ Len(seen') = 2 /\ seen'[1] = now /\ MaySee(seen'[2])
        /\ UNCHANGED <<shape, now, history>>

DelayedNext == TimePasses \/ Give \/ Look
DelayedSpec == DelayedInit /\ [][DelayedNext]_delayedVars
===============================================================================
