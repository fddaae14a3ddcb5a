----------------------------- MODULE MCTraceThread -----------------------------
(* Small buffers for TLC: two stamps fill the first, three the second.        *)
EXTENDS TraceThread

Plain == [unused |-> 0, digital |-> 0, deleted |-> FALSE]
Files == {Plain, [Plain EXCEPT !.unused = 1]}

\* The cases of the README's observations.
DigitalFiles == {[Plain EXCEPT !.digital = 1]}
UnusedFiles == {[Plain EXCEPT !.unused = 2]}
DeletedFiles == {[Plain EXCEPT !.deleted = TRUE]}
===============================================================================
