---------------------------- MODULE MCTdfScheduler ----------------------------
(***************************************************************************)
(* Three modules: A drives B and C, B drives C, C feeds back to A; A reads *)
(* SystemC, C writes it.  Every cluster over this topology with one or two *)
(* calls, rates up to two that balance, and the delays below; a few of     *)
(* them are dynamic and are scheduled again.                               *)
(***************************************************************************)
EXTENDS TdfScheduler

MCModules == {"A", "B", "C"}
MCInPorts == {"B_a", "C_a", "C_b", "A_c"}
MCOutPorts == {"oA", "oB", "oC"}
MCOwner == [p \in MCInPorts \cup MCOutPorts |->
    CASE p \in {"A_c", "oA"} -> "A"
      [] p \in {"B_a", "oB"} -> "B"
      [] OTHER -> "C"]
MCDriver == [i \in MCInPorts |->
    CASE i \in {"B_a", "C_a"} -> "oA"
      [] i = "C_b" -> "oB"
      [] OTHER -> "oC"]
MCPosition == [m \in MCModules |-> CASE m = "A" -> 1 [] m = "B" -> 2 [] OTHER -> 3]
MCFromPorts == {"fA"}
MCToPorts == {"tC"}
MCScOwner == [p \in {"fA", "tC"} |-> IF p = "fA" THEN "A" ELSE "C"]
MCScPortSeq == <<"fA", "tC">>

\* The orders cluster() can give to the three modules: forward and backward.
Orders == { [m \in MCModules |-> CASE m = "A" -> 0 [] m = "B" -> 2 [] OTHER -> 1],
            [m \in MCModules |-> CASE m = "A" -> 0 [] m = "B" -> -1 [] OTHER -> 1] }

\* Rates of the channel from m to n: the balance equation for the calls c.
Rates(c) ==
    {r \in [MCInPorts \cup MCOutPorts -> 1..2] :
        \A i \in MCInPorts :
            c[MCOwner[i]] * r[i] = c[MCOwner[MCDriver[i]]] * r[MCDriver[i]]}

CallCounts == {c \in [MCModules -> 1..2] : \E m \in MCModules : c[m] = 1}

LcmOfCalls(c) == IF \E m \in MCModules : c[m] = 2 THEN 2 ELSE 1

\* Call counts with rates that balance them.
Balanced == UNION {{<<c, r>> : r \in Rates(c)} : c \in CallCounts}

\* Rate and delay of fA and tC, and the delays of the channels.
GraphsWith(scRates, scDelays, delays, feedback) ==
    { [calls |-> b[1],
       rate  |-> [p \in (MCInPorts \cup MCOutPorts) \cup {"fA", "tC"} |->
                    CASE p = "fA" -> fr [] p = "tC" -> tr [] OTHER -> b[2][p]],
       delay |-> [p \in (MCInPorts \cup MCOutPorts) \cup {"fA", "tC"} |->
                    CASE p = "fA" -> fd [] p = "tC" -> td
                      [] p = "B_a" -> d [] p = "oC" -> fb
                      [] p = "A_c" -> d [] OTHER -> 0],
       order |-> o,
       lcm   |-> LcmOfCalls(b[1])] :
      b \in Balanced, fr \in scRates, tr \in scRates, fd \in scDelays,
      td \in scDelays, d \in delays, fb \in feedback, o \in Orders }

\* The scaled time base divides by the rate (StepDivisionExact): the others are
\* the subject of the run that refutes it.
Exact(gr) ==
    \A p \in {"fA", "tC"} :
        LET base == IF gr.lcm % gr.rate[p] = 0 THEN gr.lcm ELSE gr.lcm * gr.rate[p]
        IN  base % (gr.calls[MCScOwner[p]] * gr.rate[p]) = 0

-------------------------------------------------------------------------------
AllGraphs == GraphsWith({1, 2}, {0, 1, 2}, {0, 1}, {0, 1, 2})
ExactGraphs == {gr \in AllGraphs : Exact(gr)}

\* The clusters between which a dynamic one moves: the delay of the converter tC and of the feedback, and rates and calls, change between passes.
DynamicGraphs ==
    {gr \in GraphsWith({1}, {0, 1}, {0}, {1, 2}) :
        /\ Exact(gr)
        /\ gr.order["B"] = 2
        /\ gr.delay["fA"] = 1
        /\ \A p \in MCInPorts : gr.rate[p] * gr.calls[MCOwner[p]] <= 2
        /\ gr.calls["A"] = 2 => gr.calls["C"] = 1}
===============================================================================
