------------------------------ MODULE MCEngine -------------------------------
(* Instances of Engine for TLC.  "top" requires "mid" and "base", "mid"      *)
(* requires "base" and takes the optional "opt".                             *)
EXTENDS Engine

CONSTANTS s1, s2, w1, w2

MCExt == {"base", "mid", "top", "opt"}
MCDeps == [e \in MCExt |-> CASE e = "mid" -> {"base"} [] e = "top" -> {"mid", "base"} [] OTHER -> {}]
MCOptDeps == [e \in MCExt |-> IF e = "mid" THEN {"opt"} ELSE {}]
MCPriority == [e \in MCExt |-> CASE e = "top" -> 5 [] e = "mid" -> 1 [] OTHER -> 0]

\* One thread does everything, and extensions fail in every way.
Plain(exts, faults, late, n) ==
  [exts |-> exts, faults |-> faults, alone |-> TRUE, late |-> late, hangs |-> FALSE,
   raises |-> FALSE, boots |-> n, callers |-> {s1, s2}]

\* stop() and when_ready() at any time, on threads of their own; where there
\* are two callbacks, they may raise.
Racing(exts, hangs, callers) ==
  [exts |-> exts, faults |-> {}, alone |-> FALSE, late |-> FALSE, hangs |-> hangs,
   raises |-> w2 \in callers, boots |-> 2, callers |-> callers]

MCEnvs == {
  Plain({"base", "mid", "opt"}, {"usual", "other"}, FALSE, 2),
  Plain({"base", "mid", "opt"}, {"usual"}, TRUE, 3),
  Racing({"base"}, FALSE, {s1, s2, w1}),
  Racing({"base"}, FALSE, {s1, w1, w2}),
  Racing({"base", "mid"}, TRUE, {s1})}

\* The smallest environments in which a documented promise is broken.
MCOneBoot == {Plain({"base", "mid"}, {"usual"}, FALSE, 1)}
MCOneWaiter == {Racing({"base"}, FALSE, {w1})}

\* The orders keep their contract for every graph of three extensions, and when
\* what "mid" does not require is optional for it: also where there is a cycle.
Three == {"base", "mid", "top"}
Graphs == {G \in [Three -> SUBSET Three] : \A e \in Three : e \notin G[e]}
Optional(G) == [e \in Three |-> IF e = "mid" THEN Three \ (G[e] \cup {e}) ELSE {}]
Other(D, O) == INSTANCE Extensions WITH Ext <- Three, Enabled <- Three, Deps <- D, OptDeps <- O,
                                        Priority <- [e \in Three |-> 0]
ASSUME OrdersOfAnyGraph ==
  \A G \in Graphs : /\ Other(G, [e \in Three |-> {}])!OrdersAssumption
                    /\ Other(G, Optional(G))!OrdersAssumption
=============================================================================
