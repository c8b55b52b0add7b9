---------------------------- MODULE MCFlowNetlist ----------------------------
(* Small flows for TLC.                                                     *)
EXTENDS FlowNetlist, TLC

CONSTANTS c1, c2, solve, report, assemble, format, u, v

(* One caller of two, one callee of two, and a function that calls itself.  *)
MCTriangle ==
  {{<<solve, assemble>>, <<solve, report>>, <<assemble, report>>, <<report, report>>}}

(* One client with a few requests, or two whose requests cross.             *)
MCAllowances ==
  {[c \in Clients |-> IF c = d THEN 3 ELSE 0] : d \in Clients} \cup {[c \in Clients |-> 1]}
MCSymmetry == Permutations(Clients)
MCOnce == {[c \in Clients |-> 1]}

(* Two callers with one callee each.                                        *)
MCTwoPairs == {{<<solve, assemble>>, <<report, format>>}}
==============================================================================
