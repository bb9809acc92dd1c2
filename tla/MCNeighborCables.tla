--------------------------- MODULE MCNeighborCables ---------------------------
(***************************************************************************)
(* NeighborCables for TLC: an AP with two ports and one with a single one, *)
(* two switches, a patch panel, and every way the ports can be cabled      *)
(* before.                                                                 *)
(***************************************************************************)
EXTENDS NeighborCables

MCAps == <<"A", "B">>
MCDeviceOf ==
  [i \in {"a0", "a1", "b0", "p1", "p2", "q1"} |->
     CASE i \in {"a0", "a1"} -> "A" [] i = "b0" -> "B"
       [] i \in {"p1", "p2"} -> "P" [] i = "q1" -> "Q"]
MCMate == [p \in {"front", "rear"} |-> IF p = "front" THEN "rear" ELSE "front"]

(* Two cables or fewer, anywhere; and some with the panel, or with two     *)
(* terminations on a side.                                                 *)
Pairs == {{i, j} : i, j \in DOMAIN MCDeviceOf}
Straight == {<<{i}, {j}>> : i \in {"a0", "a1", "b0", "p1"}, j \in {"b0", "p1", "p2", "q1"}}
Apart(c, d) == (c[1] \cup c[2]) \cap (d[1] \cup d[2]) = {}
Proper(c) == c[1] \cap c[2] = {}
MCFabrics ==
  {<<>>}
    \cup {<<c>> : c \in {x \in Straight : Proper(x)}}
    \cup {<<x[1], x[2]>> : x \in {y \in Straight \X Straight :
                                    Proper(y[1]) /\ Proper(y[2]) /\ Apart(y[1], y[2])}}
    \cup {<<<<{"a0"}, {"front"}>>, <<{"rear"}, {j}>>>> : j \in {"p1", "p2"}}
    \cup {<<<<{"a0"}, {"front"}>>>>, <<<<{"p1"}, {"rear"}>>, <<{"a0"}, {"q1"}>>>>,
          <<<<{"a0"}, {"p1", "p2"}>>>>, <<<<{"p1"}, {"a0", "a1"}>>>>}

(* No port is in the rows of two links; two APs cabled to each other both *)
(* report it.                                                              *)
Report(rowsA, rowsB) == [d \in {"A", "B"} |-> IF d = "A" THEN rowsA ELSE rowsB]
MCReports ==
  {Report(<<<<"a0", "p1">>>>, <<<<"b0", "p2">>>>),
   Report(<<<<"a0", "p1">>, <<"a1", "q1">>>>, <<<<"b0", "p2">>>>),
   Report(<<<<"a1", "p2">>, <<"a0", "p1">>>>, <<<<"b0", Unmatched>>>>),
   Report(<<<<"a0", "b0">>, <<"a1", "q1">>>>, <<<<"b0", "a0">>>>)}

(* Two WLCs report different neighbors of one AP port.                     *)
TwiceReports == {Report(<<<<"a0", "p1">>, <<"a0", "p2">>>>, <<>>)}

(* The first are what the theorems ask for, the other is not.              *)
ASSUME OnePerPortAssumption ==
  \/ Reports = MCReports /\ OnePerPort
  \/ Reports = TwiceReports /\ ~OnePerPort

=============================================================================
