------------------------------ MODULE MCSignals ------------------------------
(***************************************************************************)
(* A small layout for Signals: after signal s1 turnout x leads to block m, *)
(* with signal s2 behind it, or to block l; both lead to block e, and      *)
(* after e comes s1 again.                                                 *)
(*                                                                         *)
(*      e --s1-- x --- m --s2-- e                                          *)
(*                \--- l ------/                                           *)
(***************************************************************************)
EXTENDS Signals, TLC

Pair(o, v) == [output |-> o, value |-> v]
BlockItem(b) == [kind |-> "block", of |-> b, at |-> "B"]
SignalItem(s) == [kind |-> "signal", of |-> s, at |-> "Unknown"]
TurnoutItem(x, v) == [kind |-> "turnout", of |-> x, at |-> v]

MCBlock == {"m", "l", "e"}
MCOutput == {"ox", "o1", "p1", "o2"}
MCPath == {"el", "le"}
MCPathInfo ==
  ("el" :> [from |-> "e", fromSide |-> "B", to |-> "l", toSide |-> "A",
            turnouts |-> {<<"x", "Left">>}, signals |-> {"s1"}]) @@
  ("le" :> [from |-> "l", fromSide |-> "B", to |-> "e", toSide |-> "A",
            turnouts |-> {}, signals |-> {}])
MCAhead ==
  ("s1" :> {<<TurnoutItem("x", "Straight"), BlockItem("m"), SignalItem("s2"), BlockItem("e")>>,
            <<TurnoutItem("x", "Left"), BlockItem("l"), BlockItem("e")>>}) @@
  ("s2" :> {<<BlockItem("e")>>})
MCItems ==
  ("x" :> <<"Straight", "Left">>) @@ ("s1" :> <<"Stop", "ProceedReducedSpeed", "Proceed">>) @@
  ("s2" :> <<"Stop", "Proceed">>)
MCOutputs == ("x" :> {"ox"}) @@ ("s1" :> {"o1", "p1"}) @@ ("s2" :> {"o2"})

\* What the user sets up: each item of a map has an action for every output.
MCActions ==
  ("x" :> (("Straight" :> <<Pair("ox", "First")>>) @@ ("Left" :> <<Pair("ox", "Second")>>))) @@
  ("s1" :> (("Stop" :> <<Pair("o1", "First")>>) @@
            ("ProceedReducedSpeed" :> <<Pair("o1", "Second"), Pair("p1", "First")>>) @@
            ("Proceed" :> <<Pair("o1", "Second"), Pair("p1", "Second")>>))) @@
  ("s2" :> (("Stop" :> <<Pair("o2", "First")>>) @@ ("Proceed" :> <<Pair("o2", "Second")>>)))

\* The default of the map of s1: getDefaultActionValue has one action for each aspect.
MCDefaultActions ==
  [MCActions EXCEPT !["s1"] = ("Stop" :> <<Pair("o1", "First")>>) @@
                              ("ProceedReducedSpeed" :> <<Pair("p1", "Second")>>) @@
                              ("Proceed" :> <<Pair("o1", "Second")>>)]

MCForeign == {Pair("ox", "Second"), Pair("o1", "Second"), Pair("o2", "First")}

\* A world saved before any tile was set, with a train in block e.
FreshInit ==
  /\ block = [b \in Block |-> IF b = "e" THEN "Occupied" ELSE "Free"]
  /\ shown = [t \in Tile |-> Unknown]
  /\ output = [o \in Output |-> Undefined]
  /\ require = [s \in Signal |-> "Auto"]
  /\ Init

FreshSpec == FreshInit /\ [][Next]_vars /\ Fairness
=============================================================================
