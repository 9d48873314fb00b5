--------------------------- MODULE MCInterlocking ---------------------------
(***************************************************************************)
(* Small layouts for model checking Interlocking.  A configuration picks   *)
(* one: its blocks, its paths and their elements.                          *)
(***************************************************************************)
EXTENDS Interlocking

Plain(from, fromSide, to, toSide) ==
  [from |-> from, fromSide |-> fromSide, to |-> to, toSide |-> toSide,
   turnouts |-> {}, controls |-> {}, crossings |-> {}, bridges |-> {}]

-----------------------------------------------------------------------------
(* Line:  A b1 B -- A b2 B -- A b3 B, whose routes go one way *)

LineBlock == {"b1", "b2", "b3"}
LinePath == {"12", "23"}
LineInfo == ("12" :> Plain("b1", "B", "b2", "A")) @@
            ("23" :> Plain("b2", "B", "b3", "A"))

\* One detector in each block, and two in the middle one.
NoSensor == [b \in Block |-> 0]
OneSensor == [b \in Block |-> 1]
TwoInMiddle == [b \in Block |-> IF b = "b2" THEN 2 ELSE 1]

-----------------------------------------------------------------------------
(* Short: A b1 B -- A b2 B *)

ShortBlock == {"b1", "b2"}
ShortPath == {"12", "21"}
ShortInfo == ("12" :> Plain("b1", "B", "b2", "A")) @@
             ("21" :> Plain("b2", "A", "b1", "B"))

-----------------------------------------------------------------------------
(* Cross: two lines that meet on a crossing and on a bridge, one of them   *)
(* past a direction control, and a turnout that forks the other.           *)

CrossBlock == {"n", "s", "w", "e"}
CrossPath == {"ns", "we", "ww"}
CrossInfo ==
  ("ns" :> [Plain("n", "B", "s", "A") EXCEPT !.crossings = {<<"c", "AC">>},
                                              !.bridges = {<<"g", "AC">>},
                                              !.controls = {<<"d", "AtoB">>}]) @@
  ("we" :> [Plain("w", "B", "e", "A") EXCEPT !.crossings = {<<"c", "BD">>},
                                              !.bridges = {<<"g", "BD">>},
                                              !.turnouts = {<<"x", "Straight">>}]) @@
  ("ww" :> [Plain("w", "B", "e", "B") EXCEPT !.bridges = {<<"g", "AC">>},
                                              !.turnouts = {<<"x", "Left">>}])

(***************************************************************************)
(* Trains that stand: they are put on the layout, turned and removed, and  *)
(* paths are reserved for them, but no sensor reports and none drives off. *)
(***************************************************************************)
StandingNext ==
  \/ BlockCommand \/ FieldCommand \/ Reload
  \/ \E t \in Train : ReverseTrain(t)
  \/ \E p \in Path : ReservePath(p) \/ ReleasePath(p)

StandingSpec == Init /\ [][StandingNext]_vars

Trains == Permutations(Train)
=============================================================================
