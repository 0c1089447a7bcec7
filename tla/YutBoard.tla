------------------------------ MODULE YutBoard ------------------------------
(***************************************************************************)
(* The 29-station yut board of yutnori/src/shared/board.ts: a graph over   *)
(* integer nodes in which a mal that RESTS on a branch station chooses     *)
(* between two ways on, and one that FLOWS over it does not.               *)
(* Everything here is a pure operator; no station is ever recursive, the   *)
(* longest throw walks five steps.                                         *)
(***************************************************************************)
EXTENDS Integers

WAITING == 0        \* off-board, cannot be caught
HOME    == 20       \* finished, cannot be caught
CENTER  == 23

OnBoard == (1..19) \cup {CENTER, 21, 22, 24, 25, 26, 27, 28, 29}
Nodes   == {WAITING} \cup OnBoard \cup {HOME}

Rolls == {"do", "gae", "geol", "yut", "mo"}
ROLL_STEPS  == [do |-> 1, gae |-> 2, geol |-> 3, yut |-> 4, mo |-> 5]
BONUS_ROLLS == {"yut", "mo"}

MINIGAME_STATIONS == {1, 3, 6, 8, 11, 13, 16, 18, 22, 25, 27, 29, 23}

(* The one onward station of a mal flowing along its current path.         *)
DefaultNext(n) ==
    CASE n = CENTER   -> 28      \* flowing through the centre is the long way
      [] n = 22       -> CENTER
      [] n = 25       -> HOME
      [] n = 27       -> CENTER
      [] n = 29       -> 15      \* back on the outer ring
      [] n \in {21, 24, 26, 28} \cup (1..19) -> n + 1
      [] OTHER        -> HOME

(* Where the first step may go from the station a mal rests on.            *)
FirstOptions(n) ==
    CASE n = WAITING -> {1}
      [] n = 5       -> {6, 21}
      [] n = 10      -> {11, 26}
      [] n = CENTER  -> {24, 28}
      [] OTHER       -> {DefaultNext(n)}

(* The station reached by `steps' steps of which the first lands on `first'.
   HOME is its own successor, which is how an overshoot stays home.        *)
Walk(first, steps) ==
    LET second == DefaultNext(first)
        third  == DefaultNext(second)
        fourth == DefaultNext(third)
    IN  <<first, second, third, fourth, DefaultNext(fourth)>>[steps]

DestinationsExact(from, steps) ==   \* mutant: home only by exact throw
    IF from = HOME THEN {}
    ELSE {Walk(first, steps) : first \in {x \in FirstOptions(from) :
                                            steps > 1 => Walk(x, steps - 1) # HOME}}

Destinations(from, steps) ==
    IF from = HOME THEN {} ELSE {Walk(first, steps) : first \in FirstOptions(from)}

(* The station one step before `to' on the way a mal took from `from': where
   a failed station challenge puts it back.                                *)
StepBefore(from, steps, to) ==
    LET ways == {first \in FirstOptions(from) : Walk(first, steps) = to}
    IN  IF steps <= 1 \/ ways = {} THEN from
        ELSE Walk(CHOOSE first \in ways : TRUE, steps - 1)

(***************************************************************************)
(* Distance travelled, for the ranking: the fewest steps left to HOME,     *)
(* measured back from WAITING.  Reach[k] is the k-th frontier of the       *)
(* breadth-first search in computeToHome.                                  *)
(***************************************************************************)
Succ(n) == IF n = HOME THEN {}
           ELSE IF n = WAITING THEN {1}
           ELSE {DefaultNext(n)} \cup FirstOptions(n)

Reach[k \in Nat] ==
    IF k = 0 THEN {HOME}
    ELSE LET closer == Reach[k-1]
         IN  closer \cup {n \in Nodes : Succ(n) \cap closer # {}}

ToHome == [n \in Nodes |->
              CHOOSE k \in 0..30 : n \in Reach[k] /\ (k > 0 => n \notin Reach[k-1])]

AdvancementOf(n) == ToHome[WAITING] - ToHome[n]
=============================================================================
