------------------------------ MODULE MCScreens ------------------------------
(* Screens on small instances.                                             *)
EXTENDS Screens

Rooms(b, y) == [g \in Games |-> IF g = "bingo" THEN b ELSE y]

(* An evening: bingo fills up and is revealed while yutnori is played, and
   yutnori is revealed in its turn.                                        *)
Evening == {Rooms(Room("LOBBY", 0, FALSE), Room("RUNNING", 0, FALSE)),
            Rooms(Room("ENDED", 0, FALSE), Room("RUNNING", 0, TRUE)),
            Rooms(Room("REVEAL", 2, FALSE), Room("ENDED", 0, FALSE))}

Ending == {Rooms(Room("ENDED", 0, FALSE), Room("RUNNING", 0, FALSE))}
=============================================================================
