------------------------------ MODULE MCYutStore ------------------------------
(* YutStore on small instances.                                            *)
EXTENDS YutStore

CONSTANT TheGame    \* the one entry of the roulette

AllModes    == [teams : {2}, malPerTeam : {1}, miniGames : BOOLEAN, captureDuel : BOOLEAN]
PlainOrDuels == {m \in AllModes : m.miniGames => m.captureDuel}

TwoSticks   == {"do", "mo"}
ThreeSticks == {"do", "geol", "mo"}
OneGame     == {TheGame}
NoTime      == {}
One         == {1}
==============================================================================
