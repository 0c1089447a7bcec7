------------------------------ MODULE MCYutnori ------------------------------
(* Yutnori on small instances: the values the configurations give to its   *)
(* constants.                                                              *)
EXTENDS Yutnori

CONSTANT TheGame    \* the one entry of the roulette

(* Two teams, one mal each, in all four modes; and in one.                 *)
AllModes == [teams : {2}, malPerTeam : {1}, miniGames : BOOLEAN, captureDuel : BOOLEAN]

OneMode == [teams : {2}, malPerTeam : {1}, miniGames : {FALSE}, captureDuel : {TRUE}]

ThreeSticks == {"do", "geol", "mo"}
TwoSticks   == {"do", "mo"}
OneGame     == {TheGame}
NoGame      == {}
One         == {1}
Two         == {2}
==============================================================================
