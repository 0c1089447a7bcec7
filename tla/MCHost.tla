------------------------------- MODULE MCHost -------------------------------
(* Host on small instances.                                                *)
EXTENDS Host

TwoSteps == {0, 1}
OnlyYut  == {"yutnori"}
NoGames  == {}
=============================================================================
