----------------------------- MODULE MCHostStore -----------------------------
(* HostStore on small instances.                                           *)
EXTENDS HostStore

TwoSteps == {0, 1}
NoGames  == {}
=============================================================================
