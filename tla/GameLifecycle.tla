---------------------------- MODULE GameLifecycle ----------------------------
(***************************************************************************)
(* What the host promises of either game (master/src/shared/lifecycle.ts): *)
(* a game is set up, started, ended, and its podium revealed step by step, *)
(* third place first; an end may be taken back until the reveal begins,    *)
(* where the game allows it, and a reveal never goes back.                 *)
(***************************************************************************)
EXTENDS Integers

CONSTANT CanReopen        \* TRUE for a game that may go on after its end (yutnori only)

VARIABLES state, revealStep

Last == 4                 \* MAX_REVEAL_STEP: the full standings

Become(s) == state' = s /\ UNCHANGED revealStep

Init == state = "SETUP" /\ revealStep = 0

Next == \/ state = "SETUP" /\ Become("LOBBY")
        \/ state = "LOBBY" /\ Become("RUNNING")
        \/ state = "RUNNING" /\ Become("ENDED")
        \/ state = "ENDED" /\ CanReopen /\ Become("RUNNING")
        \/ state = "ENDED" /\ state' = "REVEAL" /\ revealStep' = 0
        \/ state = "REVEAL" /\ revealStep < Last /\ revealStep' = revealStep + 1 /\ UNCHANGED state

Spec == Init /\ [][Next]_<<state, revealStep>>
==============================================================================
