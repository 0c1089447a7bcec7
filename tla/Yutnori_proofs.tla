---------------------------- MODULE Yutnori_proofs ----------------------------
(***************************************************************************)
(* What holds of a yutnori room for every setup, every throw of the sticks *)
(* and every bound: types, the turn that can always be played, what is     *)
(* pending matching the board, stations shared only in a duel, a clock     *)
(* only an extension sets back, and the lifecycle of module GameLifecycle. *)
(***************************************************************************)
EXTENDS Yutnori, YutRules_proofs

(* The inductive invariant.  TypeOK is not inductive as it stands: that the
   mal of a lost challenge lands on a station rests on PendingMiniMatches,
   that the turn is some team's and that undo rebuilds a well-typed game on
   the invariant of games, GameInv, and START on nothing being pending.    *)
IInv ==
    /\ TypeOK
    /\ state # "SETUP" => GameInv(setup, game)
    /\ state = "SETUP" => setup = NoTeams
    /\ state \in {"SETUP", "LOBBY"} =>
          NothingPending /\ startedAt = None /\ pausedAt = None /\ totalPaused = 0
    /\ startedAt # None => startedAt <= now
    /\ pausedAt # None => pausedAt <= now

LEMMA SetupHasTeams ==
    ASSUME TypeOK, state # "SETUP"
    PROVE  setup \in Setups1 /\ game.turn \in TeamIds(setup)
BY DEF TypeOK, Setups1, MIN_TEAMS, SetupRecords

(* The game of a room before START.                                        *)
LEMMA WaitingInv ==
    ASSUME NEW c \in Setups1, NEW at \in Nat
    PROVE  /\ GameInv(c, Waiting(c, at))
           /\ Waiting(c, at).pendingThrow = None /\ Waiting(c, at).pendingMini = None
<1> DEFINE f == FreshGame(c, at)
           g == [f EXCEPT !.queue = 0]
<1>1. GameInv(c, f) /\ f.pendingThrow = None /\ f.pendingMini = None
  BY FreshClear DEF FreshGame
<1>2. f \in GameRecords(c)
  BY <1>1 DEF GameInv
<1>3. Waiting(c, at) = g
  BY DEF Waiting
<1> HIDE DEF f
<1>4. /\ g \in GameRecords(c) /\ g.pos = f.pos /\ g.turn = f.turn
      /\ g.pendingThrow = None /\ g.pendingMini = None
  BY <1>1, <1>2 DEF GameRecords
<1> HIDE DEF g
<1>5. Clear(c, f)
  BY <1>1, ClearFromInv
<1>6. Clear(c, g)
  BY <1>4, <1>5 DEF Clear, Shared
<1> QED BY <1>3, <1>4, <1>6, InvFromClear

LEMMA InitInv == Init => IInv
<1> SUFFICES ASSUME Init PROVE IInv
  OBVIOUS
<1>1. NoTeams \in SetupRecords
  BY DEF NoTeams, SetupRecords
<1>2. game \in GameRecords(NoTeams) /\ NothingPending
  <2> DEFINE f == FreshGame(NoTeams, 0)
  <2>1. f \in GameRecords(NoTeams) /\ f.pendingThrow = None /\ f.pendingMini = None
    BY DEF FreshGame, GameRecords, Resting
  <2>2. game = [f EXCEPT !.queue = 0]
    BY DEF Init, Waiting
  <2> HIDE DEF f
  <2> QED BY <2>1, <2>2 DEF GameRecords, NothingPending
<1>3. DefaultLimit \in Nat
  BY TimesAssumption
<1>4. /\ setup = NoTeams /\ state = "SETUP" /\ revealStep = 0 /\ createdAt = 0
      /\ timeLimit = DefaultLimit /\ startedAt = None /\ pausedAt = None /\ totalPaused = 0
      /\ endedAt = None /\ endReason = None /\ now = 0 /\ dropped = FALSE
  BY DEF Init
<1>5. TypeOK
  <2>1. setup \in SetupRecords /\ game \in GameRecords(setup)
    BY <1>1, <1>2, <1>4
  <2>2. dropped \in BOOLEAN
    BY <1>4
  <2>3. revealStep \in 0..MAX_REVEAL_STEP /\ createdAt \in Nat /\ timeLimit \in Nat
        /\ totalPaused \in Nat /\ now \in Nat
    BY <1>3, <1>4 DEF MAX_REVEAL_STEP
  <2>4. startedAt \in Times /\ pausedAt \in Times /\ endedAt \in Times
        /\ endReason \in {"master", "timeup", None} /\ state \in RoomStates
    BY <1>4 DEF Times, RoomStates
  <2> QED BY <2>1, <2>2, <2>3, <2>4, <1>4 DEF TypeOK
<1> QED BY <1>2, <1>4, <1>5 DEF IInv

-----------------------------------------------------------------------------
(* One lemma per kind of step *)

(* A step of the game itself.                                              *)
LEMMA PlayedInv ==
    ASSUME IInv, NEW g, Played(g), state # "SETUP" => GameInv(setup, g), dropped' \in BOOLEAN
    PROVE  IInv'
<1>1. /\ state = "RUNNING" /\ game' = g
      /\ UNCHANGED <<setup, state, revealStep, createdAt, timeLimit, startedAt, pausedAt,
                     totalPaused, endedAt, endReason, now>>
  BY DEF Played, clock, end
<1>2. GameInv(setup, g)
  BY <1>1
<1>3. GameInv(setup', game') /\ game' \in GameRecords(setup') /\ game'.turn \in TeamIds(setup')
  BY <1>1, <1>2 DEF GameInv
<1>4. TypeOK'
  BY <1>1, <1>3 DEF IInv, TypeOK, Times
<1> QED BY <1>1, <1>3, <1>4 DEF IInv

LEMMA SetupInv ==
    ASSUME IInv, NEW c \in Setups, NEW limit \in TimeLimits, Setup(c, limit)
    PROVE  IInv'
<1>1. c \in Setups1 /\ c \in SetupRecords
  BY SetupsAssumption DEF Setup, MIN_TEAMS, Setups1, SetupRecords
<1>2. now \in Nat
  BY DEF IInv, TypeOK
<1>3. GameInv(c, Waiting(c, now))
      /\ Waiting(c, now).pendingThrow = None /\ Waiting(c, now).pendingMini = None
  BY <1>1, <1>2, WaitingInv
<1>4. GameInv(setup', game') /\ NothingPending' /\ setup' = c
  BY <1>3 DEF Setup, NothingPending
<1>5. TypeOK'
  BY <1>1, <1>4, TimesAssumption
     DEF IInv, TypeOK, Setup, GameInv, RoomStates, Times, end, MIN_TEAMS
<1> QED BY <1>4, <1>5 DEF IInv, Setup

LEMMA StartInv ==
    ASSUME IInv, Start
    PROVE  IInv'
<1> DEFINE at == [t \in TeamIds(setup) |-> now]
           g == [game EXCEPT !.turn = 1, !.queue = 1, !.lastAt = at]
<1>1. /\ setup \in Setups1 /\ GameInv(setup, game) /\ now \in Nat
      /\ game.pendingThrow = None /\ game.pendingMini = None
  BY SetupHasTeams DEF IInv, Start, TypeOK, NothingPending
<1>2. game \in GameRecords(setup) /\ at \in [TeamIds(setup) -> Nat]
  BY <1>1 DEF GameInv
<1>3. 1 \in TeamIds(setup)
  BY <1>1 DEF Setups1, SetupRecords, TeamIds
<1> HIDE DEF at
<1>4. /\ g \in GameRecords(setup) /\ g.pos = game.pos /\ g.turn = 1
      /\ g.pendingThrow = None /\ g.pendingMini = None
  BY <1>1, <1>2 DEF GameRecords
<1>5. game' = g
  BY DEF Start, at
<1> HIDE DEF g
<1>6. Clear(setup, game)
  BY <1>1, ClearFromInv
<1>7. Clear(setup, g)
  BY <1>3, <1>4, <1>6 DEF Clear, Shared
<1>8. GameInv(setup, g)
  BY <1>4, <1>7, InvFromClear
<1>9. TypeOK'
  BY <1>1, <1>3, <1>4, <1>5 DEF IInv, TypeOK, Start, RoomStates, Times, end
<1> QED BY <1>1, <1>5, <1>8, <1>9 DEF IInv, Start, TypeOK

LEMMA UndoEventInv ==
    ASSUME IInv, UndoEvent
    PROVE  IInv'
<1> DEFINE rebuilt == Replay(setup, StartTime, ButLast(game.history))
<1>1. Played(rebuilt) /\ rebuilt # None /\ dropped' = FALSE /\ game.history # <<>>
  BY DEF UndoEvent
<1>2. state = "RUNNING" /\ setup \in Setups1 /\ game \in GameRecords(setup)
  BY <1>1, SetupHasTeams DEF Played, IInv, TypeOK
<1>3. StartTime \in Nat
  BY DEF IInv, TypeOK, StartTime, Times
<1>4. ButLast(game.history) \in Seq(EventRecords(setup))
  <2>1. game.history \in Seq(EventRecords(setup))
    BY <1>2 DEF GameRecords
  <2> QED BY <2>1, <1>1 DEF ButLast
<1>5. GameInv(setup, rebuilt)
  BY <1>1, <1>2, <1>3, <1>4, ReplayInv
<1> HIDE DEF rebuilt
<1> QED BY <1>1, <1>5, PlayedInv

(* A throw taken back, and the one an ending throws away.                  *)
LEMMA WithdrawnInv ==
    ASSUME NEW c \in Setups1, NEW g, GameInv(c, g), NEW q \in Nat,
           NEW h, h = [g EXCEPT !.pendingThrow = None, !.queue = q]
    PROVE  GameInv(c, h)
<1>1. /\ h \in GameRecords(c) /\ h.pendingThrow = None /\ h.pendingMini = g.pendingMini
      /\ h.pos = g.pos /\ h.turn = g.turn /\ h.history = g.history
  BY DEF GameInv, GameRecords
<1>2. PendingMiniMatches(h)
  BY <1>1 DEF GameInv, PendingMiniMatches
<1>3. PendingThrowMatches(c, h)
  BY <1>1 DEF PendingThrowMatches
<1>4. ~c.miniGames => SharedOnlyInDuel(c, h)
  BY <1>1 DEF GameInv, SharedOnlyInDuel, Shared
<1> QED BY <1>1, <1>2, <1>3, <1>4 DEF GameInv

LEMMA UndoThrowInv ==
    ASSUME IInv, UndoThrow
    PROVE  IInv'
<1> DEFINE q == game.queue + 1
           g == [game EXCEPT !.pendingThrow = None, !.queue = q]
<1>1. Played(g) /\ UNCHANGED dropped
  BY DEF UndoThrow
<1>2. setup \in Setups1 /\ GameInv(setup, game) /\ q \in Nat
  BY <1>1, SetupHasTeams DEF Played, IInv, GameInv, GameRecords
<1>3. GameInv(setup, g)
  <2> HIDE DEF q
  <2> QED BY <1>2, WithdrawnInv
<1>4. dropped' \in BOOLEAN
  BY <1>1 DEF IInv, TypeOK
<1> HIDE DEF g
<1> QED BY <1>1, <1>3, <1>4, PlayedInv

LEMMA EndGameInv ==
    ASSUME IInv, state = "RUNNING", NEW reason \in {"master", "timeup"}, EndGame(reason)
    PROVE  IInv'
<1> DEFINE g == [game EXCEPT !.pendingThrow = None]
<1>1. setup \in Setups1 /\ GameInv(setup, game)
  BY SetupHasTeams DEF IInv
<1>2. game.queue \in Nat /\ game \in GameRecords(setup)
  BY <1>1 DEF GameInv, GameRecords
<1>3. g = [game EXCEPT !.pendingThrow = None, !.queue = game.queue]
  BY <1>2 DEF GameRecords
<1>4. GameInv(setup, g)
  BY <1>1, <1>2, <1>3, WithdrawnInv
<1>5. game' = g
  BY DEF EndGame
<1> HIDE DEF g
<1>6. GameInv(setup', game')
  BY <1>4, <1>5 DEF EndGame
<1>7. TypeOK'
  BY <1>6 DEF IInv, TypeOK, EndGame, GameInv, RoomStates, Times, clock
<1> QED BY <1>6, <1>7 DEF IInv, EndGame, clock

(* Every action of the master, and the tick.                               *)
LEMMA ActionInv ==
    ASSUME IInv, MasterAction \/ Tick
    PROVE  IInv'
<1> USE DEF IInv
<1>1. ASSUME NEW c \in Setups, NEW limit \in TimeLimits, Setup(c, limit) PROVE IInv'
  BY <1>1, SetupInv
<1>2. CASE Start
  BY <1>2, StartInv
<1>3. ASSUME NEW roll \in Sticks, Throw(roll) PROVE IInv'
  <2> DEFINE g == ThrowStick(setup, game, roll, now)
  <2>1. Played(g) /\ CanThrow(game) /\ UNCHANGED dropped
    BY <1>3 DEF Throw
  <2>2. setup \in Setups1 /\ GameInv(setup, game) /\ now \in Nat /\ roll \in Rolls
    BY <2>1, SetupHasTeams, SticksAssumption DEF Played, TypeOK
  <2>3. GameInv(setup, g)
    BY <2>1, <2>2, ThrowInv
  <2>4. dropped' \in BOOLEAN
    BY <2>1 DEF TypeOK
  <2> HIDE DEF g, IInv
  <2> QED BY <2>1, <2>3, <2>4, PlayedInv
<1>4. ASSUME game.pendingThrow # None, NEW cand \in game.pendingThrow.candidates, Move(cand)
      PROVE  IInv'
  <2> DEFINE g == CommitMove(setup, game, game.pendingThrow.roll, cand, now)
  <2>1. Played(g) /\ UNCHANGED dropped
    BY <1>4 DEF Move
  <2>2. setup \in Setups1 /\ GameInv(setup, game) /\ now \in Nat
    BY <2>1, SetupHasTeams DEF Played, TypeOK
  <2>3. GameInv(setup, g)
    BY <1>4, <2>2, MoveInv
  <2>4. dropped' \in BOOLEAN
    BY <2>1 DEF TypeOK
  <2> HIDE DEF g, IInv
  <2> QED BY <2>1, <2>3, <2>4, PlayedInv
<1>5. CASE UndoThrow
  BY <1>5, UndoThrowInv
<1>6. CASE UndoEvent
  BY <1>6, UndoEventInv
<1>7. ASSUME NEW id \in MiniGames, MiniGameSpin(id) PROVE IInv'
  <2> DEFINE g == SpinMiniGame(game, id)
  <2>1. Played(g) /\ game.pendingMini # None /\ UNCHANGED dropped
    BY <1>7 DEF MiniGameSpin
  <2>2. setup \in Setups1 /\ GameInv(setup, game)
    BY <2>1, SetupHasTeams DEF Played
  <2>3. GameInv(setup, g)
    BY <2>1, <2>2, SpinInv
  <2>4. dropped' \in BOOLEAN
    BY <2>1 DEF TypeOK
  <2> HIDE DEF g, IInv
  <2> QED BY <2>1, <2>3, <2>4, PlayedInv
<1>8. ASSUME NEW success \in BOOLEAN, MiniGameResolve(success) PROVE IInv'
  <2> DEFINE g == ResolveMiniGame(setup, game, success)
  <2>1. Played(g) /\ game.pendingMini # None /\ UNCHANGED dropped
    BY <1>8 DEF MiniGameResolve
  <2>2. setup \in Setups1 /\ GameInv(setup, game)
    BY <2>1, SetupHasTeams DEF Played
  <2>3. GameInv(setup, g)
    BY <2>1, <2>2, ResolveInv
  <2>4. dropped' \in BOOLEAN
    BY <2>1 DEF TypeOK
  <2> HIDE DEF g, IInv
  <2> QED BY <2>1, <2>3, <2>4, PlayedInv
<1>9. CASE Pause
  BY <1>9 DEF Pause, TypeOK, Times, NothingPending, end
<1>10. CASE Resume
  <2>1. now - pausedAt \in Nat
    BY <1>10 DEF Resume, TypeOK, Times
  <2>2. totalPaused' \in Nat
    BY <1>10, <2>1 DEF Resume, TypeOK
  <2> QED BY <1>10, <2>2 DEF Resume, TypeOK, Times, NothingPending, end
<1>11. ASSUME NEW minutes \in Extensions, Extend(minutes) PROVE IInv'
  <2>1. timeLimit' \in Nat
    BY <1>11, TimesAssumption DEF Extend, TypeOK
  <2> QED BY <1>11, <2>1 DEF Extend, TypeOK, Times, NothingPending, end
<1>12. CASE End
  BY <1>12, EndGameInv DEF End
<1>13. CASE ResumeFromEnded
  BY <1>13 DEF ResumeFromEnded, TypeOK, Times, RoomStates, NothingPending, clock
<1>14. ASSUME NEW step \in 0..MAX_REVEAL_STEP, Reveal(step) PROVE IInv'
  BY <1>14 DEF Reveal, TypeOK, Times, RoomStates, NothingPending, clock, end
<1>15. CASE Tick
  BY <1>15, EndGameInv DEF Tick
<1> QED BY <1>1, <1>2, <1>3, <1>4, <1>5, <1>6, <1>7, <1>8, <1>9, <1>10, <1>11, <1>12,
           <1>13, <1>14, <1>15 DEF MasterAction

LEMMA NextInv == IInv /\ [Next]_vars => IInv'
<1> SUFFICES ASSUME IInv, [Next]_vars PROVE IInv'
  OBVIOUS
<1>1. CASE MasterAction \/ Tick
  BY <1>1, ActionInv
<1>2. CASE Clock
  BY <1>2 DEF Clock, IInv, TypeOK, Times, NothingPending, clock, end
<1>3. CASE UNCHANGED vars
  BY <1>3 DEF vars, IInv, TypeOK, NothingPending, clock, end
<1> QED BY <1>1, <1>2, <1>3 DEF Next

(* The invariant is one.                                                   *)
THEOREM Invariance == Spec => []IInv
BY InitInv, NextInv, PTL DEF Spec

-----------------------------------------------------------------------------
(* What it gives *)

(* Every variable keeps its type, and the turn pointer is a team's.        *)
THEOREM TypesHold == Spec => []TypeOK
<1>1. IInv => TypeOK
  BY DEF IInv
<1> QED BY <1>1, Invariance, PTL

(* Whatever the sticks show, the team to move has a legal move: the code's
   NO_CANDIDATES is never raised on a throw.                               *)
THEOREM TurnCanBePlayed == Spec => []EveryThrowHasAMove
<1>1. IInv => EveryThrowHasAMove
  <2> SUFFICES ASSUME IInv, state = "RUNNING", NEW roll \in Rolls
               PROVE  Candidates(setup, game, roll) # {}
    BY DEF EveryThrowHasAMove
  <2>1. setup \in Setups1 /\ game.turn \in TeamIds(setup) /\ game \in GameRecords(setup)
    BY SetupHasTeams DEF IInv, TypeOK
  <2> QED BY <2>1, CandidatesExist
<1> QED BY <1>1, Invariance, PTL

(* A pending throw has the candidates a fresh computation gives, and a
   mini-game in progress is about the last move and the mals it left.      *)
THEOREM PendingHolds == Spec => []PendingMatchesBoard
<1>1. IInv => PendingMatchesBoard
  <2> SUFFICES ASSUME IInv PROVE PendingMatchesBoard
    OBVIOUS
  <2>1. CASE state = "SETUP"
    BY <2>1 DEF IInv, NothingPending, PendingMatchesBoard, PendingThrowMatches, PendingMiniMatches
  <2>2. CASE state # "SETUP"
    BY <2>2 DEF IInv, GameInv, PendingMatchesBoard
  <2> QED BY <2>1, <2>2
<1> QED BY <1>1, Invariance, PTL

(* Without station challenges two teams rest on one station only while a duel
   is to decide which of them goes.                                        *)
THEOREM StationsAreHeld == Spec => []NoSharedStation
<1>1. IInv => NoSharedStation
  <2> SUFFICES ASSUME IInv, ~setup.miniGames PROVE SharedOnlyInDuel(setup, game)
    BY DEF NoSharedStation
  <2>1. CASE state = "SETUP"
    <3>1. setup = NoTeams /\ game.pendingMini = None
      BY <2>1 DEF IInv, NothingPending
    <3>2. Mals(setup) = {}
      BY <3>1 DEF NoTeams, Mals, TeamIds
    <3> QED BY <3>1, <3>2 DEF SharedOnlyInDuel
  <2>2. CASE state # "SETUP"
    BY <2>2 DEF IInv, GameInv
  <2> QED BY <2>1, <2>2
<1> QED BY <1>1, Invariance, PTL

-----------------------------------------------------------------------------
(* The clock *)

(* A step leaves the clock as it was, lets it run, or is one of those that
   set it.                                                                 *)
LEMMA ClockSteps ==
    ASSUME IInv, [Next]_vars, state # "SETUP"
    PROVE  \/ UNCHANGED <<timeLimit, startedAt, pausedAt, totalPaused, now>>
           \/ Clock
           \/ Start \/ Pause \/ Resume
           \/ timeLimit' > timeLimit
<1>1. CASE Clock
  BY <1>1
<1>2. CASE Tick
  BY <1>2 DEF Tick, EndGame, clock
<1>3. CASE UNCHANGED vars
  BY <1>3 DEF vars, clock
<1>4. CASE MasterAction
  <2>1. ~ \E c \in Setups, limit \in TimeLimits : Setup(c, limit)
    BY DEF Setup
  <2>2. ASSUME NEW g, Played(g)
        PROVE  UNCHANGED <<timeLimit, startedAt, pausedAt, totalPaused, now>>
    BY <2>2 DEF Played, clock
  <2>3. CASE \/ \E roll \in Sticks : Throw(roll)
             \/ game.pendingThrow # None /\ \E cand \in game.pendingThrow.candidates : Move(cand)
             \/ UndoThrow \/ UndoEvent
             \/ \E id \in MiniGames : MiniGameSpin(id)
             \/ \E success \in BOOLEAN : MiniGameResolve(success)
    BY <2>2, <2>3 DEF Throw, Move, UndoThrow, UndoEvent, MiniGameSpin, MiniGameResolve
  <2>4. ASSUME NEW minutes \in Extensions, Extend(minutes) PROVE timeLimit' > timeLimit
    BY <2>4, TimesAssumption DEF Extend, IInv, TypeOK
  <2>5. CASE End \/ ResumeFromEnded \/ \E step \in 0..MAX_REVEAL_STEP : Reveal(step)
    BY <2>5 DEF End, EndGame, ResumeFromEnded, Reveal, clock
  <2> QED BY <1>4, <2>1, <2>3, <2>4, <2>5 DEF MasterAction
<1> QED BY <1>1, <1>2, <1>3, <1>4 DEF Next

(* Nothing but an extension gives a game time back: the clock stands still
   over a pause, and an undo or an ending taken back does not move it.     *)
THEOREM ClockRunsDown == Spec => OnlyExtensionsAddTime
<1>1. ASSUME IInv, [Next]_vars, state # "SETUP", RemainingMs' > RemainingMs
      PROVE  timeLimit' > timeLimit
  <2>1. /\ timeLimit \in Nat /\ totalPaused \in Nat /\ now \in Nat
        /\ startedAt \in Nat \cup {None} /\ pausedAt \in Nat \cup {None} /\ None \notin Nat
        /\ startedAt # None => startedAt <= now
        /\ pausedAt # None => pausedAt <= now
    <3>1. None \notin Nat
      BY NoneAssumption
    <3>2. TypeOK /\ (startedAt # None => startedAt <= now) /\ (pausedAt # None => pausedAt <= now)
      BY <1>1 DEF IInv
    <3> QED BY <3>1, <3>2 DEF TypeOK, Times
  <2>2. CASE UNCHANGED <<timeLimit, startedAt, pausedAt, totalPaused, now>>
    <3>1. RemainingMs' = RemainingMs
      BY <2>2 DEF RemainingMs
    <3>2. RemainingMs \in Int
      BY <2>1 DEF RemainingMs, Later
    <3> QED BY <1>1, <3>1, <3>2
  <2>3. CASE Clock
    BY <1>1, <2>1, <2>3 DEF Clock, RemainingMs, Later, clock
  <2>4. CASE Start
    <3>1. state = "LOBBY" /\ startedAt' = now /\ now' = now
          /\ timeLimit' = timeLimit /\ totalPaused' = totalPaused /\ pausedAt' = pausedAt
      BY <2>4 DEF Start
    <3>2. startedAt = None /\ pausedAt = None /\ totalPaused = 0
      BY <3>1, <1>1 DEF IInv
    <3>3. RemainingMs = timeLimit /\ RemainingMs' = timeLimit
      BY <2>1, <3>1, <3>2 DEF RemainingMs, Later
    <3> QED BY <1>1, <2>1, <3>3
  <2>5. CASE Pause
    BY <1>1, <2>1, <2>5 DEF Pause, RemainingMs, Later
  <2>6. CASE Resume
    BY <1>1, <2>1, <2>6 DEF Resume, RemainingMs, Later
  <2> QED BY <1>1, <2>2, <2>3, <2>4, <2>5, <2>6, ClockSteps
<1>2. IInv /\ [Next]_vars
        => [RemainingMs' > RemainingMs => \/ state = "SETUP"
                                          \/ timeLimit' > timeLimit]_vars
  BY <1>1
<1> QED BY <1>2, Invariance, PTL DEF Spec, OnlyExtensionsAddTime

-----------------------------------------------------------------------------
(* The lifecycle *)

(* The room implements the lifecycle of module GameLifecycle: every step is
   one of its steps or leaves it alone.                                    *)
THEOREM LifecycleImplemented == Spec => FollowsLifecycle
<1>1. Init => L!Init
  BY DEF Init, L!Init
<1>2. ASSUME IInv, [Next]_vars
      PROVE  [L!Next]_<<state, revealStep>>
  <2>1. revealStep \in Nat
    BY <1>2 DEF IInv, TypeOK
  <2>2. CASE Clock \/ UNCHANGED vars
    BY <2>2 DEF Clock, vars
  <2>3. CASE Tick
    BY <2>3 DEF Tick, EndGame, L!Next, L!Become
  <2>4. ASSUME NEW g, Played(g) PROVE UNCHANGED <<state, revealStep>>
    BY <2>4 DEF Played
  <2>5. CASE MasterAction
    <3>1. CASE \/ \E roll \in Sticks : Throw(roll)
               \/ game.pendingThrow # None /\ \E cand \in game.pendingThrow.candidates : Move(cand)
               \/ UndoThrow \/ UndoEvent
               \/ \E id \in MiniGames : MiniGameSpin(id)
               \/ \E success \in BOOLEAN : MiniGameResolve(success)
      BY <2>4, <3>1 DEF Throw, Move, UndoThrow, UndoEvent, MiniGameSpin, MiniGameResolve
    <3>2. CASE Pause \/ Resume \/ \E minutes \in Extensions : Extend(minutes)
      BY <3>2 DEF Pause, Resume, Extend
    <3>3. CASE \E c \in Setups, limit \in TimeLimits : Setup(c, limit)
      BY <3>3 DEF Setup, L!Next, L!Become
    <3>4. CASE Start
      BY <3>4 DEF Start, L!Next, L!Become
    <3>5. CASE End
      BY <3>5 DEF End, EndGame, L!Next, L!Become
    <3>6. CASE ResumeFromEnded
      BY <3>6 DEF ResumeFromEnded, L!Next, L!Become
    <3>7. CASE \E step \in 0..MAX_REVEAL_STEP : Reveal(step)
      BY <3>7, <2>1 DEF Reveal, L!Next, L!Last, MAX_REVEAL_STEP
    <3> QED BY <2>5, <3>1, <3>2, <3>3, <3>4, <3>5, <3>6, <3>7 DEF MasterAction
  <2> QED BY <1>2, <2>2, <2>3, <2>5 DEF Next
<1> QED BY <1>1, <1>2, Invariance, PTL DEF Spec, FollowsLifecycle, L!Spec
-----------------------------------------------------------------------------
(* The log *)

(* What the game owes its log, beside IInv: before START it is empty; from
   then on the game is good (it accounts for its throws, counts its scores
   and replays to itself), from its StartTime on.  Replay being
   what undo does, the three have to be known of every game that can be
   rebuilt from a log, not only of those that were played.                 *)
Logged ==
    /\ state # "SETUP" => setup \in Setups
    /\ state \in {"SETUP", "LOBBY"} =>
          dropped = FALSE /\ \E at \in Nat : game = Waiting(setup, at)
    /\ state \notin {"SETUP", "LOBBY"} => GoodGame(setup, StartTime, dropped, game)
    /\ endReason # None => state \in {"ENDED", "REVEAL"}

(* What a room in play has, for the lemmas about games.                    *)
LEMMA InPlay ==
    ASSUME IInv, Logged, state \notin {"SETUP", "LOBBY"}
    PROVE  /\ setup \in Setups1 /\ NoneApart(setup) /\ setup.teams >= 2
           /\ StartTime \in Nat /\ now \in Nat /\ dropped \in BOOLEAN
           /\ GoodGame(setup, StartTime, dropped, game) /\ game \in GameRecords(setup)
<1>1. /\ setup \in Setups1 /\ setup.teams >= 2 /\ now \in Nat /\ dropped \in BOOLEAN
      /\ game \in GameRecords(setup)
  BY SetupHasTeams DEF IInv, TypeOK, MIN_TEAMS
<1>2. setup \in Setups /\ GoodGame(setup, StartTime, dropped, game)
  BY DEF Logged
<1>3. NoneApart(setup)
  BY <1>2, NullAssumption
<1>4. StartTime \in Nat
  BY DEF IInv, TypeOK, StartTime, Times
<1> QED BY <1>1, <1>2, <1>3, <1>4

LEMMA InitLogged == Init => Logged
<1> SUFFICES ASSUME Init PROVE Logged
  OBVIOUS
<1>1. endReason = None /\ state = "SETUP" /\ dropped = FALSE /\ game = Waiting(setup, 0)
  BY DEF Init
<1> QED BY <1>1 DEF Logged

(* A step of the game itself.                                              *)
LEMMA PlayedLogged ==
    ASSUME IInv, Logged, NEW g, Played(g), GoodGame(setup, StartTime, dropped', g)
    PROVE  Logged'
<1>1. /\ state = "RUNNING" /\ state' = "RUNNING" /\ game' = g
      /\ setup' = setup /\ StartTime' = StartTime /\ endReason' = endReason
  BY DEF Played, clock, end, StartTime
<1>2. endReason = None /\ setup \in Setups
  BY <1>1 DEF Logged
<1> QED BY <1>1, <1>2 DEF Logged

(* What START makes of the game.                                           *)
Started(g, l) == [g EXCEPT !.turn = 1, !.queue = 1, !.lastAt = l]

LEMMA StartedFields ==
    ASSUME NEW p, NEW z, NEW w, NEW k, NEW l, NEW n, NEW e, NEW g,
           g = [pos |-> p, finishes |-> z, miniWins |-> w, lastAt |-> k, turn |-> 1, queue |-> 0,
                pendingThrow |-> n, pendingMini |-> n, history |-> e]
    PROVE  Started(g, l) =
               [pos |-> p, finishes |-> z, miniWins |-> w, lastAt |-> l, turn |-> 1, queue |-> 1,
                pendingThrow |-> n, pendingMini |-> n, history |-> e]
<1>1. PICK h : h = Started(g, l)
  OBVIOUS
<1>2. h = [pos |-> p, finishes |-> z, miniWins |-> w, lastAt |-> l, turn |-> 1, queue |-> 1,
           pendingThrow |-> n, pendingMini |-> n, history |-> e]
  BY <1>1 DEF Started
<1> QED BY <1>1, <1>2

(* The room before START starts as a fresh game.                           *)
LEMMA WaitingStarts ==
    ASSUME NEW c, NEW x, NEW at, NEW l, l = [t \in TeamIds(c) |-> at]
    PROVE  Started(Waiting(c, x), l) = FreshGame(c, at)
<1>1. PICK p, z, k, e, n, g : /\ p = [m \in Mals(c) |-> WAITING] /\ z = [t \in TeamIds(c) |-> 0]
                              /\ k = [t \in TeamIds(c) |-> x] /\ e = <<>> /\ n = None
                              /\ g = Waiting(c, x)
  OBVIOUS
<1>2. PICK f : f = FreshGame(c, x)
  OBVIOUS
<1>3. f = [pos |-> p, finishes |-> z, miniWins |-> z, lastAt |-> k, turn |-> 1, queue |-> 1,
           pendingThrow |-> n, pendingMini |-> n, history |-> e]
  BY <1>1, <1>2 DEF FreshGame
<1>4. g = [f EXCEPT !.queue = 0]
  BY <1>1, <1>2 DEF Waiting
<1>5. g = [pos |-> p, finishes |-> z, miniWins |-> z, lastAt |-> k, turn |-> 1, queue |-> 0,
           pendingThrow |-> n, pendingMini |-> n, history |-> e]
  BY <1>3, <1>4
<1>6. Started(g, l) =
          [pos |-> p, finishes |-> z, miniWins |-> z, lastAt |-> l, turn |-> 1, queue |-> 1,
           pendingThrow |-> n, pendingMini |-> n, history |-> e]
  BY <1>5, StartedFields
<1>7. FreshGame(c, at) = [pos |-> p, finishes |-> z, miniWins |-> z, lastAt |-> l, turn |-> 1,
                          queue |-> 1, pendingThrow |-> n, pendingMini |-> n, history |-> e]
  BY <1>1 DEF FreshGame
<1> QED BY <1>1, <1>6, <1>7

LEMMA StartLogged ==
    ASSUME IInv, Logged, Start
    PROVE  Logged'
<1>1. /\ state = "LOBBY" /\ state' = "RUNNING" /\ StartTime' = now /\ setup' = setup
      /\ dropped' = dropped /\ endReason' = endReason /\ now \in Nat
  BY NoneAssumption DEF Start, end, IInv, TypeOK, StartTime
<1>2. /\ setup \in Setups /\ dropped = FALSE /\ endReason = None
      /\ \E at \in Nat : game = Waiting(setup, at)
  BY <1>1 DEF Logged
<1>3. game' = FreshGame(setup, now)
  <2>1. PICK at \in Nat : game = Waiting(setup, at)
    BY <1>2
  <2>2. game' = Started(game, [t \in TeamIds(setup) |-> now])
    BY DEF Start, Started
  <2>3. Started(Waiting(setup, at), [t \in TeamIds(setup) |-> now]) = FreshGame(setup, now)
    BY WaitingStarts
  <2> QED BY <2>1, <2>2, <2>3
<1>4. GoodGame(setup, now, FALSE, FreshGame(setup, now))
  BY <1>1, SetupHasTeams, FreshIsGood DEF IInv
<1> QED BY <1>1, <1>2, <1>3, <1>4 DEF Logged

(* Between two turns of which no throw was thrown away, one is owed.       *)
LEMMA BetweenTurns ==
    ASSUME NEW c, NEW at, NEW d \in BOOLEAN, NEW g, GoodGame(c, at, d, g), ~IsMidTurn(g)
    PROVE  /\ g.pendingThrow = None /\ g.pendingMini = None
           /\ g.history # <<>> => Last(g.history).team # g.turn
           /\ d \/ g.queue = 1
<1>1. /\ g.pendingThrow = None /\ g.pendingMini = None
      /\ g.history # <<>> => Last(g.history).team # g.turn
  BY DEF IsMidTurn, Last
<1>2. d \/ Open(g) = 1
  BY <1>1 DEF GoodGame, Accounted, Account, Last
<1>3. g.queue \in Nat
  BY DEF GoodGame, GameInv, GameRecords
<1> QED BY <1>1, <1>2, <1>3 DEF Open

(* An ending: the throw it throws away, if any, is on record.              *)
LEMMA EndIsGood ==
    ASSUME NEW c \in Setups1, NEW at \in Nat, NEW d \in BOOLEAN, NEW g, GoodGame(c, at, d, g),
           NEW h, h = [g EXCEPT !.pendingThrow = None], GameInv(c, h),
           NEW e \in BOOLEAN, e <=> (d \/ g.pendingThrow # None)
    PROVE  GoodGame(c, at, e, h)
<1>1. g \in GameRecords(c) /\ g.queue \in Nat
  BY DEF GoodGame, GameInv, GameRecords
<1>2. /\ h.pendingThrow = None /\ h.pendingMini = g.pendingMini /\ h.queue = g.queue
      /\ h.history = g.history /\ h.turn = g.turn
      /\ h.finishes = g.finishes /\ h.miniWins = g.miniWins
  BY <1>1 DEF GameRecords
<1>3. CASE g.pendingThrow = None
  <2>1. h = g
    BY <1>1, <1>3 DEF GameRecords
  <2>2. CASE e = TRUE
    BY <1>3, <2>1, <2>2 DEF GoodGame
  <2>3. CASE e = FALSE
    BY <1>3, <2>1, <2>3 DEF GoodGame
  <2> QED BY <2>2, <2>3
<1>4. CASE g.pendingThrow # None
  <2>1. /\ Open(h) = g.queue /\ Open(g) = g.queue + 1 /\ g.history \in Seq(EventRecords(c))
    BY <1>1, <1>2, <1>4 DEF Open, GameRecords
  <2>2. Account(g.history, g.turn, Open(g), d)
    BY DEF GoodGame, Accounted
  <2>3. Account(g.history, g.turn, g.queue, TRUE)
    <3>1. PICK open : open = Open(g)
      OBVIOUS
    <3>2. open \in Nat /\ g.queue <= open /\ Account(g.history, g.turn, open, d)
      BY <1>1, <2>1, <2>2, <3>1
    <3>3. \A S, turn : \A h1 \in Seq(S), o \in Nat, left \in Nat :
             Account(h1, turn, o, d) /\ left <= o => Account(h1, turn, left, TRUE)
      BY CheatedAccount
    <3> QED BY <1>1, <2>1, <3>2, <3>3
  <2>4. e = TRUE
    BY <1>4
  <2>5. Scored(c, h)
    BY <1>2, ScoredSame DEF GoodGame
  <2> QED BY <1>2, <2>1, <2>3, <2>4, <2>5 DEF GoodGame, Accounted
<1> QED BY <1>3, <1>4

LEMMA EndLogged ==
    ASSUME IInv, IInv', Logged, state = "RUNNING", NEW reason, EndGame(reason)
    PROVE  Logged'
<1>1. PICK g : g = [game EXCEPT !.pendingThrow = None]
  OBVIOUS
<1>2. /\ state' = "ENDED" /\ game' = g /\ endReason' = reason /\ setup' = setup
      /\ StartTime' = StartTime
      /\ dropped' = (dropped \/ game.pendingThrow # None)
  BY <1>1 DEF EndGame, clock, StartTime
<1>3. /\ setup \in Setups1 /\ StartTime \in Nat /\ dropped \in BOOLEAN
      /\ GoodGame(setup, StartTime, dropped, game) /\ game \in GameRecords(setup)
      /\ setup \in Setups
  BY InPlay DEF Logged
<1>4. GameInv(setup, g) /\ dropped' \in BOOLEAN
  BY <1>2 DEF IInv, TypeOK
<1>5. GoodGame(setup, StartTime, dropped', g)
  BY <1>1, <1>2, <1>3, <1>4, EndIsGood
<1> QED BY <1>2, <1>3, <1>5 DEF Logged

(* A move that keeps whatever games are good.                              *)
LEMMA PlayLogged ==
    ASSUME IInv, Logged, NEW g, Played(g), UNCHANGED dropped,
           GoodGame(setup, StartTime, dropped, g)
    PROVE  Logged'
<1>1. GoodGame(setup, StartTime, dropped', g)
  OBVIOUS
<1> QED BY <1>1, PlayedLogged

(* A room that is not in play, or whose game is left alone.                *)
LEMMA KeptLogged ==
    ASSUME IInv, Logged, UNCHANGED <<setup, game, StartTime, dropped>>,
           state' = state \/ {state, state'} \subseteq {"RUNNING", "ENDED", "REVEAL"},
           endReason' # None => endReason' = endReason /\ state' \in {"ENDED", "REVEAL"}
    PROVE  Logged'
BY DEF Logged

LEMMA UndoEventLogged ==
    ASSUME IInv, Logged, UndoEvent
    PROVE  Logged'
<1>1. PICK rebuilt : rebuilt = Replay(setup, StartTime, ButLast(game.history))
  OBVIOUS
<1>2. Played(rebuilt) /\ rebuilt # None /\ dropped' = FALSE /\ game.history # <<>>
  BY <1>1 DEF UndoEvent
<1>3. /\ setup \in Setups1 /\ NoneApart(setup) /\ setup.teams >= 2
      /\ StartTime \in Nat /\ game \in GameRecords(setup)
  BY <1>2, InPlay DEF Played
<1>4. ButLast(game.history) \in Seq(EventRecords(setup))
  <2>1. game.history \in Seq(EventRecords(setup))
    BY <1>3 DEF GameRecords
  <2> QED BY <2>1, <1>2 DEF ButLast
<1>5. GoodGame(setup, StartTime, FALSE, rebuilt)
  BY <1>1, <1>2, <1>3, <1>4, ReplayIsGood
<1> QED BY <1>2, <1>5, PlayedLogged

LEMMA UndoThrowLogged ==
    ASSUME IInv, IInv', Logged, UndoThrow
    PROVE  Logged'
<1>1. PICK g : g = [game EXCEPT !.pendingThrow = None, !.queue = game.queue + 1]
  OBVIOUS
<1>2. Played(g) /\ UNCHANGED dropped /\ game.pendingThrow # None
  BY <1>1 DEF UndoThrow
<1>3. /\ setup \in Setups1 /\ StartTime \in Nat /\ dropped \in BOOLEAN
      /\ GoodGame(setup, StartTime, dropped, game)
  BY <1>2, InPlay DEF Played
<1>4. g = RestedOf(game)
  BY <1>1, <1>2 DEF RestedOf, Open
<1>5. GameInv(setup, g)
  BY <1>2 DEF IInv, Played
<1>6. GoodGame(setup, StartTime, dropped, g)
  BY <1>3, <1>4, <1>5, RestedIsGood
<1> QED BY <1>2, <1>6, PlayLogged

(* Every action of the master, and the tick.                               *)
LEMMA ActionLogged ==
    ASSUME IInv, IInv', Logged, MasterAction \/ Tick
    PROVE  Logged'
<1>0. state = "RUNNING" =>
         /\ setup \in Setups1 /\ NoneApart(setup) /\ setup.teams >= 2
         /\ StartTime \in Nat /\ now \in Nat /\ dropped \in BOOLEAN
         /\ GoodGame(setup, StartTime, dropped, game)
  BY InPlay
<1>1. ASSUME NEW c \in Setups, NEW limit \in TimeLimits, Setup(c, limit) PROVE Logged'
  <2>1. /\ state = "SETUP" /\ state' = "LOBBY" /\ setup' = c /\ game' = Waiting(c, now)
        /\ dropped' = dropped /\ endReason' = endReason /\ now \in Nat
    BY <1>1 DEF Setup, end, IInv, TypeOK
  <2>2. dropped = FALSE /\ endReason = None
    BY <2>1 DEF Logged
  <2> QED BY <2>1, <2>2 DEF Logged
<1>2. CASE Start
  BY <1>2, StartLogged
<1>3. ASSUME NEW roll \in Sticks, Throw(roll) PROVE Logged'
  <2>1. PICK g : g = ThrowStick(setup, game, roll, now)
    OBVIOUS
  <2>2. Played(g) /\ CanThrow(game) /\ UNCHANGED dropped /\ state = "RUNNING" /\ roll \in Rolls
    BY <1>3, <2>1, SticksAssumption DEF Throw, Played
  <2>3. GoodGame(setup, StartTime, dropped, g)
    BY <1>0, <2>1, <2>2, ThrowIsGood
  <2> QED BY <2>2, <2>3, PlayLogged
<1>4. ASSUME game.pendingThrow # None, NEW cand \in game.pendingThrow.candidates, Move(cand)
      PROVE  Logged'
  <2>1. PICK g : g = CommitMove(setup, game, game.pendingThrow.roll, cand, now)
    OBVIOUS
  <2>2. Played(g) /\ UNCHANGED dropped /\ state = "RUNNING"
    BY <1>4, <2>1 DEF Move, Played
  <2>3. GoodGame(setup, StartTime, dropped, g)
    BY <1>0, <1>4, <2>1, <2>2, MoveIsGood
  <2> QED BY <2>2, <2>3, PlayLogged
<1>5. CASE UndoThrow
  BY <1>5, UndoThrowLogged
<1>6. CASE UndoEvent
  BY <1>6, UndoEventLogged
<1>7. ASSUME NEW id \in MiniGames, MiniGameSpin(id) PROVE Logged'
  <2>1. PICK g : g = SpinMiniGame(game, id)
    OBVIOUS
  <2>2. Played(g) /\ game.pendingMini # None /\ UNCHANGED dropped /\ state = "RUNNING"
    BY <1>7, <2>1 DEF MiniGameSpin, Played
  <2>3. GoodGame(setup, StartTime, dropped, g)
    BY <1>0, <2>1, <2>2, SpinIsGood
  <2> QED BY <2>2, <2>3, PlayLogged
<1>8. ASSUME NEW success \in BOOLEAN, MiniGameResolve(success) PROVE Logged'
  <2>1. PICK g : g = ResolveMiniGame(setup, game, success)
    OBVIOUS
  <2>2. Played(g) /\ game.pendingMini # None /\ UNCHANGED dropped /\ state = "RUNNING"
    BY <1>8, <2>1 DEF MiniGameResolve, Played
  <2>3. GoodGame(setup, StartTime, dropped, g)
    BY <1>0, <2>1, <2>2, ResolveIsGood
  <2> QED BY <2>2, <2>3, PlayLogged
<1>9. CASE Pause \/ Resume \/ \E minutes \in Extensions : Extend(minutes)
  <2>1. /\ state = "RUNNING" /\ UNCHANGED <<setup, game, StartTime, dropped, state, endReason>>
    BY <1>9 DEF Pause, Resume, Extend, end, StartTime
  <2>2. endReason' = None
    BY <2>1 DEF Logged
  <2> QED BY <2>1, <2>2, KeptLogged
<1>10. CASE End
  BY <1>10, EndLogged DEF End
<1>11. CASE ResumeFromEnded
  <2>1. /\ state = "ENDED" /\ state' = "RUNNING" /\ endReason' = None
        /\ UNCHANGED <<setup, game, StartTime, dropped>>
    BY <1>11 DEF ResumeFromEnded, clock, StartTime
  <2> QED BY <2>1, KeptLogged
<1>12. ASSUME NEW step \in 0..MAX_REVEAL_STEP, Reveal(step) PROVE Logged'
  <2>1. /\ state \in {"ENDED", "REVEAL"} /\ state' = "REVEAL"
        /\ UNCHANGED <<setup, game, StartTime, dropped, endReason>>
    BY <1>12 DEF Reveal, clock, end, StartTime
  <2> QED BY <2>1, KeptLogged
<1>13. CASE Tick
  BY <1>13, EndLogged DEF Tick
<1> QED BY <1>1, <1>2, <1>3, <1>4, <1>5, <1>6, <1>7, <1>8, <1>9, <1>10, <1>11, <1>12, <1>13
        DEF MasterAction

LEMMA NextLogged == IInv /\ IInv' /\ Logged /\ [Next]_vars => Logged'
<1> SUFFICES ASSUME IInv, IInv', Logged, [Next]_vars PROVE Logged'
  OBVIOUS
<1>1. CASE MasterAction \/ Tick
  BY <1>1, ActionLogged
<1>2. CASE Clock \/ UNCHANGED vars
  <2>1. UNCHANGED <<setup, game, StartTime, dropped, state, endReason>>
    BY <1>2 DEF Clock, vars, clock, end, StartTime
  <2>2. endReason # None => state \in {"ENDED", "REVEAL"}
    BY DEF Logged
  <2> QED BY <2>1, <2>2, KeptLogged
<1> QED BY <1>1, <1>2 DEF Next

(* The log is always worth what Logged says.                               *)
THEOREM LogInvariance == Spec => []Logged
<1>1. Init => Logged
  BY InitLogged
<1>2. IInv /\ IInv' /\ Logged /\ [Next]_vars => Logged'
  BY NextLogged
<1> QED BY <1>1, <1>2, Invariance, PTL DEF Spec

(* Before START nothing is logged, nothing is scored and nothing is owed.  *)
LEMMA WaitingFields ==
    ASSUME NEW c, NEW at, NEW g, g = Waiting(c, at)
    PROVE  /\ g.history = <<>> /\ g.pendingThrow = None /\ g.pendingMini = None
           /\ \A t \in TeamIds(c) : g.finishes[t] = 0 /\ g.miniWins[t] = 0
<1>1. PICK f : f = FreshGame(c, at)
  OBVIOUS
<1>2. /\ f.history = <<>> /\ f.pendingThrow = None /\ f.pendingMini = None
      /\ \A t \in TeamIds(c) : f.finishes[t] = 0 /\ f.miniWins[t] = 0
  BY <1>1 DEF FreshGame
<1>3. g = [f EXCEPT !.queue = 0]
  BY <1>1 DEF Waiting
<1>4. /\ g.history = f.history /\ g.finishes = f.finishes /\ g.miniWins = f.miniWins
      /\ g.pendingThrow = f.pendingThrow /\ g.pendingMini = f.pendingMini
  BY <1>1, <1>3 DEF FreshGame
<1> QED BY <1>2, <1>4

LEMMA NothingLogged ==
    ASSUME Logged, state \in {"SETUP", "LOBBY"}
    PROVE  /\ game.history = <<>>
           /\ \A t \in TeamIds(setup) : game.finishes[t] = 0 /\ game.miniWins[t] = 0
BY WaitingFields DEF Logged

(* Replaying the log of a game without a throw thrown away reproduces it, bar
   the throw that is pending: undo and recovery land where play was.       *)
THEOREM LogReplays == Spec => []ReplayFidelity
<1>1. IInv /\ Logged => ReplayFidelity
  <2> SUFFICES ASSUME IInv, Logged, state \in {"RUNNING", "ENDED", "REVEAL"}, ~dropped,
                      game.pendingMini = None
               PROVE  Replay(setup, StartTime, game.history) = Rested
    BY DEF ReplayFidelity
  <2>1. Faithful(setup, StartTime, game)
    BY InPlay DEF GoodGame
  <2>2. Replay(setup, StartTime, game.history) = RestedOf(game)
    BY <2>1 DEF Faithful
  <2> QED BY <2>1, <2>2 DEF Rested, RestedOf
<1> QED BY <1>1, Invariance, LogInvariance, PTL

(* Nobody throws more than is owed and nobody is cheated of a throw.       *)
THEOREM ThrowsAreAccounted == Spec => []ThrowsAccounted
<1>1. IInv /\ Logged => ThrowsAccounted
  <2> SUFFICES ASSUME IInv, Logged PROVE ThrowsAccounted
    OBVIOUS
  <2>1. CASE state \in {"SETUP", "LOBBY"}
    <3>1. game.history = <<>> /\ Len(<<>>) = 0
      BY <2>1, NothingLogged
    <3> QED BY <2>1, <3>1 DEF ThrowsAccounted, ThrowsTold
  <2>2. CASE state \notin {"SETUP", "LOBBY"}
    <3>1. GoodGame(setup, StartTime, dropped, game) /\ dropped \in BOOLEAN
      BY <2>2, InPlay
    <3>2. ThrowsTold(game, dropped)
      BY <3>1, AccountedTells DEF GoodGame
    <3>3. ~dropped /\ ~IsMidTurn(game) => game.queue = 1
      BY <3>1, BetweenTurns
    <3> QED BY <3>2, <3>3 DEF ThrowsAccounted
  <2> QED BY <2>1, <2>2
<1> QED BY <1>1, Invariance, LogInvariance, PTL

(* The scores are those the log tells.                                     *)
THEOREM ScoresAreTold == Spec => []ScoresMatchHistory
<1>1. IInv /\ Logged => ScoresMatchHistory
  <2> SUFFICES ASSUME IInv, Logged PROVE ScoresTold(setup, game)
    BY DEF ScoresMatchHistory
  <2>1. CASE state \in {"SETUP", "LOBBY"}
    <3>1. /\ game.history = <<>>
          /\ \A t \in TeamIds(setup) : game.finishes[t] = 0 /\ game.miniWins[t] = 0
      BY <2>1, NothingLogged
    <3>2. \A t : LapsOf(<<>>, t) = {} /\ WinsOf(setup, <<>>, t) = {}
      BY DEF LapsOf, WinsOf
    <3>3. Cardinality({}) = 0
      BY FS_EmptySet
    <3> QED BY <3>1, <3>2, <3>3, ScoresAreCounts
  <2>2. CASE state \notin {"SETUP", "LOBBY"}
    BY <2>2, InPlay DEF GoodGame, Scored
  <2> QED BY <2>1, <2>2
<1> QED BY <1>1, Invariance, LogInvariance, PTL

(* A clock that has run down stays so while time goes by.                  *)
LEMMA ClockStaysDown ==
    ASSUME IInv, Clock, startedAt \in Nat, RemainingMs = 0
    PROVE  RemainingMs' = 0
<1>1. now' = now + 1 /\ UNCHANGED <<timeLimit, startedAt, pausedAt, totalPaused>>
  BY DEF Clock, clock
<1>2. /\ timeLimit \in Nat /\ totalPaused \in Nat /\ now \in Nat /\ pausedAt \in Nat \cup {None}
      /\ startedAt # None
  BY NoneAssumption DEF IInv, TypeOK, Times
<1>3. CASE pausedAt = None
  BY <1>1, <1>2, <1>3 DEF RemainingMs, Later
<1>4. CASE pausedAt # None
  BY <1>1, <1>2, <1>4 DEF RemainingMs, Later
<1> QED BY <1>3, <1>4

(* The tick that ends the game finds it between two turns, and what can
   happen afterwards while the reason stands changes nothing of it.        *)
LEMMA NextTimeup ==
    IInv /\ IInv' /\ Logged /\ Logged' /\ TimeupBetweenTurns /\ [Next]_vars => TimeupBetweenTurns'
<1> SUFFICES ASSUME IInv, IInv', Logged, Logged', TimeupBetweenTurns, [Next]_vars,
                    endReason' = "timeup"
             PROVE  TimeupBetweenTurns'
  BY DEF TimeupBetweenTurns
<1>1. endReason' # None
  BY NullAssumption
<1>2. CASE Tick
  <2>1. /\ state = "RUNNING" /\ RemainingMs = 0 /\ ~IsMidTurn(game)
        /\ game' = [game EXCEPT !.pendingThrow = None] /\ dropped' = (dropped \/ game.pendingThrow # None)
        /\ RemainingMs' = RemainingMs
    BY <1>2 DEF Tick, EndGame, clock, RemainingMs
  <2>2. /\ dropped \in BOOLEAN /\ game \in GameRecords(setup)
        /\ GoodGame(setup, StartTime, dropped, game)
    BY <2>1, InPlay
  <2>3. /\ game.pendingThrow = None /\ game.pendingMini = None
        /\ game.history # <<>> => Last(game.history).team # game.turn
        /\ dropped \/ game.queue = 1
    BY <2>1, <2>2, BetweenTurns
  <2>4. game' = game
    BY <2>1, <2>2, <2>3 DEF GameRecords
  <2> QED BY <2>1, <2>3, <2>4 DEF TimeupBetweenTurns, NothingPending
<1>3. CASE endReason = "timeup"
  <2>1. state \in {"ENDED", "REVEAL"}
    BY <1>1, <1>3 DEF Logged
  <2>2. CASE MasterAction
    <3>1. \/ \E step \in 0..MAX_REVEAL_STEP : Reveal(step)
          \/ ResumeFromEnded
      BY <2>1, <2>2 DEF MasterAction, Setup, Start, Throw, Move, UndoThrow, UndoEvent,
            MiniGameSpin, MiniGameResolve, Played, Pause, Resume, Extend, End
    <3>2. UNCHANGED <<game, dropped>> /\ RemainingMs' = RemainingMs
      BY <1>1, <3>1 DEF Reveal, ResumeFromEnded, clock, RemainingMs
    <3> QED BY <1>3, <3>2 DEF TimeupBetweenTurns, NothingPending
  <2>3. CASE Clock
    <3>1. UNCHANGED <<game, dropped>> /\ RemainingMs = 0
      BY <1>3, <2>3 DEF Clock, TimeupBetweenTurns
    <3>2. CASE startedAt \in Nat
      BY <1>3, <2>3, <3>1, <3>2, ClockStaysDown DEF TimeupBetweenTurns, NothingPending
    <3>3. CASE startedAt = None
      <4>1. RemainingMs' = RemainingMs
        BY <2>3, <3>3 DEF Clock, clock, RemainingMs
      <4> QED BY <1>3, <3>1, <4>1 DEF TimeupBetweenTurns, NothingPending
    <3>4. startedAt \in Nat \/ startedAt = None
      BY DEF IInv, TypeOK, Times
    <3> QED BY <3>2, <3>3, <3>4
  <2>4. CASE UNCHANGED vars
    <3>1. UNCHANGED <<game, dropped>> /\ RemainingMs' = RemainingMs
      BY <2>4 DEF vars, clock, RemainingMs
    <3> QED BY <1>3, <3>1 DEF TimeupBetweenTurns, NothingPending
  <2>5. ~Tick
    BY <2>1 DEF Tick
  <2> QED BY <2>2, <2>3, <2>4, <2>5 DEF Next
<1>4. endReason = "timeup" \/ Tick
  <2>1. CASE MasterAction
    <3>1. endReason' = endReason \/ endReason' \in {"master", None}
      BY <2>1 DEF MasterAction, Setup, Start, Throw, Move, UndoThrow, UndoEvent, MiniGameSpin,
            MiniGameResolve, Played, Pause, Resume, Extend, End, EndGame, ResumeFromEnded, Reveal, end
    <3> QED BY <1>1, <3>1
  <2>2. CASE Clock \/ UNCHANGED vars
    BY <2>2 DEF Clock, vars, end
  <2> QED BY <2>1, <2>2 DEF Next
<1> QED BY <1>2, <1>3, <1>4

(* A game that runs out of time ends between two turns, with nothing pending
   and nothing earned that is not thrown.                                  *)
THEOREM TimeupIsFair == Spec => []TimeupBetweenTurns
<1>1. Init => TimeupBetweenTurns
  <2> SUFFICES ASSUME Init PROVE TimeupBetweenTurns
    OBVIOUS
  <2>1. endReason # "timeup"
    BY NullAssumption DEF Init
  <2> QED BY <2>1 DEF TimeupBetweenTurns
<1>2. IInv /\ IInv' /\ Logged /\ Logged' /\ TimeupBetweenTurns /\ [Next]_vars => TimeupBetweenTurns'
  BY NextTimeup
<1> QED BY <1>1, <1>2, Invariance, LogInvariance, PTL DEF Spec
=============================================================================
