------------------------------- MODULE Yutnori -------------------------------
(***************************************************************************)
(* One yutnori room: the reducer apply() of yutnori/src/engine/apply.ts as *)
(* a state machine, one action per case of its switch, driven by the only  *)
(* writer there is (the master's console) and by the host's 1 Hz tick.     *)
(* The host serialises actions per game, so each one is atomic.            *)
(***************************************************************************)
EXTENDS YutRules

CONSTANTS
    Setups,           \* the setups the master may enter, records as in YutRules
    DefaultLimit,     \* the time limit of a room before its setup
    TimeLimits,       \* the time limits, and
    Extensions,       \* the clock extensions, the master may enter
    Sticks,           \* the throws the sticks may come up with, among Rolls
    CheckInvariants,  \* is the host's invariants() hook on? (it is off in production)
    MaxEvents,        \* bound: turn events in the history
    MaxLimit,         \* bound: the time limit after extensions
    MaxTime           \* bound: the wall clock

ASSUME SetupsAssumption == Setups \subseteq SetupRecords
ASSUME NullAssumption   == /\ \A c \in Setups : NoneApart(c)
                           /\ None \notin {"master", "timeup"}
ASSUME TimesAssumption  == /\ DefaultLimit \in Nat
                           /\ TimeLimits \subseteq Nat \ {0}
                           /\ Extensions \subseteq Nat \ {0}
ASSUME SticksAssumption == Sticks \subseteq Rolls
ASSUME BoundsAssumption == MaxEvents \in Nat /\ MaxLimit \in Nat /\ MaxTime \in Nat

MIN_TEAMS       == 2
MAX_REVEAL_STEP == 4
RoomStates      == {"SETUP", "LOBBY", "RUNNING", "ENDED", "REVEAL"}

VARIABLES
    setup,        \* teams, mals per team and modes; no teams before SETUP
    game,         \* what replaying the turn events rebuilds (module YutRules)
    state,        \* the lifecycle
    revealStep,
    createdAt,    \* when the room was created
    timeLimit,    \* the clock: its limit,
    startedAt,    \* the times it was started and paused at (None: it is not),
    pausedAt,
    totalPaused,  \* and the time it spent paused before that
    endedAt,
    endReason,
    now,          \* the server's clock
    dropped       \* history variable: has END thrown away a throw since the
                  \* game was last rebuilt from its history?

clock == <<createdAt, timeLimit, startedAt, pausedAt, totalPaused>>
end   == <<endedAt, endReason>>
vars  == <<setup, game, state, revealStep, clock, end, now, dropped>>

NoTeams == [teams |-> 0, malPerTeam |-> 2, miniGames |-> FALSE, captureDuel |-> FALSE]

Waiting(c, at) == [FreshGame(c, at) EXCEPT !.queue = 0]

-----------------------------------------------------------------------------
(* Derived state *)

Later(a, b) == IF a >= b THEN a ELSE b

RemainingMsRunsOn ==                \* mutant: the pause is not looked at
    IF startedAt = None THEN timeLimit
    ELSE Later(0, timeLimit - (now - startedAt - totalPaused))

RemainingMs ==
    IF startedAt = None THEN timeLimit
    ELSE LET at == IF pausedAt = None THEN now ELSE pausedAt
         IN  Later(0, timeLimit - (at - startedAt - totalPaused))

(* The time replay() takes the game to have begun at.                      *)
StartTime == IF startedAt = None THEN createdAt ELSE startedAt

NothingPending == game.pendingThrow = None /\ game.pendingMini = None

(* assertInvariants(), which the host evaluates on the state an action would
   commit and which rejects the action where it fails.  (The uniqueness of
   team names and the finishedAt clauses are about data left out.)         *)
Invariants ==
    /\ \A m \in Mals(setup) : game.pos[m] \in Nodes
    /\ game.queue >= 0
    /\ game.pendingThrow # None => state = "RUNNING"
    /\ game.pendingMini # None => state = "RUNNING" /\ game.pendingThrow = None
    /\ state = "RUNNING" /\ setup.teams > 0 => ~IsFinished(setup, game, game.turn)
    /\ \A i \in 1..Len(game.history) :
          /\ game.history[i].seq = i
          /\ i > 1 => game.history[i-1].at <= game.history[i].at

Commit == CheckInvariants => Invariants'

-----------------------------------------------------------------------------
(* The room as created, and the actions of the master *)

Init ==
    /\ setup = NoTeams
    /\ game = Waiting(NoTeams, 0)
    /\ state = "SETUP"
    /\ revealStep = 0
    /\ createdAt = 0
    /\ timeLimit = DefaultLimit
    /\ startedAt = None /\ pausedAt = None /\ totalPaused = 0
    /\ endedAt = None /\ endReason = None
    /\ now = 0
    /\ dropped = FALSE

Setup(c, limit) ==
    /\ state = "SETUP"
    /\ c.teams >= MIN_TEAMS
    /\ limit >= 1
    /\ setup' = c
    /\ game' = Waiting(c, now)
    /\ timeLimit' = limit
    /\ state' = "LOBBY"
    /\ UNCHANGED <<revealStep, createdAt, startedAt, pausedAt, totalPaused, end, now, dropped>>

Start ==
    /\ state = "LOBBY"
    /\ state' = "RUNNING"
    /\ startedAt' = now
    /\ game' = [game EXCEPT !.turn = 1, !.queue = 1,
                            !.lastAt = [t \in TeamIds(setup) |-> now]]
    /\ UNCHANGED <<setup, revealStep, createdAt, timeLimit, pausedAt, totalPaused, end, now, dropped>>

(* An action of the game itself: the lifecycle and the clock stay.         *)
Played(g) ==
    /\ state = "RUNNING"
    /\ game' = g
    /\ UNCHANGED <<setup, state, revealStep, clock, end, now>>

Throw(roll) ==
    /\ CanThrow(game)
    /\ Candidates(setup, game, roll) # {}
    /\ Len(game.history) < MaxEvents
    /\ Played(ThrowStick(setup, game, roll, now))
    /\ UNCHANGED dropped

Move(cand) ==
    /\ game.pendingMini = None
    /\ game.pendingThrow # None
    /\ cand \in game.pendingThrow.candidates
    /\ Played(CommitMove(setup, game, game.pendingThrow.roll, cand, now))
    /\ UNCHANGED dropped

(* UNDO of a throw nobody has moved on yet: it is owed again.              *)
UndoThrow ==
    /\ game.pendingMini = None
    /\ game.pendingThrow # None
    /\ Played([game EXCEPT !.pendingThrow = None, !.queue = @ + 1])
    /\ UNCHANGED dropped

(* UNDO of the last event: the game is rebuilt from the events before it.
   Where the replay throws, so does the action, and nothing changes.       *)
UndoEvent ==
    /\ NothingPending
    /\ game.history # <<>>
    /\ LET rebuilt == Replay(setup, StartTime, ButLast(game.history))
       IN  rebuilt # None /\ Played(rebuilt)
    /\ dropped' = FALSE

MiniGameSpin(gameId) ==
    /\ game.pendingMini # None
    /\ Played(SpinMiniGame(game, gameId))
    /\ UNCHANGED dropped

MiniGameResolve(success) ==
    /\ game.pendingMini # None
    /\ Played(ResolveMiniGame(setup, game, success))
    /\ UNCHANGED dropped

Pause ==
    /\ state = "RUNNING"
    /\ pausedAt = None
    /\ pausedAt' = now
    /\ UNCHANGED <<setup, game, state, revealStep, createdAt, timeLimit, startedAt, totalPaused, end, now, dropped>>

Resume ==
    /\ state = "RUNNING"
    /\ pausedAt # None
    /\ totalPaused' = totalPaused + (now - pausedAt)
    /\ pausedAt' = None
    /\ UNCHANGED <<setup, game, state, revealStep, createdAt, timeLimit, startedAt, end, now, dropped>>

Extend(minutes) ==
    /\ state = "RUNNING"
    /\ timeLimit + minutes <= MaxLimit
    /\ timeLimit' = timeLimit + minutes
    /\ UNCHANGED <<setup, game, state, revealStep, createdAt, startedAt, pausedAt, totalPaused, end, now, dropped>>

(* endGame(): a throw not moved on is forgotten, the queue it was taken from
   is not touched, and neither is a mini-game in progress.                 *)
EndGame(reason) ==
    /\ state' = "ENDED"
    /\ endedAt' = now
    /\ endReason' = reason
    /\ game' = [game EXCEPT !.pendingThrow = None]
    /\ dropped' = (dropped \/ game.pendingThrow # None)
    /\ UNCHANGED <<setup, revealStep, clock, now>>

End ==
    /\ state = "RUNNING"
    /\ EndGame("master")

ResumeFromAny ==                    \* mutant: the reveal has begun
    /\ state \in {"ENDED", "REVEAL"}
    /\ revealStep = 0
    /\ state' = "RUNNING"
    /\ endedAt' = None
    /\ endReason' = None
    /\ UNCHANGED <<setup, game, revealStep, clock, now, dropped>>

ResumeFromEnded ==
    /\ state = "ENDED"
    /\ revealStep = 0
    /\ state' = "RUNNING"
    /\ endedAt' = None
    /\ endReason' = None
    /\ UNCHANGED <<setup, game, revealStep, clock, now, dropped>>

Reveal(step) ==
    /\ \/ state = "ENDED" /\ step = 0
       \/ state = "REVEAL" /\ step = revealStep + 1 /\ step <= MAX_REVEAL_STEP
    /\ state' = "REVEAL"
    /\ revealStep' = step
    /\ UNCHANGED <<setup, game, clock, end, now, dropped>>

-----------------------------------------------------------------------------
(* The host's tick, and time *)

(* The tick finds a game to end.                                           *)
Overdue == state = "RUNNING" /\ pausedAt = None /\ RemainingMs = 0 /\ ~IsMidTurn(game)

Tick ==
    /\ state = "RUNNING"
    /\ game.pendingMini = None
    /\ pausedAt = None
    /\ RemainingMs = 0
    /\ ~IsMidTurn(game)
    /\ EndGame("timeup")

Clock ==
    /\ now < MaxTime
    /\ now' = now + 1
    /\ UNCHANGED <<setup, game, state, revealStep, clock, end, dropped>>

MasterAction ==
    \/ \E c \in Setups, limit \in TimeLimits : Setup(c, limit)
    \/ Start
    \/ \E roll \in Sticks : Throw(roll)
    \/ game.pendingThrow # None /\ \E cand \in game.pendingThrow.candidates : Move(cand)
    \/ UndoThrow
    \/ UndoEvent
    \/ \E id \in MiniGames : MiniGameSpin(id)
    \/ \E success \in BOOLEAN : MiniGameResolve(success)
    \/ Pause
    \/ Resume
    \/ \E minutes \in Extensions : Extend(minutes)
    \/ End
    \/ ResumeFromEnded
    \/ \E step \in 0..MAX_REVEAL_STEP : Reveal(step)

Next == \/ MasterAction /\ Commit
        \/ Tick /\ Commit
        \/ Clock

Spec == Init /\ [][Next]_vars

(* server.ts runs the tick every second for as long as the process lives.  *)
FairSpec == Spec /\ WF_vars(Tick /\ Commit)

-----------------------------------------------------------------------------
(* Types *)

Times == Nat \cup {None}

(* Every variable has the type the code declares for it (shared/types.ts), and
   the turn pointer is a team's once there are teams.                      *)
TypeOK ==
    /\ setup \in SetupRecords
    /\ game \in GameRecords(setup)
    /\ state \in RoomStates
    /\ state # "SETUP" => setup.teams >= MIN_TEAMS /\ game.turn \in TeamIds(setup)
    /\ revealStep \in 0..MAX_REVEAL_STEP
    /\ createdAt \in Nat
    /\ timeLimit \in Nat /\ startedAt \in Times /\ pausedAt \in Times /\ totalPaused \in Nat
    /\ endedAt \in Times /\ endReason \in {"master", "timeup", None}
    /\ now \in Nat
    /\ dropped \in BOOLEAN

-----------------------------------------------------------------------------
(* What makes a game correct *)

(* A turn can always be played: whatever the sticks show, the team to move
   has a legal move, so NO_CANDIDATES (apply.ts:353 "unreachable") is.     *)
EveryThrowHasAMove ==
    state = "RUNNING" => \A roll \in Rolls : Candidates(setup, game, roll) # {}

(* What is pending still describes the board: nothing the master can do in
   between makes the candidates of a throw, or a mini-game, stale.         *)
PendingMatchesBoard == PendingThrowMatches(setup, game) /\ PendingMiniMatches(game)

(* Without station challenges two teams never rest on one station, but for
   the duel that is to decide which of them goes.  (A lost challenge puts the
   mal back by one station whoever stands there, see StepBefore.)          *)
NoSharedStation == ~setup.miniGames => SharedOnlyInDuel(setup, game)

(* The scores are those of the log: the laps of a team are its moves home,
   its mini-game points the challenges it won and the duels it won on either
   side.                                                                   *)
ScoresMatchHistory == ScoresTold(setup, game)

(* Nobody throws more than is owed, and nobody is cheated of a throw: a turn
   gives way to the next when its throws, the bonus ones included, are spent
   or a challenge was lost, and the queue holds what is left of the current
   one.  An ending that threw a throw away costs its team that throw.      *)
ThrowsAccounted ==
    /\ ThrowsTold(game, dropped)
    /\ state = "RUNNING" /\ ~dropped /\ ~IsMidTurn(game) => game.queue = 1

(* The room with a throw nobody moved on taken back.                       *)
Rested == [game EXCEPT !.pendingThrow = None, !.queue = Open(game)]

(* Replaying the log reproduces the game it came from, bar what is pending:
   undo and recovery land where play was (spec.md:530).  Not so once an
   ending has thrown a throw away, which the log does not tell.            *)
ReplayFidelity ==
    state \in {"RUNNING", "ENDED", "REVEAL"} /\ ~dropped /\ game.pendingMini = None
        => Replay(setup, StartTime, game.history) = Rested

(* The clock runs down and nothing but an extension gives time back: not a
   pause and its resumption, an undo, or an ending that is taken back.     *)
OnlyExtensionsAddTime ==
    [][ RemainingMs' > RemainingMs => \/ state = "SETUP"
                                      \/ timeLimit' > timeLimit ]_vars

(* A game that runs out of time ends between two turns: nobody is left with
   a throw owed that he has earned.                                        *)
TimeupBetweenTurns ==
    endReason = "timeup" =>
        /\ RemainingMs = 0
        /\ NothingPending
        /\ game.history # <<>> => Last(game.history).team # game.turn
        /\ dropped \/ game.queue = 1

(* How an operator lets the current turn come to its end: he resumes a pause,
   judges a mini-game, moves on a throw, and enters the throws still owed to
   a team in mid-turn, as long as the sticks earn it no further one.        *)
FinishTurn ==
    \/ Resume
    \/ \E success \in BOOLEAN : MiniGameResolve(success)
    \/ game.pendingThrow # None /\ \E cand \in game.pendingThrow.candidates : Move(cand)
    \/ IsMidTurn(game) /\ \E roll \in Sticks \ BONUS_ROLLS : Throw(roll)

(* Is there something of it to do?  (Then one of these is enabled: a throw
   and what is pending always leave a move, see EveryThrowHasAMove and
   PendingMatchesBoard.  Spelled out, for TLC is slow at ENABLED.)         *)
CanFinishTurn ==
    /\ state = "RUNNING"
    /\ \/ pausedAt # None
       \/ ~NothingPending
       \/ IsMidTurn(game) /\ game.queue > 0 /\ Len(game.history) < MaxEvents

(* An operator who from some point on does that and nothing else, and does
   it as long as there is something of it to do.                           *)
OperatorFinishes ==
    /\ <>[][FinishTurn \/ Tick \/ Clock]_vars
    /\ []<>~CanFinishTurn \/ []<><<FinishTurn>>_vars

OutOfTime == state = "RUNNING" /\ RemainingMs = 0

(* Where a throw is owed in mid-turn and the bound of the model refuses it. *)
CutShort == IsMidTurn(game) /\ NothingPending /\ game.queue > 0
            /\ Len(game.history) = MaxEvents

(* A game that runs out of time wherever it stands (in the middle of a turn,
   with bonus throws owed, a throw to move on, a mini-game or a duel to be
   judged, on a pause, after undos) ends, if only the operator lets the turn
   come to its end: "the current team finishes its turn first. The end fires
   on the first tick after that" (apply.ts:464).  No state is left where it
   is nobody's turn to do something and the tick still waits.  The
   exception is a throw that an ending threw away (dropped): the team that
   made it may be left in mid-turn without a throw owed.                   *)
TimeupEndsTheGame == OperatorFinishes => (OutOfTime ~> ~OutOfTime \/ dropped \/ CutShort)

(* The room goes through the lifecycle the host and the projector rely on.  *)
L == INSTANCE GameLifecycle WITH CanReopen <- TRUE

FollowsLifecycle == L!Spec

=============================================================================
