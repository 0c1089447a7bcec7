---------------------------- MODULE YutStore_proofs ----------------------------
(***************************************************************************)
(* What the event log of a yutnori room is worth, for every setup and every *)
(* bound: an exact log stays exact, and a crash resumes play from it.      *)
(***************************************************************************)
EXTENDS YutStore, Yutnori_proofs

(* The part of IInv that has nothing to do with the game.                  *)
Timed ==
    /\ state \in RoomStates
    /\ revealStep \in 0..MAX_REVEAL_STEP
    /\ createdAt \in Nat
    /\ timeLimit \in Nat /\ startedAt \in Times /\ pausedAt \in Times /\ totalPaused \in Nat
    /\ endedAt \in Times /\ endReason \in {"master", "timeup", None}
    /\ now \in Nat
    /\ startedAt # None => startedAt <= now
    /\ pausedAt # None => pausedAt <= now
    /\ endReason # None => state \in {"ENDED", "REVEAL"}

(* A room that was reset and crashed: replay() makes it RUNNING, without
   teams.  It can be paused, ended and revealed, but nobody can throw.     *)
Hollow ==
    /\ Timed
    /\ setup = NoTeams
    /\ state \notin {"SETUP", "LOBBY"}
    /\ game \in GameRecords(NoTeams) /\ game.history = <<>> /\ NothingPending
    /\ dropped = FALSE

(* The row says what the room is, but for a room that crashed before its
   START: it is RUNNING, and its row is not written until somebody acts.   *)
RowTells ==
    LET row == saved.row
    IN  /\ setup = row.setup /\ revealStep = row.revealStep /\ timeLimit = row.timeLimit
        /\ startedAt = row.startedAt /\ pausedAt = row.pausedAt
        /\ totalPaused = row.totalPaused /\ endedAt = row.endedAt
        /\ endReason = row.endReason /\ createdAt = row.createdAt
        /\ state = row.state \/ (state = "RUNNING" /\ row.state \in {"SETUP", "LOBBY"})

LogInv ==
    /\ saved = None => state = "SETUP"
    /\ saved # None =>
          LET row == saved.row
          IN  /\ row.setup \in Setups \cup {NoTeams} /\ saved \in LogRecords(row.setup)
              /\ row.setup # NoTeams => row.setup.teams >= MIN_TEAMS
              /\ row.startedAt # None => row.startedAt <= now
              /\ row.pausedAt # None => row.pausedAt <= now
              /\ row.endReason # None => row.state \in {"ENDED", "REVEAL"}
              /\ state = "SETUP" \/ RowTells

(* The inductive invariant.  A crash rebuilds the room from the log, so what
   holds of the room has to hold of whatever the log replays to: Logged of
   the games, and LogInv of the row.  (TimeupBetweenTurns is no part of it: a
   crash that loses a challenge may hand a throw to a game that is over.)  *)
SInv == ((IInv /\ Logged) \/ Hollow) /\ LogInv

LEMMA IsTimed == (IInv /\ Logged) \/ Hollow => Timed
BY DEF IInv, TypeOK, Logged, Hollow, Timed

-----------------------------------------------------------------------------
(* Writing the log *)

LEMMA WritesEvents ==
    ASSUME NEW S, NEW rows, NEW history \in Seq(S), rows \in Seq(S) \/ history = <<>>
    PROVE  /\ WriteEvents(rows, history) \in Seq(S)
           /\ history = <<>> => WriteEvents(rows, history) = <<>>
<1>1. CASE history = <<>>
  <2>1. Len(history) = 0
    BY <1>1
  <2> QED BY <1>1, <2>1 DEF WriteEvents
<1>2. CASE rows \in Seq(S)
  <2>1. Len(history) \in Nat /\ Len(rows) \in Nat
    BY <1>2
  <2>2. \A i \in 1..Len(history) : (IF i <= Len(rows) THEN rows[i] ELSE history[i]) \in S
    BY <1>2, <2>1
  <2>3. WriteEvents(rows, history) \in [1..Len(history) -> S]
    BY <2>2 DEF WriteEvents
  <2>4. WriteEvents(rows, history) \in Seq(S)
    BY <2>1, <2>3
  <2> QED BY <1>1, <2>4
<1> QED BY <1>1, <1>2

(* A log that is the history, one event longer or one event shorter, is
   written as the history.                                                 *)
LEMMA WritesExactly ==
    ASSUME NEW S, NEW h \in Seq(S), NEW k \in Seq(S),
           \/ k = h
           \/ \E ev \in S : k = Append(h, ev)
           \/ h # <<>> /\ k = ButLast(h)
    PROVE  WriteEvents(h, k) = k
<1>1. Len(h) \in Nat /\ Len(k) \in Nat
  OBVIOUS
<1>2. \A i \in 1..Len(k) : i <= Len(h) => h[i] = k[i]
  <2>1. CASE k = h
    BY <2>1
  <2>2. CASE \E ev \in S : k = Append(h, ev)
    BY <1>1, <2>2
  <2>3. CASE h # <<>> /\ k = SubSeq(h, 1, Len(h) - 1)
    BY <1>1, <2>3
  <2> QED BY <2>1, <2>2, <2>3 DEF ButLast
<1>3. PICK w : w = WriteEvents(h, k)
  OBVIOUS
<1>4. w \in Seq(S)
  BY <1>3, WritesEvents
<1>5. w = [i \in 1..Len(k) |-> IF i <= Len(h) THEN h[i] ELSE k[i]]
  BY <1>3 DEF WriteEvents
<1>6. Len(w) = Len(k)
  BY <1>1, <1>4, <1>5
<1>7. \A i \in 1..Len(k) : w[i] = k[i]
  BY <1>2, <1>5
<1>8. w = k
  BY <1>4, <1>6, <1>7
<1> QED BY <1>3, <1>8

LEMMA Written ==
    ASSUME WriteState, Timed', setup' \in Setups \cup {NoTeams},
           setup' # NoTeams => setup'.teams >= MIN_TEAMS,
           game'.history \in Seq(EventRecords(setup')),
           Rows \in Seq(EventRecords(setup')) \/ game'.history = <<>>
    PROVE  LogInv' /\ saved' # None /\ Rows' = WriteEvents(Rows, game'.history)
<1>1. PICK row, events : row = SetupOf' /\ events = WriteEvents(Rows, game'.history)
  OBVIOUS
<1>2. saved' = [row |-> row, events |-> events]
  BY <1>1 DEF WriteState
<1>3. events \in Seq(EventRecords(setup'))
  BY <1>1, WritesEvents
<1>4. row = [setup |-> setup', state |-> state', revealStep |-> revealStep',
             timeLimit |-> timeLimit', startedAt |-> startedAt', pausedAt |-> pausedAt',
             totalPaused |-> totalPaused', endedAt |-> endedAt', endReason |-> endReason',
             createdAt |-> createdAt']
  BY <1>1 DEF SetupOf
<1>5. row \in [setup : {setup'}, state : RoomStates, revealStep : 0..MAX_REVEAL_STEP,
               timeLimit : Nat, startedAt : Times, pausedAt : Times, totalPaused : Nat,
               endedAt : Times, endReason : {"master", "timeup", None}, createdAt : Nat]
  BY <1>4 DEF Timed
<1>6. saved' \in LogRecords(setup')
  BY <1>2, <1>3, <1>5 DEF LogRecords
<1>7. saved' # None
  BY <1>6, LogAssumption
<1>8. saved'.row = row /\ saved'.events = events /\ row.setup = setup'
  BY <1>2, <1>4
<1>9. RowTells'
  BY <1>4, <1>8 DEF RowTells
<1>10. LogInv'
  BY <1>4, <1>6, <1>7, <1>8, <1>9 DEF LogInv, Timed
<1> QED BY <1>1, <1>7, <1>8, <1>10 DEF Rows
-----------------------------------------------------------------------------
(* What a step of the room does to its history *)

LEMMA ActionSetup ==
    ASSUME MasterAction \/ Tick
    PROVE  \/ setup' = setup /\ state # "SETUP"
           \/ /\ state = "SETUP" /\ setup' \in Setups /\ setup'.teams >= MIN_TEAMS
              /\ game'.history = <<>>
<1>1. ASSUME NEW c \in Setups, NEW limit \in TimeLimits, Setup(c, limit)
      PROVE  state = "SETUP" /\ setup' \in Setups /\ setup'.teams >= MIN_TEAMS /\ game'.history = <<>>
  <2>1. game'.history = <<>>
    BY <1>1, WaitingFields DEF Setup
  <2> QED BY <1>1, <2>1 DEF Setup
<1>2. CASE Tick
  BY <1>2 DEF Tick, EndGame
<1>3. CASE MasterAction /\ ~\E c \in Setups, limit \in TimeLimits : Setup(c, limit)
  BY <1>3 DEF MasterAction, Start, Throw, Move, UndoThrow, UndoEvent, MiniGameSpin, MiniGameResolve,
        Played, Pause, Resume, Extend, End, EndGame, ResumeFromEnded, Reveal
<1> QED BY <1>1, <1>2, <1>3

LEMMA HistorySteps ==
    ASSUME IInv, Logged, MasterAction \/ Tick, ~dropped
    PROVE  \/ game'.history = game.history
           \/ \E ev \in EventRecords(setup) : game'.history = Append(game.history, ev)
           \/ game.history # <<>> /\ game'.history = ButLast(game.history)
           \/ game.pendingMini # None /\ game'.pendingMini = None
<1>0. state = "RUNNING" =>
         /\ setup \in Setups1 /\ NoneApart(setup) /\ setup.teams >= 2
         /\ StartTime \in Nat /\ now \in Nat
         /\ GameInv(setup, game) /\ Faithful(setup, StartTime, game)
  BY InPlay DEF GoodGame
<1>1. game \in GameRecords(setup)
  BY DEF IInv, TypeOK
<1>2. ASSUME NEW c \in Setups, NEW limit \in TimeLimits, Setup(c, limit)
      PROVE  game'.history = game.history
  BY <1>2, WaitingFields, NothingLogged DEF Setup
<1>3. CASE Start \/ UndoThrow \/ Tick \/ End
  <2>1. CASE Start
    BY <1>1, <2>1 DEF Start, GameRecords
  <2>2. CASE UndoThrow
    BY <1>1, <2>2 DEF UndoThrow, Played, GameRecords
  <2>3. CASE Tick \/ End
    BY <1>1, <2>3 DEF Tick, End, EndGame, GameRecords
  <2> QED BY <1>3, <2>1, <2>2, <2>3
<1>4. ASSUME NEW roll \in Sticks, Throw(roll)
      PROVE  \/ game'.history = game.history
             \/ \E ev \in EventRecords(setup) : game'.history = Append(game.history, ev)
  <2>1. /\ state = "RUNNING" /\ CanThrow(game) /\ roll \in Rolls
        /\ game' = ThrowStick(setup, game, roll, now)
    BY <1>4, SticksAssumption DEF Throw, Played
  <2> QED BY <1>0, <2>1, ThrowLogs
<1>5. ASSUME game.pendingThrow # None, NEW cand \in game.pendingThrow.candidates, Move(cand)
      PROVE  \E ev \in EventRecords(setup) : game'.history = Append(game.history, ev)
  <2>1. state = "RUNNING" /\ game' = CommitMove(setup, game, game.pendingThrow.roll, cand, now)
    BY <1>5 DEF Move, Played
  <2> QED BY <1>0, <1>5, <2>1, MoveLogs
<1>6. CASE UndoEvent
  <2>1. PICK r : r = Replay(setup, StartTime, ButLast(game.history))
    OBVIOUS
  <2>2. state = "RUNNING" /\ AtRest(game) /\ game.history # <<>> /\ r # None /\ game' = r
    BY <1>6, <2>1 DEF UndoEvent, Played, NothingPending, AtRest
  <2>3. r.history = ButLast(game.history)
    BY <1>0, <2>1, <2>2, UndoLogs
  <2> QED BY <2>2, <2>3
<1>7. ASSUME NEW id \in MiniGames, MiniGameSpin(id) PROVE game'.history = game.history
  BY <1>0, <1>7, SpinFacts DEF MiniGameSpin, Played
<1>8. ASSUME NEW success \in BOOLEAN, MiniGameResolve(success)
      PROVE  game.pendingMini # None /\ game'.pendingMini = None
  BY <1>0, <1>8, ResolveFacts DEF MiniGameResolve, Played
<1>9. CASE Pause \/ Resume \/ (\E minutes \in Extensions : Extend(minutes)) \/ ResumeFromEnded
           \/ \E step \in 0..MAX_REVEAL_STEP : Reveal(step)
  BY <1>9 DEF Pause, Resume, Extend, ResumeFromEnded, Reveal
<1> QED BY <1>2, <1>3, <1>4, <1>5, <1>6, <1>7, <1>8, <1>9 DEF MasterAction

(* Nobody can throw in a hollow room, and so nobody moves.                 *)
LEMMA HollowSteps ==
    ASSUME Hollow, MasterAction \/ Tick
    PROVE  \/ Pause \/ Resume \/ (\E minutes \in Extensions : Extend(minutes)) \/ ResumeFromEnded
           \/ \E step \in 0..MAX_REVEAL_STEP : Reveal(step)
           \/ \E reason \in {"master", "timeup"} : state = "RUNNING" /\ EndGame(reason)
<1>1. Mals(NoTeams) = {}
  BY DEF Mals, TeamIds, NoTeams
<1>2. \A roll : Candidates(setup, game, roll) = {}
  BY <1>1 DEF Hollow, Candidates
<1>3. /\ state \notin {"SETUP", "LOBBY"} /\ game.history = <<>>
      /\ game.pendingThrow = None /\ game.pendingMini = None
  BY DEF Hollow, NothingPending
<1> QED BY <1>2, <1>3 DEF MasterAction, Tick, Setup, Start, Throw, UndoThrow, UndoEvent,
           MiniGameSpin, MiniGameResolve, End

LEMMA HollowActs ==
    ASSUME Hollow, MasterAction \/ Tick
    PROVE  Hollow'
<1>1. CASE Pause
  BY <1>1 DEF Pause, Hollow, Timed, Times, NothingPending, end
<1>2. CASE Resume
  <2>1. now - pausedAt \in Nat
    BY <1>2 DEF Resume, Hollow, Timed, Times
  <2>2. totalPaused' \in Nat
    BY <1>2, <2>1 DEF Resume, Hollow, Timed
  <2> QED BY <1>2, <2>2 DEF Resume, Hollow, Timed, Times, NothingPending, end
<1>3. ASSUME NEW minutes \in Extensions, Extend(minutes) PROVE Hollow'
  <2>1. timeLimit' \in Nat
    BY <1>3, TimesAssumption DEF Extend, Hollow, Timed
  <2> QED BY <1>3, <2>1 DEF Extend, Hollow, Timed, Times, NothingPending, end
<1>4. CASE ResumeFromEnded
  BY <1>4 DEF ResumeFromEnded, Hollow, Timed, Times, RoomStates, NothingPending, clock
<1>5. ASSUME NEW step \in 0..MAX_REVEAL_STEP, Reveal(step) PROVE Hollow'
  BY <1>5 DEF Reveal, Hollow, Timed, Times, RoomStates, NothingPending, clock, end
<1>6. ASSUME NEW reason \in {"master", "timeup"}, state = "RUNNING", EndGame(reason) PROVE Hollow'
  <2>1. game' = game
    BY <1>6 DEF EndGame, Hollow, NothingPending, GameRecords
  <2>2. dropped' = FALSE
    BY <1>6 DEF EndGame, Hollow, NothingPending
  <2> QED BY <1>6, <2>1, <2>2 DEF EndGame, Hollow, Timed, Times, RoomStates, NothingPending, clock
<1> QED BY <1>1, <1>2, <1>3, <1>4, <1>5, <1>6, HollowSteps

-----------------------------------------------------------------------------
(* The room as newRoom() makes it *)

LEMMA NoTeamsGame ==
    ASSUME NEW at \in Nat
    PROVE  /\ FreshGame(NoTeams, at) \in GameRecords(NoTeams)
           /\ Waiting(NoTeams, at) \in GameRecords(NoTeams)
<1>1. PICK f : f = FreshGame(NoTeams, at)
  OBVIOUS
<1>2. f \in GameRecords(NoTeams)
  BY <1>1 DEF FreshGame, GameRecords, Resting
<1>3. PICK g : g = [f EXCEPT !.queue = 0]
  OBVIOUS
<1>4. g \in GameRecords(NoTeams)
  BY <1>2, <1>3 DEF GameRecords
<1> QED BY <1>1, <1>2, <1>3, <1>4 DEF Waiting

LEMMA NewRoomInv ==
    ASSUME NewRoom, now \in Nat
    PROVE  IInv' /\ Logged' /\ game'.history = <<>>
<1>1. NoTeams \in SetupRecords
  BY DEF NoTeams, SetupRecords
<1>2. game' \in GameRecords(NoTeams) /\ NothingPending' /\ game'.history = <<>>
  BY NoTeamsGame, WaitingFields DEF NewRoom, NothingPending
<1>3. DefaultLimit \in Nat
  BY TimesAssumption
<1>4. TypeOK'
  <2>1. /\ setup' = NoTeams /\ state' = "SETUP" /\ revealStep' = 0 /\ createdAt' = now
        /\ timeLimit' = DefaultLimit /\ startedAt' = None /\ pausedAt' = None /\ totalPaused' = 0
        /\ endedAt' = None /\ endReason' = None /\ now' = now /\ dropped' = FALSE
    BY DEF NewRoom
  <2>2. setup' \in SetupRecords /\ game' \in GameRecords(setup')
    BY <1>1, <1>2, <2>1
  <2>3. revealStep' \in 0..MAX_REVEAL_STEP /\ createdAt' \in Nat /\ timeLimit' \in Nat
        /\ totalPaused' \in Nat /\ now' \in Nat
    BY <1>3, <2>1 DEF MAX_REVEAL_STEP
  <2>4. /\ startedAt' \in Times /\ pausedAt' \in Times /\ endedAt' \in Times
        /\ endReason' \in {"master", "timeup", None} /\ state' \in RoomStates
        /\ dropped' \in BOOLEAN
    BY <2>1 DEF Times, RoomStates
  <2> QED BY <2>1, <2>2, <2>3, <2>4 DEF TypeOK
<1> QED BY <1>2, <1>4 DEF IInv, Logged, NewRoom
-----------------------------------------------------------------------------
(* The invariant is one *)

LEMMA RowsTyped ==
    ASSUME LogInv, saved # None
    PROVE  /\ Rows = saved.events /\ Rows \in Seq(EventRecords(saved.row.setup))
           /\ state # "SETUP" => saved.row.setup = setup
BY DEF LogInv, LogRecords, Rows, RowTells

(* A write after a step that leaves a room, and its setup, as they may be. *)
LEMMA WrittenRoom ==
    ASSUME LogInv, WriteState, (IInv' /\ Logged') \/ Hollow',
           setup' = setup \/ game'.history = <<>>, state = "SETUP" => game'.history = <<>>
    PROVE  SInv' /\ saved' # None /\ Rows' = WriteEvents(Rows, game'.history)
<1>1. Timed'
  BY DEF IInv, TypeOK, Logged, Hollow, Timed
<1>2. setup' \in Setups \cup {NoTeams} /\ (setup' # NoTeams => setup'.teams >= MIN_TEAMS)
  BY DEF IInv, TypeOK, Logged, Hollow
<1>3. game'.history \in Seq(EventRecords(setup'))
  BY DEF IInv, TypeOK, GameRecords, Hollow
<1>4. Rows \in Seq(EventRecords(setup')) \/ game'.history = <<>>
  BY RowsTyped DEF LogInv
<1> QED BY <1>1, <1>2, <1>3, <1>4, Written DEF SInv

LEMMA ActKeeps ==
    ASSUME SInv, MasterAction \/ Tick, WriteState
    PROVE  SInv' /\ saved' # None /\ Rows' = WriteEvents(Rows, game'.history)
<1>1. (IInv' /\ Logged') \/ Hollow'
  <2>1. CASE IInv /\ Logged
    <3>1. IInv'
      BY <2>1, ActionInv
    <3> QED BY <2>1, <3>1, ActionLogged
  <2>2. CASE Hollow
    BY <2>2, HollowActs
  <2> QED BY <2>1, <2>2 DEF SInv
<1>2. \/ setup' = setup /\ state # "SETUP"
      \/ game'.history = <<>>
  BY ActionSetup
<1> QED BY <1>1, <1>2, WrittenRoom DEF SInv

LEMMA IdleTickKeeps ==
    ASSUME SInv, IdleTick
    PROVE  SInv' /\ saved' # None /\ Rows' = WriteEvents(Rows, game'.history) /\ game' = game
<1>1. /\ UNCHANGED <<setup, game, state, revealStep, createdAt, timeLimit, startedAt, pausedAt,
                     totalPaused, endedAt, endReason, now, dropped>>
      /\ WriteState /\ state # "SETUP"
  BY DEF IdleTick, vars, clock, end
<1>2. (IInv' /\ Logged') \/ Hollow'
  <2>1. CASE IInv /\ Logged
    <3>1. IInv'
      BY <1>1, <2>1 DEF IInv, TypeOK, NothingPending
    <3>2. Logged'
      BY <1>1, <2>1 DEF Logged, StartTime
    <3> QED BY <3>1, <3>2
  <2>2. CASE Hollow
    BY <1>1, <2>2 DEF Hollow, Timed, NothingPending
  <2> QED BY <2>1, <2>2 DEF SInv
<1> QED BY <1>1, <1>2, WrittenRoom DEF SInv

LEMMA ResetKeeps ==
    ASSUME SInv, Reset
    PROVE  SInv' /\ saved' # None /\ Rows' = <<>> /\ game'.history = <<>>
<1>1. now \in Nat
  BY IsTimed DEF SInv, Timed
<1>2. IInv' /\ Logged' /\ game'.history = <<>>
  BY <1>1, NewRoomInv DEF Reset
<1>3. SInv' /\ saved' # None /\ Rows' = WriteEvents(Rows, game'.history)
  BY <1>2, WrittenRoom DEF SInv, Reset
<1>4. WriteEvents(Rows, game'.history) = <<>>
  <2>1. Len(game'.history) = 0
    BY <1>2
  <2> QED BY <2>1 DEF WriteEvents
<1> QED BY <1>2, <1>3, <1>4

LEMMA TimeKeeps ==
    ASSUME SInv, TimePasses
    PROVE  SInv' /\ UNCHANGED <<game, saved>>
<1>1. /\ UNCHANGED <<setup, game, state, revealStep, createdAt, timeLimit, startedAt, pausedAt,
                     totalPaused, endedAt, endReason, dropped, saved>>
      /\ now' = now + 1 /\ now \in Nat
  BY IsTimed DEF TimePasses, Clock, clock, end, SInv, Timed
<1>2. ASSUME IInv, Logged PROVE IInv' /\ Logged'
  <2>1. IInv'
    BY <1>1, <1>2 DEF IInv, TypeOK, Times, NothingPending
  <2>2. Logged'
    BY <1>1, <1>2 DEF Logged, StartTime
  <2> QED BY <2>1, <2>2
<1>3. ASSUME Hollow PROVE Hollow'
  BY <1>1, <1>3 DEF Hollow, Timed, Times, NothingPending
<1>4. LogInv'
  <2>1. CASE saved = None
    BY <1>1, <2>1 DEF SInv, LogInv
  <2>2. CASE saved # None
    <3>1. saved.row.startedAt \in Times /\ saved.row.pausedAt \in Times
      BY <2>2 DEF SInv, LogInv, LogRecords
    <3>2. RowTells => RowTells'
      BY <1>1 DEF RowTells
    <3> QED BY <1>1, <2>2, <3>1, <3>2 DEF SInv, LogInv, Times
  <2> QED BY <2>1, <2>2
<1> QED BY <1>1, <1>2, <1>3, <1>4 DEF SInv

LEMMA StutterKeeps ==
    ASSUME SInv, UNCHANGED svars
    PROVE  SInv' /\ UNCHANGED <<game, saved>>
<1>1. UNCHANGED <<setup, game, state, revealStep, createdAt, timeLimit, startedAt, pausedAt,
                  totalPaused, endedAt, endReason, now, dropped, saved>>
  BY DEF svars, vars, clock, end
<1>2. ASSUME IInv, Logged PROVE IInv' /\ Logged'
  <2>1. IInv'
    BY <1>1, <1>2 DEF IInv, TypeOK, NothingPending
  <2>2. Logged'
    BY <1>1, <1>2 DEF Logged, StartTime
  <2> QED BY <2>1, <2>2
<1>3. ASSUME Hollow PROVE Hollow'
  BY <1>1, <1>3 DEF Hollow, Timed, NothingPending
<1>4. LogInv'
  BY <1>1 DEF SInv, LogInv, RowTells
<1> QED BY <1>1, <1>2, <1>3, <1>4 DEF SInv
-----------------------------------------------------------------------------
(* A crash *)

(* The room a crash takes from the row, when its game is g.                *)
Recovered(g) ==
    /\ game' = g
    /\ setup' = saved.row.setup
    /\ state' = IF saved.row.state \in {"SETUP", "LOBBY"} THEN "RUNNING" ELSE saved.row.state
    /\ revealStep' = saved.row.revealStep /\ timeLimit' = saved.row.timeLimit
    /\ startedAt' = saved.row.startedAt /\ pausedAt' = saved.row.pausedAt
    /\ totalPaused' = saved.row.totalPaused
    /\ endedAt' = saved.row.endedAt /\ endReason' = saved.row.endReason
    /\ createdAt' = saved.row.createdAt
    /\ dropped' = FALSE
    /\ UNCHANGED <<now, saved>>

RowStart == IF saved.row.startedAt = None THEN saved.row.createdAt ELSE saved.row.startedAt

LEMMA CrashRecovers ==
    ASSUME Crash, NEW g, g = Replay(saved.row.setup, RowStart, saved.events)
    PROVE  /\ saved # None /\ saved' = saved
           /\ IF g = None THEN NewRoom ELSE Recovered(g)
BY DEF Crash, Recovered, RowStart

LEMMA RecoveredTimed ==
    ASSUME LogInv, saved # None, Timed, NEW g, Recovered(g)
    PROVE  Timed' /\ StartTime' = RowStart /\ RowTells' /\ state' \notin {"SETUP", "LOBBY"}
<1>1. /\ saved.row \in [setup : {saved.row.setup}, state : RoomStates, revealStep : 0..MAX_REVEAL_STEP,
               timeLimit : Nat, startedAt : Times, pausedAt : Times, totalPaused : Nat,
               endedAt : Times, endReason : {"master", "timeup", None}, createdAt : Nat]
      /\ saved.row.startedAt # None => saved.row.startedAt <= now
      /\ saved.row.pausedAt # None => saved.row.pausedAt <= now
      /\ saved.row.endReason # None => saved.row.state \in {"ENDED", "REVEAL"}
  BY DEF LogInv, LogRecords
<1>2. state' \in RoomStates /\ state' \notin {"SETUP", "LOBBY"}
  BY <1>1 DEF Recovered, RoomStates
<1>3. Timed'
  BY <1>1, <1>2 DEF Recovered, Timed
<1> QED BY <1>1, <1>2, <1>3 DEF Recovered, StartTime, RowStart, RowTells

LEMMA RecoveredLog ==
    ASSUME LogInv, saved # None, UNCHANGED <<now, saved>>, RowTells'
    PROVE  LogInv'
BY DEF LogInv

(* A replay that fails leaves a new room, and the log as it was.           *)
LEMMA FailedKeeps ==
    ASSUME SInv, NewRoom, UNCHANGED saved
    PROVE  SInv' /\ game'.history = <<>>
<1>1. now \in Nat
  BY IsTimed DEF SInv, Timed
<1>2. IInv' /\ Logged' /\ game'.history = <<>>
  BY <1>1, NewRoomInv
<1>3. state' = "SETUP" /\ now' = now
  BY DEF NewRoom
<1>4. LogInv'
  BY <1>3 DEF SInv, LogInv
<1> QED BY <1>2, <1>4 DEF SInv

(* The row of a reset room replays to a room without teams.                *)
LEMMA HollowCrash ==
    ASSUME SInv, Crash, saved.row.setup = NoTeams
    PROVE  /\ SInv' /\ UNCHANGED saved
           /\ game'.history = <<>> /\ saved.events = <<>> /\ game'.pendingMini = None
<1>1. PICK g : g = Replay(saved.row.setup, RowStart, saved.events)
  OBVIOUS
<1>2. saved # None /\ UNCHANGED saved /\ IF g = None THEN NewRoom ELSE Recovered(g)
  BY <1>1, CrashRecovers
<1>3. saved.events \in Seq(EventRecords(NoTeams)) /\ RowStart \in Nat
  BY <1>2, NoneAssumption DEF SInv, LogInv, LogRecords, RowStart, Times
<1>4. saved.events = <<>>
  <2>1. TeamIds(NoTeams) = {}
    BY DEF TeamIds, NoTeams
  <2>2. EventRecords(NoTeams) = {}
    BY <2>1 DEF EventRecords
  <2> QED BY <1>3, <2>2
<1>5. g = FreshGame(NoTeams, RowStart)
  BY <1>1, <1>4, ReplayNothing
<1>6. g \in GameRecords(NoTeams) /\ g # None
  BY <1>3, <1>5, NoTeamsGame, LogAssumption DEF NoneApart
<1>7. g.history = <<>> /\ g.pendingThrow = None /\ g.pendingMini = None
  BY <1>5 DEF FreshGame
<1>8. Recovered(g) /\ Timed
  BY <1>2, <1>6, IsTimed DEF SInv
<1>9. Timed' /\ RowTells' /\ state' \notin {"SETUP", "LOBBY"}
  BY <1>2, <1>8, RecoveredTimed DEF SInv
<1>10. Hollow'
  BY <1>6, <1>7, <1>8, <1>9 DEF Hollow, NothingPending, Recovered
<1>11. LogInv'
  BY <1>2, <1>8, <1>9, RecoveredLog DEF SInv, Recovered
<1> QED BY <1>2, <1>4, <1>7, <1>8, <1>10, <1>11 DEF SInv, Recovered

(* The row of a room with teams replays to a good game.                    *)
LEMMA PlayCrash ==
    ASSUME SInv, Crash, saved.row.setup # NoTeams,
           NEW g, g = Replay(saved.row.setup, RowStart, saved.events), g # None
    PROVE  /\ SInv' /\ Recovered(g) /\ saved # None
           /\ GoodGame(saved.row.setup, RowStart, FALSE, g) /\ AtRest(g)
<1>1. saved # None /\ Recovered(g) /\ Timed
  BY CrashRecovers, IsTimed DEF SInv
<1>2. PICK c \in Setups : c = saved.row.setup
  BY <1>1 DEF SInv, LogInv
<1>3. /\ c \in Setups1 /\ NoneApart(c) /\ c.teams >= 2 /\ c \in SetupRecords
      /\ saved.events \in Seq(EventRecords(c)) /\ RowStart \in Nat
  BY <1>1, <1>2, SetupsAssumption, NullAssumption, NoneAssumption
     DEF SInv, LogInv, LogRecords, RowStart, Times, Setups1, SetupRecords, MIN_TEAMS
<1>4. GoodGame(c, RowStart, FALSE, g) /\ AtRest(g)
  BY <1>2, <1>3, ReplayIsGood
<1>5. GameInv(c, g) /\ g \in GameRecords(c) /\ g.turn \in TeamIds(c)
  BY <1>4 DEF GoodGame, GameInv
<1>6. Timed' /\ StartTime' = RowStart /\ RowTells' /\ state' \notin {"SETUP", "LOBBY"}
  BY <1>1, RecoveredTimed DEF SInv
<1>7. setup' = c /\ game' = g /\ dropped' = FALSE
  BY <1>1, <1>2 DEF Recovered
<1>8. IInv'
  BY <1>3, <1>5, <1>6, <1>7 DEF IInv, TypeOK, Timed, MIN_TEAMS
<1>9. Logged'
  BY <1>2, <1>4, <1>6, <1>7 DEF Logged, Timed
<1>10. LogInv'
  BY <1>1, <1>6, RecoveredLog DEF SInv, Recovered
<1> QED BY <1>1, <1>2, <1>4, <1>8, <1>9, <1>10 DEF SInv

LEMMA CrashKeeps ==
    ASSUME SInv, Crash
    PROVE  SInv'
<1>1. PICK g : g = Replay(saved.row.setup, RowStart, saved.events)
  OBVIOUS
<1>2. CASE saved.row.setup = NoTeams
  BY <1>2, HollowCrash
<1>3. CASE saved.row.setup # NoTeams /\ g # None
  BY <1>1, <1>3, PlayCrash
<1>4. CASE g = None
  BY <1>1, <1>4, CrashRecovers, FailedKeeps
<1> QED BY <1>2, <1>3, <1>4

LEMMA StoreNextKeeps == SInv /\ [StoreNext]_svars => SInv'
BY ActKeeps, IdleTickKeeps, ResetKeeps, TimeKeeps, CrashKeeps, StutterKeeps DEF StoreNext, Act

(* The invariant is one.                                                   *)
THEOREM StoreInvariance == StoreSpec => []SInv
<1>1. StoreInit => SInv
  <2> SUFFICES ASSUME StoreInit PROVE SInv
    OBVIOUS
  <2>1. state = "SETUP" /\ saved = None
    BY DEF StoreInit, Init
  <2>2. IInv /\ Logged
    BY InitInv, InitLogged DEF StoreInit
  <2> QED BY <2>1, <2>2 DEF SInv, LogInv
<1>2. SInv /\ [StoreNext]_svars => SInv'
  BY StoreNextKeeps
<1> QED BY <1>1, <1>2, PTL DEF StoreSpec
-----------------------------------------------------------------------------
(* An exact log stays exact *)

LEMMA ActIsExact ==
    ASSUME SInv, Exact, ~dropped, MasterAction \/ Tick, WriteState
    PROVE  Exact' \/ (game.pendingMini # None /\ game'.pendingMini = None)
<1>1. SInv' /\ Rows' = WriteEvents(Rows, game'.history)
  BY ActKeeps
<1>2. CASE IInv /\ Logged
  <2>1. IInv'
    BY <1>2, ActionInv
  <2>2. setup' = setup \/ (game.history = <<>> /\ game'.history = <<>>)
    BY <1>2, ActionSetup, NothingLogged
  <2>3. PICK S : S = EventRecords(setup)
    OBVIOUS
  <2>4. game.history \in Seq(S) /\ game'.history \in Seq(S)
    BY <1>2, <2>1, <2>2, <2>3 DEF IInv, TypeOK, GameRecords
  <2>5. \/ game'.history = game.history
        \/ \E ev \in S : game'.history = Append(game.history, ev)
        \/ game.history # <<>> /\ game'.history = ButLast(game.history)
        \/ game.pendingMini # None /\ game'.pendingMini = None
    BY <1>2, <2>3, HistorySteps
  <2>6. CASE ~(game.pendingMini # None /\ game'.pendingMini = None)
    <3>1. WriteEvents(game.history, game'.history) = game'.history
      BY <2>4, <2>5, <2>6, WritesExactly
    <3> QED BY <1>1, <3>1 DEF Exact
  <2> QED BY <2>6
<1>3. CASE Hollow
  <2>1. Hollow'
    BY <1>3, HollowActs
  <2>2. game.history = <<>> /\ game'.history = <<>>
    BY <1>3, <2>1 DEF Hollow
  <2>3. WriteEvents(Rows, game'.history) = <<>>
    <3>1. Len(game'.history) = 0
      BY <2>2
    <3> QED BY <3>1 DEF WriteEvents
  <2> QED BY <1>1, <2>2, <2>3 DEF Exact
<1> QED BY <1>2, <1>3 DEF SInv

LEMMA IdleTickIsExact ==
    ASSUME SInv, Exact, IdleTick
    PROVE  Exact'
<1>1. Rows' = WriteEvents(Rows, game'.history) /\ game' = game
  BY IdleTickKeeps
<1>2. PICK S : game.history \in Seq(S)
  BY DEF SInv, IInv, TypeOK, Hollow, GameRecords
<1>3. WriteEvents(game.history, game.history) = game.history
  BY <1>2, WritesExactly
<1> QED BY <1>1, <1>3 DEF Exact

(* What the row of a room in play is replayed with.                        *)
LEMMA RowOfPlay ==
    ASSUME SInv, saved # None, state # "SETUP"
    PROVE  /\ saved.row.setup = setup /\ RowStart = StartTime /\ RowTells
           /\ Rows = saved.events
BY DEF SInv, LogInv, RowTells, RowStart, StartTime, Rows

(* The replay of an exact log, where play was and nothing is in progress.  *)
LEMMA ExactReplay ==
    ASSUME SInv, Exact, ~dropped, saved # None, setup # NoTeams, state \notin {"SETUP", "LOBBY"},
           game.pendingMini = None
    PROVE  /\ Replay(saved.row.setup, RowStart, saved.events) = RestedOf(game)
           /\ RestedOf(game) # None /\ RestedOf(game).history = game.history
<1>1. IInv /\ Logged
  BY DEF SInv, Hollow
<1>2. /\ NoneApart(setup) /\ GoodGame(setup, StartTime, dropped, game)
      /\ game \in GameRecords(setup)
  BY <1>1, InPlay
<1>3. Faithful(setup, StartTime, game)
  BY <1>2 DEF GoodGame
<1>4. Replay(setup, StartTime, game.history) = RestedOf(game)
  BY <1>3 DEF Faithful
<1>5. RestedOf(game) \in GameRecords(setup) /\ RestedOf(game).history = game.history
  BY <1>2, RestFacts
<1>6. RestedOf(game) # None
  BY <1>2, <1>5 DEF NoneApart
<1> QED BY <1>4, <1>5, <1>6, RowOfPlay DEF Exact

(* An exact log with a mini-game in progress.                              *)
LEMMA WonReplay ==
    ASSUME SInv, Exact, ~dropped, saved # None, setup # NoTeams, state \notin {"SETUP", "LOBBY"},
           game.pendingMini # None,
           NEW h, h = Replay(saved.row.setup, RowStart, saved.events)
    PROVE  /\ h # None /\ h.pendingMini = None
           /\ Blank(h) = Blank(ResolveMiniGame(setup, game, TRUE))
           /\ Len(h.history) = Len(game.history)
<1>1. IInv /\ Logged
  BY DEF SInv, Hollow
<1>2. /\ setup \in Setups1 /\ NoneApart(setup) /\ GoodGame(setup, StartTime, dropped, game)
      /\ StartTime \in Nat
  BY <1>1, InPlay
<1>3. Faithful(setup, StartTime, game) /\ GameInv(setup, game)
  BY <1>2 DEF GoodGame
<1>4. h = Replay(setup, StartTime, game.history)
  BY RowOfPlay DEF Exact
<1>5. PICK c \in Setups1, at \in Nat : c = setup /\ at = StartTime
  BY <1>2
<1>6. PICK g : g = game
  OBVIOUS
<1>7. GameInv(c, g) /\ Faithful(c, at, g) /\ NoneApart(c) /\ g.pendingMini # None
      /\ h = Replay(c, at, g.history)
  BY <1>2, <1>3, <1>4, <1>5, <1>6
<1>8. /\ h # None /\ Blank(h) = Blank(ResolveMiniGame(c, g, TRUE))
      /\ Len(h.history) = Len(g.history) /\ h.pendingMini = None
  BY <1>7, ReplayWins
<1> QED BY <1>5, <1>6, <1>8

(* The replay of an empty log begins the game.                             *)
LEMMA EmptyReplay ==
    ASSUME SInv, saved # None, saved.events = <<>>,
           NEW h, h = Replay(saved.row.setup, RowStart, saved.events)
    PROVE  /\ h = FreshGame(saved.row.setup, RowStart) /\ h # None
           /\ h.history = <<>> /\ h.pendingMini = None
<1>1. h = FreshGame(saved.row.setup, RowStart)
  BY ReplayNothing
<1>2. RowStart \in Nat /\ saved.row.setup \in Setups \cup {NoTeams}
      /\ (saved.row.setup # NoTeams => saved.row.setup.teams >= MIN_TEAMS)
  BY NoneAssumption DEF SInv, LogInv, LogRecords, RowStart, Times
<1>3. ASSUME saved.row.setup = NoTeams PROVE h # None
  BY <1>1, <1>2, <1>3, NoTeamsGame, LogAssumption DEF NoneApart
<1>4. ASSUME saved.row.setup # NoTeams PROVE h # None
  <2>1. PICK c \in Setups : c = saved.row.setup /\ c.teams >= 2
    BY <1>2, <1>4 DEF MIN_TEAMS
  <2>2. c \in Setups1 /\ NoneApart(c)
    BY <2>1, SetupsAssumption, NullAssumption DEF Setups1, SetupRecords
  <2>3. FreshGame(c, RowStart) \in GameRecords(c)
    BY <1>2, <2>2, FreshClear DEF GameInv
  <2> QED BY <1>1, <2>1, <2>2, <2>3 DEF NoneApart
<1>5. h.history = <<>> /\ h.pendingMini = None
  BY <1>1 DEF FreshGame
<1> QED BY <1>1, <1>3, <1>4, <1>5

LEMMA CrashIsExact ==
    ASSUME SInv, Exact, ~dropped, Crash
    PROVE  Exact' \/ (game.pendingMini # None /\ game'.pendingMini = None)
<1>1. PICK h : h = Replay(saved.row.setup, RowStart, saved.events)
  OBVIOUS
<1>2. saved # None /\ saved' = saved /\ IF h = None THEN NewRoom ELSE Recovered(h)
  BY <1>1, CrashRecovers
<1>3. Rows = saved.events /\ Rows' = saved.events
  BY <1>2 DEF Rows
<1>4. CASE saved.events = <<>>
  <2>1. h # None /\ h.history = <<>>
    BY <1>1, <1>2, <1>4, EmptyReplay
  <2> QED BY <1>2, <1>3, <1>4, <2>1 DEF Exact, Recovered
<1>5. CASE saved.events # <<>>
  <2>1. game.history # <<>>
    BY <1>3, <1>5 DEF Exact
  <2>2. IInv /\ Logged /\ state \notin {"SETUP", "LOBBY"}
    BY <2>1, NothingLogged DEF SInv, Hollow
  <2>3. setup # NoTeams
    BY <2>2, InPlay DEF NoTeams
  <2>4. CASE game.pendingMini = None
    BY <1>1, <1>2, <1>3, <2>2, <2>3, <2>4, ExactReplay DEF Exact, Recovered
  <2>5. CASE game.pendingMini # None
    BY <1>1, <1>2, <2>2, <2>3, <2>5, WonReplay DEF Recovered
  <2> QED BY <2>4, <2>5
<1> QED BY <1>4, <1>5

(* An exact log stays exact, whatever the master, the clock, the tick, a
   reset or a crash does, but for the outcome of a mini-game.              *)
THEOREM LogIsExact == StoreSpec => LogStaysExact
<1>1. SInv /\ [StoreNext]_svars =>
         [ Exact /\ ~dropped =>
              Exact' \/ (game.pendingMini # None /\ game'.pendingMini = None) ]_svars
  <2> SUFFICES ASSUME SInv, StoreNext, Exact, ~dropped
               PROVE  Exact' \/ (game.pendingMini # None /\ game'.pendingMini = None)
    OBVIOUS
  <2>1. CASE Act
    BY <2>1, ActIsExact DEF Act
  <2>2. CASE IdleTick
    BY <2>2, IdleTickIsExact
  <2>3. CASE Reset
    BY <2>3, ResetKeeps DEF Exact
  <2>4. CASE TimePasses
    <3>1. UNCHANGED <<game, saved>>
      BY <2>4, TimeKeeps
    <3> QED BY <3>1 DEF Exact, Rows
  <2>5. CASE Crash
    BY <2>5, CrashIsExact
  <2> QED BY <2>1, <2>2, <2>3, <2>4, <2>5 DEF StoreNext
<1> QED BY <1>1, StoreInvariance, PTL DEF StoreSpec, LogStaysExact

-----------------------------------------------------------------------------
(* A crash resumes play *)

(* A room before START, started at the time of its creation.               *)
Restarted(g, l) == [g EXCEPT !.queue = 1, !.lastAt = l]

LEMMA WaitingRestarts ==
    ASSUME NEW c, NEW x, NEW at, NEW g \in GameRecords(c), g = Waiting(c, x),
           NEW l, l = [t \in TeamIds(c) |-> at]
    PROVE  Restarted(g, l) = FreshGame(c, at)
<1>1. g.turn = 1
  <2>1. PICK f : f = FreshGame(c, x)
    OBVIOUS
  <2>2. f.turn = 1
    BY <2>1 DEF FreshGame
  <2>3. g = [f EXCEPT !.queue = 0]
    BY <2>1 DEF Waiting
  <2> QED BY <2>1, <2>2, <2>3 DEF FreshGame
<1>2. Restarted(g, l) = Started(g, l)
  BY <1>1 DEF Restarted, Started, GameRecords
<1>3. Started(Waiting(c, x), l) = FreshGame(c, at)
  BY WaitingStarts
<1> QED BY <1>2, <1>3

LEMMA WaitingCrash ==
    ASSUME SInv, Exact, Crash, setup.teams > 0, state \notin {"RUNNING", "ENDED", "REVEAL"},
           NEW l, l = [t \in 1..setup.teams |-> createdAt]
    PROVE  /\ Recovered(Restarted(game, l)) /\ saved # None
           /\ game'.history = game.history /\ state' = "RUNNING" /\ state # "SETUP"
<1>1. IInv /\ Logged /\ state = "LOBBY"
  BY DEF SInv, IInv, TypeOK, RoomStates, Hollow, NoTeams, Timed
<1>2. PICK h : h = Replay(saved.row.setup, RowStart, saved.events)
  OBVIOUS
<1>3. saved # None /\ IF h = None THEN NewRoom ELSE Recovered(h)
  BY <1>2, CrashRecovers
<1>4. saved.row.setup = setup /\ RowStart = createdAt /\ RowTells /\ Rows = saved.events
  BY <1>1, <1>3, RowOfPlay DEF IInv, StartTime
<1>5. saved.events = <<>> /\ game.history = <<>>
  BY <1>1, <1>4, NothingLogged DEF Exact
<1>6. h = FreshGame(setup, createdAt) /\ h # None /\ h.history = <<>>
  BY <1>2, <1>3, <1>4, <1>5, EmptyReplay
<1>7. h = Restarted(game, l)
  <2>1. PICK x \in Nat : game = Waiting(setup, x)
    BY <1>1 DEF Logged
  <2>2. game \in GameRecords(setup)
    BY <1>1 DEF IInv, TypeOK
  <2>3. l = [t \in TeamIds(setup) |-> createdAt]
    BY DEF TeamIds
  <2>4. Restarted(game, l) = FreshGame(setup, createdAt)
    BY <2>1, <2>2, <2>3, WaitingRestarts
  <2> QED BY <1>6, <2>4
<1>8. state' = "RUNNING"
  BY <1>1, <1>3, <1>4, <1>6 DEF Recovered, RowTells
<1> QED BY <1>1, <1>3, <1>5, <1>6, <1>7, <1>8 DEF Recovered

(* After a crash of a room with an exact log play goes on where it was, less
   the throw not moved on and with the challenge in progress won; a room
   that was not started is.                                                *)
THEOREM CrashesResumePlay == StoreSpec => CrashResumesPlay
<1>1. SInv /\ Crash /\ Exact /\ ~dropped /\ setup.teams > 0 =>
          LET g == IF ~Playing THEN [game EXCEPT !.queue = 1, !.lastAt = [t \in 1..setup.teams |-> createdAt]]
                   ELSE IF game.pendingMini = None THEN Rested
                   ELSE ResolveMiniGame(setup, game, TRUE)
          IN  /\ [game' EXCEPT !.history = <<>>] = [g EXCEPT !.history = <<>>]
              /\ Len(game'.history) = Len(game.history)
              /\ state' = IF Playing THEN state ELSE "RUNNING"
              /\ UNCHANGED <<setup, revealStep, clock, end>>
  <2> SUFFICES ASSUME SInv, Crash, Exact, ~dropped, setup.teams > 0,
                      NEW l, l = [t \in 1..setup.teams |-> createdAt],
                      NEW g, g = IF ~Playing THEN Restarted(game, l)
                                 ELSE IF game.pendingMini = None THEN Rested
                                 ELSE ResolveMiniGame(setup, game, TRUE)
               PROVE  /\ Blank(game') = Blank(g)
                      /\ Len(game'.history) = Len(game.history)
                      /\ state' = IF Playing THEN state ELSE "RUNNING"
                      /\ UNCHANGED <<setup, revealStep, clock, end>>
    BY DEF Blank, Restarted
  <2>1. PICK h : h = Replay(saved.row.setup, RowStart, saved.events)
    OBVIOUS
  <2>2. saved # None /\ IF h = None THEN NewRoom ELSE Recovered(h)
    BY <2>1, CrashRecovers
  <2>3. setup # NoTeams
    BY DEF NoTeams
  <2>4. ASSUME NEW r, Recovered(r), state # "SETUP"
        PROVE  UNCHANGED <<setup, revealStep, clock, end>>
               /\ (state \in {"RUNNING", "ENDED", "REVEAL"} => state' = state)
    BY <2>2, <2>4, RowOfPlay DEF Recovered, RowTells, clock, end
  <2>5. CASE ~Playing
    <3>1. /\ Recovered(Restarted(game, l)) /\ game'.history = game.history
          /\ state' = "RUNNING" /\ state # "SETUP"
      BY <2>5, WaitingCrash DEF Playing
    <3>2. game' = g
      BY <2>5, <3>1 DEF Recovered
    <3>3. UNCHANGED <<setup, revealStep, clock, end>>
      BY <2>4, <3>1
    <3> QED BY <2>5, <3>1, <3>2, <3>3
  <2>6. CASE Playing /\ game.pendingMini = None
    <3>1. h = RestedOf(game) /\ h # None /\ h.history = game.history
      BY <2>1, <2>2, <2>3, <2>6, ExactReplay DEF Playing
    <3>2. Recovered(h) /\ state \in {"RUNNING", "ENDED", "REVEAL"} /\ state # "SETUP" /\ game' = h
      BY <2>2, <2>6, <3>1 DEF Playing, Recovered
    <3>3. h = g
      BY <2>6, <3>1 DEF Rested, RestedOf
    <3>4. UNCHANGED <<setup, revealStep, clock, end>> /\ state' = state
      BY <2>4, <3>2
    <3> QED BY <2>6, <3>1, <3>2, <3>3, <3>4
  <2>7. CASE Playing /\ game.pendingMini # None
    <3>1. /\ h # None /\ Blank(h) = Blank(ResolveMiniGame(setup, game, TRUE))
          /\ Len(h.history) = Len(game.history)
      BY <2>1, <2>2, <2>3, <2>7, WonReplay DEF Playing
    <3>2. Recovered(h) /\ state \in {"RUNNING", "ENDED", "REVEAL"} /\ state # "SETUP" /\ game' = h
      BY <2>2, <2>7, <3>1 DEF Playing, Recovered
    <3>3. g = ResolveMiniGame(setup, game, TRUE)
      BY <2>7
    <3>4. Blank(h) = Blank(g)
      BY <3>1, <3>3
    <3>5. UNCHANGED <<setup, revealStep, clock, end>> /\ state' = state
      BY <2>4, <3>2
    <3> QED BY <2>7, <3>1, <3>2, <3>4, <3>5
  <2> QED BY <2>5, <2>6, <2>7
<1> QED BY <1>1, StoreInvariance, PTL DEF StoreSpec, CrashResumesPlay
=============================================================================
