------------------------------ MODULE YutStore ------------------------------
(***************************************************************************)
(* The event log behind a yutnori room (yutnori/src/persist.ts) and what a *)
(* restarted host makes of it (master/src/host/persist/recover.ts).  The   *)
(* room's setup is one row; its turn events are rows of their own, kept by *)
(* sequence number and never updated.  The host writes on every action it  *)
(* commits, in the same turn of its event loop, so an action and its write *)
(* are one step.                                                           *)
(***************************************************************************)
EXTENDS Yutnori

VARIABLE
    saved         \* the log: [row, events], or None before the first write

svars == <<vars, saved>>

(* What the log may hold of a room with this setup; null is no log.        *)
LogRecords(c) ==
    [row    : [setup : {c}, state : RoomStates, revealStep : 0..MAX_REVEAL_STEP,
               timeLimit : Nat, startedAt : Times, pausedAt : Times, totalPaused : Nat,
               endedAt : Times, endReason : {"master", "timeup", None}, createdAt : Nat],
     events : Seq(EventRecords(c))]

ASSUME LogAssumption ==
    /\ NoneApart(NoTeams)
    /\ \A c \in Setups \cup {NoTeams} : None \notin LogRecords(c)

SetupOfNoPause == [setup |-> setup, state |-> state, revealStep |-> revealStep,   \* mutant
            timeLimit |-> timeLimit, startedAt |-> startedAt, pausedAt |-> None,
            totalPaused |-> totalPaused, endedAt |-> endedAt, endReason |-> endReason,
            createdAt |-> createdAt]

(* setupOf(): everything about the room that no turn event determines.     *)
SetupOf == [setup |-> setup, state |-> state, revealStep |-> revealStep,
            timeLimit |-> timeLimit, startedAt |-> startedAt, pausedAt |-> pausedAt,
            totalPaused |-> totalPaused, endedAt |-> endedAt, endReason |-> endReason,
            createdAt |-> createdAt]

WriteEventsNoDelete(rows, history) ==       \* mutant: an undone event's row stays
    [i \in 1..Later(Len(rows), Len(history)) |-> IF i <= Len(rows) THEN rows[i] ELSE history[i]]

(* Rows past the tail are deleted, rows missing are inserted, and a row that
   is there stays as it is (ON CONFLICT DO NOTHING).                       *)
WriteEvents(rows, history) ==
    [i \in 1..Len(history) |-> IF i <= Len(rows) THEN rows[i] ELSE history[i]]

Rows == IF saved = None THEN <<>> ELSE saved.events

WriteState == saved' = [row |-> SetupOf', events |-> WriteEvents(Rows, game'.history)]

-----------------------------------------------------------------------------
StoreInit == Init /\ saved = None

(* The room as newRoom() makes it.                                         *)
NewRoom ==
    /\ setup' = NoTeams
    /\ game' = Waiting(NoTeams, now)
    /\ state' = "SETUP"
    /\ revealStep' = 0
    /\ timeLimit' = DefaultLimit
    /\ startedAt' = None /\ pausedAt' = None /\ totalPaused' = 0
    /\ endedAt' = None /\ endReason' = None
    /\ createdAt' = now
    /\ dropped' = FALSE
    /\ UNCHANGED now

Act == (MasterAction \/ Tick) /\ Commit /\ WriteState

(* A tick that ends nothing is an action too, and is written.              *)
IdleTick ==
    /\ state = "RUNNING"
    /\ ~Overdue
    /\ UNCHANGED vars
    /\ WriteState

(* game:reset, the host's: the room starts over, and so does its log.      *)
Reset == NewRoom /\ WriteState

TimePasses == Clock /\ UNCHANGED saved

(* The process dies and comes back: the room is what the log replays to, or
   a new one where the replay throws.  replay() gives a RUNNING room for a
   row that says SETUP or LOBBY.                                           *)
Crash ==
    /\ saved # None
    /\ LET row == saved.row
           at  == IF row.startedAt = None THEN row.createdAt ELSE row.startedAt
           g   == Replay(row.setup, at, saved.events)
       IN  IF g = None
           THEN NewRoom
           ELSE /\ game' = g
                /\ setup' = row.setup
                /\ state' = IF row.state \in {"SETUP", "LOBBY"} THEN "RUNNING" ELSE row.state
                /\ revealStep' = row.revealStep
                /\ timeLimit' = row.timeLimit
                /\ startedAt' = row.startedAt
                /\ pausedAt' = row.pausedAt
                /\ totalPaused' = row.totalPaused
                /\ endedAt' = row.endedAt
                /\ endReason' = row.endReason
                /\ createdAt' = row.createdAt
                /\ dropped' = FALSE
                /\ UNCHANGED now
    /\ UNCHANGED saved

StoreNext == Act \/ IdleTick \/ Reset \/ TimePasses \/ Crash

StoreSpec == StoreInit /\ [][StoreNext]_svars

-----------------------------------------------------------------------------
(* What the log is for *)

Exact == Rows = game.history

Playing == state \in {"RUNNING", "ENDED", "REVEAL"}

(* An exact log stays exact: through undos, endings taken back, crashes and
   resets.  The exceptions are a mini-game that is judged (or lost in a crash)
   after its move was logged, and an ending that threw a throw away.       *)
LogStaysExact ==
    [][ Exact /\ ~dropped =>
          Exact' \/ (game.pendingMini # None /\ game'.pendingMini = None) ]_svars

(* A crash of a room with an exact log loses the throw nobody has moved on yet,
   counts a challenge in progress as won, and changes nothing else: not the
   board, the turn, the scores, the clock.  The exception is a room that
   was not started: it comes back RUNNING, with a throw to make (and its
   clock of arrivals set to the room's creation), against
   persistence.ts:97 (the loss of a lifecycle change would "leave a restarted
   host in the wrong state entirely").                                      *)
CrashResumesPlay ==
    [][ Crash /\ Exact /\ ~dropped /\ setup.teams > 0 =>
          LET g == IF ~Playing THEN [game EXCEPT !.queue = 1, !.lastAt = [t \in 1..setup.teams |-> createdAt]]
                   ELSE IF game.pendingMini = None THEN Rested
                   ELSE ResolveMiniGame(setup, game, TRUE)
          IN  /\ [game' EXCEPT !.history = <<>>] = [g EXCEPT !.history = <<>>]
              /\ Len(game'.history) = Len(game.history)
              /\ state' = IF Playing THEN state ELSE "RUNNING"
              /\ UNCHANGED <<setup, revealStep, clock, end>> ]_svars

(* types.ts:111 says of an event's mini-game outcome: "Recorded so the random
   pick + judgment survive replay/recovery."  So a restart in the middle of a
   game, with nothing pending, finds the mals and the points where they were. *)
JudgmentSurvivesCrash ==
    [][ Crash /\ Playing /\ NothingPending /\ ~dropped =>
          game'.pos = game.pos /\ game'.miniWins = game.miniWins ]_svars
=============================================================================
