------------------------------ MODULE YutRules ------------------------------
(***************************************************************************)
(* The rules of yutnori/src/engine: what a throw, a move, a capture, a     *)
(* mini-game and a replay do to a game.  Pure operators, no state.         *)
(*                                                                         *)
(* A Room of the code is split in two, along the line setupOf() draws:     *)
(*   c  the setup of a game that no turn event can determine:              *)
(*      [teams, malPerTeam, miniGames, captureDuel]                        *)
(*   g  the game, which replaying the turn events rebuilds:                *)
(*      [pos, finishes, miniWins, lastAt, turn, queue, pendingThrow,       *)
(*       pendingMini, history]                                             *)
(* (The lifecycle and the clock, also part of the setup, are variables of  *)
(* module Yutnori.)  A team is its index in the turn order, 1-based, and a *)
(* mal is the pair <<team, number>> its id spells.  Names, colours and     *)
(* rosters are left out.  So is finishedAt: nothing in the code ever sets  *)
(* it to anything but null, hence the end "allFinished" cannot be reached. *)
(***************************************************************************)
EXTENDS YutBoard, Sequences, FiniteSets

CONSTANTS
    None,             \* null in the code
    MiniGames         \* the entries of the mini-game roulette

(* null is no number, and no mini-game in progress (see MiniRecords).      *)
ASSUME NoneAssumption ==
    /\ None \notin Nat
    /\ None \notin [team : Nat, mal : Nat \X Nat, station : OnBoard,
                    game : MiniGames \cup {None}, vs : Nat \cup {None}]

SetupRecords == [teams : Nat, malPerTeam : {1, 2}, miniGames : BOOLEAN, captureDuel : BOOLEAN]

TeamIds(c) == 1..c.teams
Mals(c)    == TeamIds(c) \X (1..c.malPerTeam)

(* Where a mal may rest: one that gets home starts over.                   *)
Resting == {WAITING} \cup OnBoard

CandidateRecords(c) ==
    [mal : Mals(c), from : Resting, to : Nodes, captures : SUBSET Mals(c)]

Outcomes == [game : MiniGames \cup {None}, success : BOOLEAN]

EventRecords(c) ==
    [seq : Nat, team : TeamIds(c), roll : Rolls, mal : Mals(c), from : Resting, to : Nodes,
     captures : SUBSET Mals(c), bonus : 0..2, finished : BOOLEAN, at : Nat,
     mini : Outcomes \cup {None}]

ThrowRecords(c) ==
    [team : TeamIds(c), roll : Rolls, at : Nat, candidates : SUBSET CandidateRecords(c)]

MiniRecords(c) ==
    [team : TeamIds(c), mal : Mals(c), station : OnBoard, game : MiniGames \cup {None},
     vs : TeamIds(c) \cup {None}]

GameRecords(c) ==
    [pos          : [Mals(c) -> Resting],
     finishes     : [TeamIds(c) -> Nat],
     miniWins     : [TeamIds(c) -> Nat],
     lastAt       : [TeamIds(c) -> Nat],
     turn         : Nat,
     queue        : Nat,
     pendingThrow : ThrowRecords(c) \cup {None},
     pendingMini  : MiniRecords(c) \cup {None},
     history      : Seq(EventRecords(c))]

(* In a room with this setup null is none of the values it stands in for.   *)
NoneApart(c) ==
    None \notin Outcomes /\ None \notin ThrowRecords(c) /\ None \notin GameRecords(c)

(* A room at the moment START was applied: nobody on the board and the first
   team owed one throw.                                                    *)
FreshGame(c, at) ==
    [pos          |-> [m \in Mals(c) |-> WAITING],
     finishes     |-> [t \in TeamIds(c) |-> 0],
     miniWins     |-> [t \in TeamIds(c) |-> 0],
     lastAt       |-> [t \in TeamIds(c) |-> at],
     turn         |-> 1,
     queue        |-> 1,
     pendingThrow |-> None,
     pendingMini  |-> None,
     history      |-> <<>>]

-----------------------------------------------------------------------------
(* Legal moves *)

VictimsOnRing(g, team, to) ==       \* mutant: the stations of the old board only
    IF to \in 1..19 THEN {x \in DOMAIN g.pos : x[1] # team /\ g.pos[x] = to} ELSE {}

Victims(g, team, to) ==
    IF to \in OnBoard THEN {x \in DOMAIN g.pos : x[1] # team /\ g.pos[x] = to} ELSE {}

Candidate(g, m, to) ==
    [mal |-> m, from |-> g.pos[m], to |-> to, captures |-> Victims(g, m[1], to)]

(* Every move the current team may make with this roll.  The set stands for
   the code's list: (mal, to) names a candidate.                           *)
Candidates(c, g, roll) ==
    UNION {{Candidate(g, m, to) : to \in Destinations(g.pos[m], ROLL_STEPS[roll])} :
             m \in {x \in Mals(c) : x[1] = g.turn /\ g.pos[x] # HOME}}

-----------------------------------------------------------------------------
(* The turn *)

IsFinished(c, g, t) == \A j \in 1..c.malPerTeam : g.pos[<<t, j>>] = HOME

(* The next team, in turn order, with a mal left to move.                  *)
NextTeam(c, g) ==
    LET after(k) == ((g.turn - 1 + k) % c.teams) + 1
        live     == {k \in 1..c.teams : ~IsFinished(c, g, after(k))}
    IN  IF live = {} THEN g.turn
        ELSE after(CHOOSE k \in live : \A l \in live : k <= l)

PassTurnNoWrap(c, g) == [g EXCEPT !.turn = @ + 1, !.queue = 1]      \* mutant
PassTurnKept(c, g)   == [g EXCEPT !.turn = NextTeam(c, g), !.queue = @ + 1]  \* mutant

PassTurn(c, g) == [g EXCEPT !.turn = NextTeam(c, g), !.queue = 1]

AdvanceHeld(c, g) ==                \* mutant: the turn stays when its throws are spent
    IF IsFinished(c, g, g.turn) THEN PassTurn(c, g) ELSE g

(* The tail of a completed move: honour the throws still owed, or pass the
   turn.  A team with nothing left to move loses what it is owed.          *)
AdvanceAfterMove(c, g) ==
    IF g.queue = 0 \/ IsFinished(c, g, g.turn) THEN PassTurn(c, g) ELSE g

IsMidTurnPending(g) == g.pendingThrow # None \/ g.pendingMini # None    \* mutant

(* Is the current team part-way through its turn?                          *)
IsMidTurn(g) ==
    \/ g.pendingThrow # None
    \/ g.pendingMini # None
    \/ g.history # <<>> /\ g.history[Len(g.history)].team = g.turn

-----------------------------------------------------------------------------
(* A move *)

(* Will a duel of the two teams' representatives decide the catch?  Then the
   caught mals stay where they are until it is judged.                     *)
WillDuel(c, cand) == c.captureDuel /\ cand.captures # {} /\ cand.to # HOME

Bonus(roll, cand) == (IF roll \in BONUS_ROLLS THEN 1 ELSE 0)
                     + (IF cand.captures # {} THEN 1 ELSE 0)

TurnEvent(g, roll, cand, now) ==
    [seq |-> Len(g.history) + 1, team |-> g.turn, roll |-> roll, mal |-> cand.mal,
     from |-> cand.from, to |-> cand.to, captures |-> cand.captures,
     bonus |-> Bonus(roll, cand), finished |-> cand.to = HOME, at |-> now,
     mini |-> None]

SentHomeAtOnce(c, cand) == cand.captures                            \* mutant
SentHome(c, cand) == IF WillDuel(c, cand) THEN {} ELSE cand.captures

(* A mal that gets home starts over.                                       *)
Landing(cand) == IF cand.to = HOME THEN WAITING ELSE cand.to

(* The mal moves (home is a lap: it is counted and the mal starts over), the
   caught go back unless a duel is due, the bonus is owed, the event logged. *)
Moved(c, g, roll, cand, now) ==
    [g EXCEPT
       !.pos          = [m \in DOMAIN @ |-> IF m = cand.mal THEN Landing(cand)
                                            ELSE IF m \in SentHome(c, cand) THEN WAITING
                                            ELSE @[m]],
       !.finishes[g.turn] = @ + (IF cand.to = HOME THEN 1 ELSE 0),
       !.lastAt[g.turn]   = now,
       !.queue        = @ + Bonus(roll, cand),
       !.pendingThrow = None,
       !.history      = Append(@, TurnEvent(g, roll, cand, now))]

MiniGame(cand, duel) ==
    [team |-> cand.mal[1], mal |-> cand.mal, station |-> cand.to, game |-> None, vs |-> duel]

(* The team whose representative defends: the first in turn order that has
   a mal caught.                                                           *)
VsTeam(cand) ==
    CHOOSE t \in {x[1] : x \in cand.captures} : \A x \in cand.captures : t <= x[1]

CommitMove(c, g, roll, cand, now) ==
    LET moved == Moved(c, g, roll, cand, now)
    IN  IF WillDuel(c, cand)
        THEN [moved EXCEPT !.pendingMini = MiniGame(cand, VsTeam(cand))]
        ELSE IF c.miniGames /\ cand.to \in MINIGAME_STATIONS
             THEN [moved EXCEPT !.pendingMini = MiniGame(cand, None)]
             ELSE AdvanceAfterMove(c, moved)

(* THROW: one throw less is owed; a single candidate is applied at once and
   several wait for a MOVE.                                                *)
CanThrow(g) == g.pendingMini = None /\ g.pendingThrow = None /\ g.queue > 0

ThrowStick(c, g, roll, now) ==
    LET thrown == [g EXCEPT !.queue = @ - 1]
        cands  == Candidates(c, g, roll)
    IN  IF \E only \in cands : cands = {only}
        THEN CommitMove(c, thrown, roll, CHOOSE only \in cands : TRUE, now)
        ELSE [thrown EXCEPT !.pendingThrow = [team |-> g.turn, roll |-> roll, at |-> now,
                                              candidates |-> cands]]

-----------------------------------------------------------------------------
(* A mini-game or duel is judged *)

Stamped(g, success) ==
    [g.history EXCEPT ![Len(g.history)].mini = [game |-> g.pendingMini.game, success |-> success]]

WinnersAttack(p, success) == IF success THEN {p.team} ELSE {}        \* mutant

(* +1 to the winner: the acting team, or the defender of a lost duel.      *)
Winners(p, success) ==
    IF success THEN {p.team} ELSE IF p.vs # None THEN {p.vs} ELSE {}

(* Where the mals stand afterwards.  A won duel sends the caught home; a
   lost one puts every mal of the move back (revertMove); a lost challenge
   puts the mal back by one station.                                       *)
JudgedPos(g, ev, duel, success) ==
    [m \in DOMAIN g.pos |->
        IF success
        THEN IF duel /\ m \in ev.captures THEN WAITING ELSE g.pos[m]
        ELSE IF m = ev.mal
             THEN (IF duel THEN ev.from ELSE StepBefore(ev.from, ROLL_STEPS[ev.roll], ev.to))
             ELSE IF duel /\ m \in ev.captures THEN ev.to ELSE g.pos[m]]

ResolveMiniGame(c, g, success) ==
    LET ev   == g.history[Len(g.history)]
        p    == g.pendingMini
        done == [g EXCEPT
                   !.pos         = JudgedPos(g, ev, p.vs # None, success),
                   !.miniWins    = [t \in DOMAIN @ |->
                                      @[t] + (IF t \in Winners(p, success) THEN 1 ELSE 0)],
                   !.pendingMini = None,
                   !.history     = Stamped(g, success)]
    IN  IF success THEN AdvanceAfterMove(c, done) ELSE PassTurn(c, done)

SpinMiniGame(g, gameId) == [g EXCEPT !.pendingMini.game = gameId]

-----------------------------------------------------------------------------
(* Replay: undo and crash recovery are this one function.  The log keeps   *)
(* decisions (which roll, which mal); the rules recompute the rest.  The   *)
(* result is None where the reducer throws on a logged decision.           *)

ReplayThrow(c, g, ev) ==
    IF CanThrow(g) /\ Candidates(c, g, ev.roll) # {}
    THEN ThrowStick(c, g, ev.roll, ev.at) ELSE None

ReplayMoveByMal(c, g, ev) ==        \* mutant: a branch station's two ways are not told apart
    IF g.pendingThrow = None THEN g
    ELSE LET picked == {x \in g.pendingThrow.candidates : x.mal = ev.mal}
         IN  IF picked = {} THEN None
             ELSE CommitMove(c, g, g.pendingThrow.roll, CHOOSE x \in picked : TRUE, ev.at)

ReplayMove(c, g, ev) ==
    IF g.pendingThrow = None THEN g
    ELSE LET picked == {x \in g.pendingThrow.candidates : x.mal = ev.mal /\ x.to = ev.to}
         IN  IF picked = {} THEN None
             ELSE CommitMove(c, g, g.pendingThrow.roll, CHOOSE x \in picked : TRUE, ev.at)

(* An event with no outcome recorded resolves as a success.                *)
ReplayMini(c, g, ev) ==
    IF g.pendingMini = None THEN g
    ELSE IF ev.mini = None THEN ResolveMiniGame(c, g, TRUE)
         ELSE ResolveMiniGame(c, SpinMiniGame(g, ev.mini.game), ev.mini.success)

ReplayEvent(c, g, ev) ==
    LET thrown == IF g = None THEN None ELSE ReplayThrow(c, g, ev)
        moved  == IF thrown = None THEN None ELSE ReplayMove(c, thrown, ev)
    IN  IF moved = None THEN None ELSE ReplayMini(c, moved, ev)

Replay(c, startedAt, events) ==
    LET run[i \in 0..Len(events)] ==
          IF i = 0 THEN FreshGame(c, startedAt)
          ELSE ReplayEvent(c, run[i-1], events[i])
    IN  run[Len(events)]

ButLast(events) == SubSeq(events, 1, Len(events) - 1)

-----------------------------------------------------------------------------
(* What holds of every game, stated of the room by Yutnori                 *)

Last(h) == h[Len(h)]

(* A pending throw leaves a choice, and its candidates are those a fresh
   computation gives.                                                      *)
PendingThrowMatches(c, g) ==
    LET t == g.pendingThrow
    IN  t # None => /\ g.pendingMini = None
                    /\ t.team = g.turn
                    /\ t.candidates = Candidates(c, g, t.roll)
                    /\ \A only \in t.candidates : t.candidates # {only}

(* A mini-game in progress is about the last move logged, whose mal stands on
   its station; in a duel those caught stand there too, one at least of them
   of the team that defends.                                               *)
PendingMiniMatches(g) ==
    LET p == g.pendingMini
        e == Last(g.history)
    IN  p # None =>
           /\ g.history # <<>>
           /\ e.mini = None
           /\ e.team = p.team /\ e.mal = p.mal /\ e.to = p.station
           /\ p.team = g.turn /\ p.mal[1] = p.team
           /\ g.pos[p.mal] = p.station
           /\ p.vs # None =>
                 /\ p.vs # p.team
                 /\ \E x \in e.captures : x[1] = p.vs
                 /\ \A x \in e.captures : x[1] # p.team /\ g.pos[x] = p.station

(* Mals of different teams on one station.                                 *)
Shared(g, x, y) == x[1] # y[1] /\ g.pos[x] = g.pos[y] /\ g.pos[x] \in OnBoard

(* Teams share a station only in a duel, the mal that caught with those it
   caught; and should it lose, the station it came from is still free.     *)
SharedOnlyInDuel(c, g) ==
    LET p == g.pendingMini
        e == Last(g.history)
    IN  /\ \A x, y \in Mals(c) :
              Shared(g, x, y) => p # None /\ g.pos[x] = p.station /\ p.mal \in {x, y}
        /\ p # None =>
              /\ p.vs # None
              /\ \A x \in Mals(c) : x[1] # p.team =>
                    /\ g.pos[x] = p.station => x \in e.captures
                    /\ g.pos[x] = e.from => e.from = WAITING

Count(h, P(_)) == Cardinality({i \in 1..Len(h) : P(h[i])})

IsDuel(c, e) == c.captureDuel /\ e.captures # {} /\ ~e.finished

(* The log tells the scores: a lap is a move home, a mini-game point a
   challenge won or a duel won on either side.                             *)
ScoresTold(c, g) ==
    \A t \in TeamIds(c) :
        LET lap(e) == e.finished /\ e.team = t
            won(e) == /\ e.mini # None
                      /\ IF e.mini.success THEN e.team = t ELSE IsDuel(c, e) /\ VsTeam(e) = t
        IN  /\ g.finishes[t] = Count(g.history, lap)
            /\ g.miniWins[t] = Count(g.history, won)

(* The throws a team has left after the moves i..j of one turn.            *)
Owed(h, i, j) == Cardinality({k \in i..j : h[k].roll \in BONUS_ROLLS})
                 + Cardinality({k \in i..j : h[k].captures # {}}) - (j - i)

(* Are i..j the moves of one whole turn, as far as it got?                 *)
IsTurn(h, i, j) ==
    /\ \A k \in i..j : h[k].team = h[i].team
    /\ i > 1 => h[i-1].team # h[i].team
    /\ j < Len(h) => h[j+1].team # h[j].team

Open(g) == g.queue + (IF g.pendingThrow = None THEN 0 ELSE 1)
Lost(e) == e.mini # None /\ ~e.mini.success

(* The log tells the throws: in every turn but the current one they are spent,
   or the turn was lost, and the current one has what is left.  With throws
   thrown away (cheated), it may have less.                                *)
ThrowsTold(g, cheated) ==
    LET h == g.history IN
    \A i, j \in 1..Len(h) :
        i <= j /\ IsTurn(h, i, j) =>
            LET owed == Owed(h, i, j)
            IN  IF j = Len(h) /\ (g.turn = h[j].team \/ g.pendingMini # None)
                THEN Open(g) <= owed /\ (cheated \/ Open(g) = owed)
                ELSE owed >= 0 /\ (cheated \/ Lost(h[j]) \/ owed = 0)
=============================================================================
