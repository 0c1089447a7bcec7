--------------------------- MODULE YutRules_proofs ---------------------------
(***************************************************************************)
(* Facts about the operators of YutBoard and YutRules: what each of them   *)
(* returns, for every setup, game and throw; and what the log of a game is *)
(* worth: it replays to the game it came from, it tells the scores, and it *)
(* accounts for every throw.  Yutnori_proofs builds the invariants of the  *)
(* room on them.                                                           *)
(***************************************************************************)
EXTENDS YutRules, WellFoundedInduction, FiniteSetTheorems, SequenceTheorems, TLAPS

(* A non-empty set of natural numbers has a least element: the induction
   principle everything below uses.                                        *)
LEMMA LeastNatural ==
    ASSUME NEW S, S \subseteq Nat, S # {}
    PROVE  \E n \in S : \A m \in S : n <= m
<1>1. IsWellFoundedOn(OpToRel(<, Nat), Nat)
  BY NatLessThanWellFounded
<1>2. PICK n \in S : \A m \in S : ~(<<m, n>> \in OpToRel(<, Nat))
  BY <1>1, WFMin
<1>3. ASSUME NEW m \in S PROVE n <= m
  <2>1. ~(m < n)
    BY <1>2 DEF OpToRel
  <2> QED BY <2>1
<1> QED BY <1>3

-----------------------------------------------------------------------------
(* The board *)

LEMMA NextOnBoard ==
    ASSUME NEW n \in Nodes
    PROVE  DefaultNext(n) \in OnBoard \cup {HOME}
BY DEF DefaultNext, Nodes, OnBoard, WAITING, HOME, CENTER

LEMMA FirstOnBoard ==
    ASSUME NEW n \in Nodes, NEW first \in FirstOptions(n)
    PROVE  first \in OnBoard \cup {HOME}
BY NextOnBoard DEF FirstOptions, Nodes, OnBoard, WAITING, HOME, CENTER

LEMMA HomeStays == DefaultNext(HOME) = HOME
BY DEF DefaultNext, HOME, CENTER

(* A walk ends on a station or at home.                                    *)
LEMMA WalkOnBoard ==
    ASSUME NEW first \in OnBoard \cup {HOME}, NEW steps \in 1..5
    PROVE  Walk(first, steps) \in OnBoard \cup {HOME}
<1> DEFINE B == OnBoard \cup {HOME}
           n2 == DefaultNext(first)
           n3 == DefaultNext(n2)
           n4 == DefaultNext(n3)
           n5 == DefaultNext(n4)
<1>1. B \subseteq Nodes
  BY DEF Nodes
<1>2. n2 \in B BY <1>1, NextOnBoard
<1>3. n3 \in B BY <1>1, <1>2, NextOnBoard
<1>4. n4 \in B BY <1>1, <1>3, NextOnBoard
<1>5. n5 \in B BY <1>1, <1>4, NextOnBoard
<1>6. Walk(first, steps) = <<first, n2, n3, n4, n5>>[steps]
  BY DEF Walk
<1> HIDE DEF n2, n3, n4, n5
<1>7. steps = 1 \/ steps = 2 \/ steps = 3 \/ steps = 4 \/ steps = 5
  OBVIOUS
<1> QED BY <1>2, <1>3, <1>4, <1>5, <1>6, <1>7

(* A walk that has got home stays there: one step less of a walk that ends
   on a station is on a station too.                                       *)
LEMMA WalkBack ==
    ASSUME NEW first \in OnBoard \cup {HOME}, NEW steps \in 2..5,
           Walk(first, steps) # HOME
    PROVE  Walk(first, steps - 1) \in OnBoard
<1> DEFINE n2 == DefaultNext(first)
           n3 == DefaultNext(n2)
           n4 == DefaultNext(n3)
           n5 == DefaultNext(n4)
           w == <<first, n2, n3, n4, n5>>
<1>1. Walk(first, steps) = w[steps] /\ Walk(first, steps - 1) = w[steps - 1]
  BY DEF Walk
<1>2. w[steps] = DefaultNext(w[steps - 1])
  <2>1. steps = 2 \/ steps = 3 \/ steps = 4 \/ steps = 5 OBVIOUS
  <2> HIDE DEF n2, n3, n4, n5
  <2>2. n2 = DefaultNext(first) /\ n3 = DefaultNext(n2) /\ n4 = DefaultNext(n3)
        /\ n5 = DefaultNext(n4)
    BY DEF n2, n3, n4, n5
  <2> QED BY <2>1, <2>2
<1>3. w[steps - 1] # HOME
  BY <1>1, <1>2, HomeStays
<1>4. steps - 1 \in 1..5 OBVIOUS
<1> QED BY <1>1, <1>3, <1>4, WalkOnBoard

LEMMA StepsOfRoll ==
    ASSUME NEW roll \in Rolls
    PROVE  ROLL_STEPS[roll] \in 1..5
BY DEF Rolls, ROLL_STEPS

LEMMA DestinationsOnBoard ==
    ASSUME NEW from \in Resting, NEW roll \in Rolls
    PROVE  /\ Destinations(from, ROLL_STEPS[roll]) \subseteq OnBoard \cup {HOME}
           /\ Destinations(from, ROLL_STEPS[roll]) # {}
<1>1. from \in Nodes /\ from # HOME
  BY DEF Resting, Nodes, OnBoard, WAITING, HOME, CENTER
<1>2. ROLL_STEPS[roll] \in 1..5
  BY StepsOfRoll
<1>3. FirstOptions(from) # {}
  BY DEF FirstOptions
<1> QED BY <1>1, <1>2, <1>3, FirstOnBoard, WalkOnBoard DEF Destinations

(* Where a lost challenge puts a mal back, it may rest.                    *)
LEMMA StepBeforeRests ==
    ASSUME NEW from \in Resting, NEW roll \in Rolls, NEW to \in OnBoard
    PROVE  StepBefore(from, ROLL_STEPS[roll], to) \in Resting
<1> DEFINE steps == ROLL_STEPS[roll]
           ways == {first \in FirstOptions(from) : Walk(first, steps) = to}
<1>1. steps \in 1..5
  BY StepsOfRoll
<1>2. CASE steps <= 1 \/ ways = {}
  BY <1>2 DEF StepBefore
<1>3. CASE ~(steps <= 1 \/ ways = {})
  <2> DEFINE first == CHOOSE f \in ways : TRUE
  <2>1. first \in FirstOptions(from) /\ Walk(first, steps) = to
    BY <1>3
  <2>2. from \in Nodes
    BY DEF Resting, Nodes
  <2>3. first \in OnBoard \cup {HOME}
    BY <2>1, <2>2, FirstOnBoard
  <2>4. to # HOME
    BY DEF OnBoard, HOME, CENTER
  <2>5. steps \in 2..5
    BY <1>1, <1>3
  <2>6. StepBefore(from, steps, to) = Walk(first, steps - 1)
    BY <1>3 DEF StepBefore
  <2> HIDE DEF first, steps
  <2>7. Walk(first, steps - 1) \in OnBoard
    BY <2>1, <2>3, <2>4, <2>5, WalkBack
  <2> QED BY <2>6, <2>7 DEF Resting, steps
<1> QED BY <1>2, <1>3

-----------------------------------------------------------------------------
(* Games: the types *)

Setups1 == {c \in SetupRecords : c.teams >= 1}      \* setups somebody can play

(* A game with nothing pending, and no two teams on one station unless there
   are station challenges: what a turn begins and a move ends with.        *)
Clear(c, g) ==
    /\ g \in GameRecords(c)
    /\ g.turn \in TeamIds(c)
    /\ g.pendingMini = None
    /\ ~c.miniGames => \A x, y \in Mals(c) : ~Shared(g, x, y)

GameInv(c, g) ==
    /\ g \in GameRecords(c)
    /\ g.turn \in TeamIds(c)
    /\ PendingThrowMatches(c, g)
    /\ PendingMiniMatches(g)
    /\ ~c.miniGames => SharedOnlyInDuel(c, g)

LEMMA FreshClear ==
    ASSUME NEW c \in Setups1, NEW at \in Nat
    PROVE  GameInv(c, FreshGame(c, at))
<1> DEFINE g == FreshGame(c, at)
<1>1. c.teams \in Nat /\ c.teams >= 1
  BY DEF Setups1, SetupRecords
<1>2. g \in GameRecords(c)
  BY <1>1 DEF FreshGame, GameRecords, Resting, WAITING
<1>3. g.turn \in TeamIds(c)
  BY <1>1 DEF FreshGame, TeamIds
<1>4. g.pendingThrow = None /\ g.pendingMini = None /\ g.pos = [m \in Mals(c) |-> WAITING]
  BY DEF FreshGame
<1>5. WAITING \notin OnBoard
  BY DEF WAITING, OnBoard, CENTER
<1> SUFFICES GameInv(c, g)
  OBVIOUS
<1> HIDE DEF g
<1>6. PendingThrowMatches(c, g)
  BY <1>4 DEF PendingThrowMatches
<1>7. PendingMiniMatches(g)
  BY <1>4 DEF PendingMiniMatches
<1>8. SharedOnlyInDuel(c, g)
  BY <1>4, <1>5 DEF SharedOnlyInDuel, Shared
<1> QED BY <1>2, <1>3, <1>6, <1>7, <1>8 DEF GameInv

(* A mini-game in progress is told from none.                              *)
LEMMA MiniIsSome ==
    ASSUME NEW c \in Setups1, NEW p \in MiniRecords(c)
    PROVE  p # None
<1>1. TeamIds(c) \subseteq Nat /\ Mals(c) \subseteq Nat \X Nat
  BY DEF TeamIds, Mals, Setups1, SetupRecords
<1>2. p \in [team : Nat, mal : Nat \X Nat, station : OnBoard,
             game : MiniGames \cup {None}, vs : Nat \cup {None}]
  BY <1>1 DEF MiniRecords
<1> QED BY <1>2, NoneAssumption

(* What a candidate is.                                                    *)
LEMMA CandidateFacts ==
    ASSUME NEW c, NEW g \in GameRecords(c), NEW roll \in Rolls,
           NEW cand \in Candidates(c, g, roll)
    PROVE  /\ cand \in CandidateRecords(c)
           /\ cand.mal[1] = g.turn
           /\ cand.from = g.pos[cand.mal]
           /\ cand.to \in OnBoard \cup {HOME}
           /\ cand.captures = Victims(g, g.turn, cand.to)
<1>1. \E m \in Mals(c) : \E to \in Destinations(g.pos[m], ROLL_STEPS[roll]) :
         m[1] = g.turn /\ cand = Candidate(g, m, to)
  BY DEF Candidates
<1> PICK m \in Mals(c) : \E to \in Destinations(g.pos[m], ROLL_STEPS[roll]) :
         m[1] = g.turn /\ cand = Candidate(g, m, to)
  BY <1>1
<1>a. PICK to \in Destinations(g.pos[m], ROLL_STEPS[roll]) :
         m[1] = g.turn /\ cand = Candidate(g, m, to)
  OBVIOUS
<1>2. g.pos \in [Mals(c) -> Resting]
  BY DEF GameRecords
<1>3. g.pos[m] \in Resting
  BY <1>2
<1>4. to \in OnBoard \cup {HOME}
  BY <1>3, DestinationsOnBoard
<1>5. Victims(g, m[1], to) \subseteq Mals(c)
  BY <1>2 DEF Victims
<1>6. to \in Nodes
  BY <1>4 DEF Nodes
<1> QED BY <1>a, <1>3, <1>4, <1>5, <1>6 DEF Candidate, CandidateRecords

(* Every throw leaves the team to move something to do.                    *)
LEMMA CandidatesExist ==
    ASSUME NEW c \in Setups1, NEW g \in GameRecords(c), g.turn \in TeamIds(c), NEW roll \in Rolls
    PROVE  Candidates(c, g, roll) # {}
<1> DEFINE m == <<g.turn, 1>>
<1>1. m \in Mals(c)
  BY DEF Mals, Setups1, SetupRecords
<1>2. g.pos[m] \in Resting
  BY <1>1 DEF GameRecords
<1>3. g.pos[m] # HOME
  BY <1>2 DEF Resting, WAITING, OnBoard, HOME, CENTER
<1>4. PICK to : to \in Destinations(g.pos[m], ROLL_STEPS[roll])
  BY <1>2, DestinationsOnBoard
<1>5. m[1] = g.turn
  OBVIOUS
<1> HIDE DEF m
<1>6. Candidate(g, m, to) \in {Candidate(g, m, t) : t \in Destinations(g.pos[m], ROLL_STEPS[roll])}
  BY <1>4
<1>7. m \in {x \in Mals(c) : x[1] = g.turn /\ g.pos[x] # HOME}
  BY <1>1, <1>3, <1>5
<1>8. Candidate(g, m, to) \in Candidates(c, g, roll)
  BY <1>6, <1>7, Zenon DEF Candidates
<1> QED BY <1>8

(* The turn is always some team's.                                         *)
LEMMA NextTeamIsATeam ==
    ASSUME NEW c \in Setups1, NEW g \in GameRecords(c), g.turn \in TeamIds(c)
    PROVE  NextTeam(c, g) \in TeamIds(c)
<1> DEFINE n == c.teams
           after(k) == ((g.turn - 1 + k) % n) + 1
           live == {k \in 1..n : ~IsFinished(c, g, after(k))}
           first == CHOOSE k \in live : \A l \in live : k <= l
<1>1. n \in Nat /\ n >= 1
  BY DEF Setups1, SetupRecords
<1>2. CASE live = {}
  BY <1>2 DEF NextTeam
<1>3. CASE live # {}
  <2>1. \E k \in live : \A l \in live : k <= l
    <3>1. live \subseteq Nat
      BY <1>1
    <3> HIDE DEF live
    <3> QED BY <1>3, <3>1, LeastNatural
  <2>2. first \in live
    BY <2>1
  <2>3. first \in 1..n
    BY <2>2
  <2>4. NextTeam(c, g) = after(first)
    BY <1>3 DEF NextTeam
  <2> HIDE DEF first
  <2>5. g.turn - 1 + first \in Nat
    BY <2>3, <1>1 DEF TeamIds
  <2>6. (g.turn - 1 + first) % n \in 0..(n - 1)
    BY <1>1, <2>5
  <2> QED BY <2>4, <2>6, <1>1 DEF TeamIds
<1> QED BY <1>2, <1>3

(* Of the teams that have a mal caught, one is the first in turn order.    *)
LEMMA VsTeamIsCaught ==
    ASSUME NEW c \in SetupRecords, NEW cand, cand.captures \subseteq Mals(c), cand.captures # {}
    PROVE  /\ VsTeam(cand) \in TeamIds(c)
           /\ \E x \in cand.captures : x[1] = VsTeam(cand)
<1> DEFINE S == {x[1] : x \in cand.captures}
<1>1. S \subseteq TeamIds(c) /\ S # {}
  BY DEF Mals
<1>2. S \subseteq Nat
  BY <1>1 DEF TeamIds, SetupRecords
<1>3. \E t \in S : \A u \in S : t <= u
  <2> HIDE DEF S
  <2> QED BY <1>1, <1>2, LeastNatural
<1>4. \E t \in S : \A x \in cand.captures : t <= x[1]
  BY <1>3
<1>5. VsTeam(cand) \in S
  BY <1>4 DEF VsTeam
<1> QED BY <1>1, <1>5

-----------------------------------------------------------------------------
(* Games: what begins and ends a move *)

(* A game with nothing pending, as GameInv has it, is clear; and the converse. *)
LEMMA ClearFromInv ==
    ASSUME NEW c, NEW g, GameInv(c, g), g.pendingMini = None
    PROVE  Clear(c, g)
BY DEF GameInv, Clear, SharedOnlyInDuel

LEMMA InvFromClear ==
    ASSUME NEW c, NEW g, Clear(c, g), g.pendingThrow = None
    PROVE  GameInv(c, g)
<1>1. PendingThrowMatches(c, g)
  BY DEF PendingThrowMatches
<1>2. PendingMiniMatches(g)
  BY DEF PendingMiniMatches, Clear
<1>3. ~c.miniGames => SharedOnlyInDuel(c, g)
  BY DEF SharedOnlyInDuel, Clear
<1> QED BY <1>1, <1>2, <1>3 DEF GameInv, Clear

(* Passing the turn, or not, keeps a clear game clear.                     *)
LEMMA AdvanceClear ==
    ASSUME NEW c \in Setups1, NEW g, Clear(c, g), g.pendingThrow = None
    PROVE  /\ Clear(c, PassTurn(c, g)) /\ PassTurn(c, g).pendingThrow = None
           /\ Clear(c, AdvanceAfterMove(c, g)) /\ AdvanceAfterMove(c, g).pendingThrow = None
<1> DEFINE h == PassTurn(c, g)
<1>1. g \in GameRecords(c) /\ g.turn \in TeamIds(c)
  BY DEF Clear
<1>2. NextTeam(c, g) \in TeamIds(c)
  BY <1>1, NextTeamIsATeam
<1>3. NextTeam(c, g) \in Nat
  BY <1>2 DEF TeamIds
<1>4. h \in GameRecords(c) /\ h.turn = NextTeam(c, g) /\ h.pos = g.pos
      /\ h.pendingMini = g.pendingMini /\ h.pendingThrow = g.pendingThrow
  BY <1>1, <1>3 DEF PassTurn, GameRecords
<1> HIDE DEF h
<1>5. Clear(c, h)
  BY <1>2, <1>4 DEF Clear, Shared
<1> QED BY <1>4, <1>5 DEF AdvanceAfterMove, h

-----------------------------------------------------------------------------
(* A move *)

LEMMA TurnEventType ==
    ASSUME NEW c \in Setups1, NEW g, Clear(c, g), NEW roll \in Rolls,
           NEW cand \in Candidates(c, g, roll), NEW at \in Nat
    PROVE  TurnEvent(g, roll, cand, at) \in EventRecords(c)
<1>1. g \in GameRecords(c) /\ g.turn \in TeamIds(c)
  BY DEF Clear
<1>2. cand \in CandidateRecords(c)
  BY <1>1, CandidateFacts
<1>3. Len(g.history) + 1 \in Nat
  BY <1>1 DEF GameRecords
<1>4. Bonus(roll, cand) \in 0..2
  BY DEF Bonus
<1>5. cand.mal \in Mals(c) /\ cand.from \in Resting /\ cand.to \in Nodes
      /\ cand.captures \in SUBSET Mals(c)
  BY <1>2 DEF CandidateRecords
<1>6. (cand.to = HOME) \in BOOLEAN
  OBVIOUS
<1> QED BY <1>1, <1>3, <1>4, <1>5, <1>6 DEF TurnEvent, EventRecords

(* What a move does to the game, field by field.                           *)
LEMMA MovedFacts ==
    ASSUME NEW c \in Setups1, NEW g, Clear(c, g), NEW roll \in Rolls,
           NEW cand \in Candidates(c, g, roll), NEW at \in Nat,
           NEW d, d = Moved(c, g, roll, cand, at)
    PROVE  /\ d \in GameRecords(c)
           /\ d.turn = g.turn
           /\ d.pendingThrow = None
           /\ d.pendingMini = None
           /\ d.history # <<>>
           /\ Last(d.history) = TurnEvent(g, roll, cand, at)
           /\ d.pos[cand.mal] = Landing(cand)
           /\ \A m \in Mals(c) \ {cand.mal} :
                 d.pos[m] = IF m \in SentHome(c, cand) THEN WAITING ELSE g.pos[m]
<1> DEFINE e == TurnEvent(g, roll, cand, at)
           pos1 == [m \in DOMAIN g.pos |-> IF m = cand.mal THEN Landing(cand)
                                           ELSE IF m \in SentHome(c, cand) THEN WAITING
                                           ELSE g.pos[m]]
           finishes1 == [g.finishes EXCEPT ![g.turn] = @ + (IF cand.to = HOME THEN 1 ELSE 0)]
           lastAt1 == [g.lastAt EXCEPT ![g.turn] = at]
           queue1 == g.queue + Bonus(roll, cand)
           history1 == Append(g.history, e)
<1>1. g \in GameRecords(c) /\ g.turn \in TeamIds(c) /\ g.pendingMini = None
  BY DEF Clear
<1>2. cand \in CandidateRecords(c) /\ cand.to \in OnBoard \cup {HOME}
  BY <1>1, CandidateFacts
<1>3. cand.mal \in Mals(c)
  BY <1>2 DEF CandidateRecords
<1>4. g.pos \in [Mals(c) -> Resting] /\ g.finishes \in [TeamIds(c) -> Nat]
      /\ g.lastAt \in [TeamIds(c) -> Nat] /\ g.queue \in Nat
      /\ g.history \in Seq(EventRecords(c))
  BY <1>1 DEF GameRecords
<1>5. Landing(cand) \in Resting
  BY <1>2 DEF Landing, Resting
<1>6. pos1 \in [Mals(c) -> Resting]
  BY <1>4, <1>5 DEF Resting
<1>7. finishes1 \in [TeamIds(c) -> Nat] /\ lastAt1 \in [TeamIds(c) -> Nat]
  BY <1>1, <1>4
<1>8. queue1 \in Nat
  BY <1>4 DEF Bonus
<1>9. e \in EventRecords(c)
  BY TurnEventType
<1>10. history1 \in Seq(EventRecords(c)) /\ history1 # <<>> /\ Last(history1) = e
  <2> HIDE DEF e
  <2> QED BY <1>4, <1>9 DEF Last
<1>11. d = [pos |-> pos1, finishes |-> finishes1, miniWins |-> g.miniWins, lastAt |-> lastAt1,
            turn |-> g.turn, queue |-> queue1, pendingThrow |-> None,
            pendingMini |-> g.pendingMini, history |-> history1]
  BY <1>1 DEF Moved, GameRecords
<1> HIDE DEF pos1, finishes1, lastAt1, queue1, history1, e
<1>12. /\ d \in GameRecords(c) /\ d.turn = g.turn /\ d.pendingThrow = None
       /\ d.pendingMini = None /\ d.history = history1 /\ d.pos = pos1
  BY <1>1, <1>6, <1>7, <1>8, <1>10, <1>11 DEF GameRecords
<1>13. /\ pos1[cand.mal] = Landing(cand)
       /\ \A m \in Mals(c) \ {cand.mal} :
             pos1[m] = IF m \in SentHome(c, cand) THEN WAITING ELSE g.pos[m]
  BY <1>3, <1>4 DEF pos1
<1> QED BY <1>10, <1>12, <1>13 DEF e

(* Who a candidate catches: the mals of other teams where it goes.         *)
LEMMA CapturesAre ==
    ASSUME NEW c \in Setups1, NEW g, Clear(c, g), NEW roll \in Rolls,
           NEW cand \in Candidates(c, g, roll)
    PROVE  /\ cand.to \in OnBoard =>
                 cand.captures = {x \in Mals(c) : x[1] # g.turn /\ g.pos[x] = cand.to}
           /\ cand.to = HOME => cand.captures = {}
<1>1. g \in GameRecords(c)
  BY DEF Clear
<1>2. cand.captures = Victims(g, g.turn, cand.to)
  BY <1>1, CandidateFacts
<1>3. DOMAIN g.pos = Mals(c)
  BY <1>1 DEF GameRecords
<1>4. HOME \notin OnBoard
  BY DEF HOME, OnBoard, CENTER
<1> QED BY <1>2, <1>3, <1>4 DEF Victims

(* A move that settles at once leaves the game clear.                      *)
LEMMA MovedClear ==
    ASSUME NEW c \in Setups1, NEW g, Clear(c, g), NEW roll \in Rolls,
           NEW cand \in Candidates(c, g, roll), NEW at \in Nat, ~WillDuel(c, cand)
    PROVE  Clear(c, Moved(c, g, roll, cand, at))
<1> DEFINE d == Moved(c, g, roll, cand, at)
<1>1. /\ d \in GameRecords(c) /\ d.turn = g.turn /\ d.pendingMini = None
      /\ d.pos[cand.mal] = Landing(cand)
      /\ \A m \in Mals(c) \ {cand.mal} :
            d.pos[m] = IF m \in SentHome(c, cand) THEN WAITING ELSE g.pos[m]
  <2> HIDE DEF d
  <2>1. d = Moved(c, g, roll, cand, at)
    BY DEF d
  <2> QED BY <2>1, MovedFacts
<1> HIDE DEF d
<1>2. /\ g \in GameRecords(c) /\ g.turn \in TeamIds(c)
      /\ ~c.miniGames => \A x, y \in Mals(c) : ~Shared(g, x, y)
  BY DEF Clear
<1>3. cand.mal \in Mals(c) /\ cand.mal[1] = g.turn /\ cand.to \in OnBoard \cup {HOME}
  BY <1>2, CandidateFacts DEF CandidateRecords
<1>4. WAITING \notin OnBoard
  BY DEF WAITING, OnBoard, CENTER
<1>5. SentHome(c, cand) = cand.captures
  BY DEF SentHome
<1>6. ASSUME ~c.miniGames, NEW x \in Mals(c), NEW y \in Mals(c), Shared(d, x, y)
      PROVE  FALSE
  <2>1. /\ x[1] # y[1] /\ d.pos[x] = d.pos[y] /\ d.pos[x] \in OnBoard
    BY <1>6 DEF Shared
  <2>2. ASSUME NEW u \in Mals(c), u # cand.mal, d.pos[u] \in OnBoard
        PROVE  d.pos[u] = g.pos[u] /\ u \notin cand.captures
    BY <2>2, <1>1, <1>4, <1>5
  <2>3. ASSUME NEW u \in Mals(c), u[1] # g.turn, d.pos[u] = d.pos[cand.mal],
               d.pos[u] \in OnBoard
        PROVE  FALSE
    <3>1. u # cand.mal /\ Landing(cand) = d.pos[u]
      BY <2>3, <1>1, <1>3
    <3>2. cand.to \in OnBoard /\ Landing(cand) = cand.to
      BY <3>1, <2>3, <1>3, <1>4 DEF Landing
    <3>3. g.pos[u] = cand.to /\ u \notin cand.captures
      BY <3>1, <3>2, <2>2, <2>3
    <3> QED BY <3>2, <3>3, <2>3, CapturesAre
  <2>4. CASE x # cand.mal /\ y # cand.mal
    BY <2>1, <2>2, <2>4, <1>2, <1>6 DEF Shared
  <2>5. CASE x = cand.mal
    BY <2>1, <2>3, <2>5, <1>3
  <2>6. CASE y = cand.mal
    BY <2>1, <2>3, <2>6, <1>3
  <2> QED BY <2>4, <2>5, <2>6
<1> QED BY <1>1, <1>2, <1>6 DEF Clear, d

(* A move that is due a duel or a challenge leaves what it decides standing. *)
LEMMA MovedToDuel ==
    ASSUME NEW c \in Setups1, NEW g, Clear(c, g), NEW roll \in Rolls,
           NEW cand \in Candidates(c, g, roll), NEW at \in Nat, WillDuel(c, cand)
    PROVE  GameInv(c, [Moved(c, g, roll, cand, at) EXCEPT
                          !.pendingMini = MiniGame(cand, VsTeam(cand))])
<1> DEFINE d == Moved(c, g, roll, cand, at)
           v == VsTeam(cand)
           p == MiniGame(cand, v)
           h == [d EXCEPT !.pendingMini = p]
           e == TurnEvent(g, roll, cand, at)
<1>1. /\ d \in GameRecords(c) /\ d.turn = g.turn /\ d.pendingThrow = None
      /\ d.history # <<>> /\ Last(d.history) = e
      /\ d.pos[cand.mal] = Landing(cand)
      /\ \A m \in Mals(c) \ {cand.mal} :
            d.pos[m] = IF m \in SentHome(c, cand) THEN WAITING ELSE g.pos[m]
  <2> HIDE DEF d
  <2>1. d = Moved(c, g, roll, cand, at)
    BY DEF d
  <2> QED BY <2>1, MovedFacts
<1> HIDE DEF d
<1>2. /\ g \in GameRecords(c) /\ g.turn \in TeamIds(c)
      /\ ~c.miniGames => \A x, y \in Mals(c) : ~Shared(g, x, y)
  BY DEF Clear
<1>3. /\ cand.mal \in Mals(c) /\ cand.mal[1] = g.turn /\ cand.to \in OnBoard
      /\ cand.from = g.pos[cand.mal] /\ cand.captures \subseteq Mals(c) /\ cand.captures # {}
      /\ cand.captures = {x \in Mals(c) : x[1] # g.turn /\ g.pos[x] = cand.to}
  BY <1>2, CandidateFacts, CapturesAre DEF CandidateRecords, WillDuel
<1>4. v \in TeamIds(c) /\ v # None /\ \E x \in cand.captures : x[1] = v
  BY <1>3, VsTeamIsCaught, NoneAssumption DEF TeamIds, Setups1, SetupRecords
<1>5. Landing(cand) = cand.to
  BY <1>3 DEF Landing, HOME, OnBoard, CENTER
<1>6. \A m \in Mals(c) : m # cand.mal => d.pos[m] = g.pos[m]
  BY <1>1 DEF SentHome
<1>7. /\ p.team = g.turn /\ p.mal = cand.mal /\ p.station = cand.to /\ p.vs = v
      /\ p \in MiniRecords(c) /\ p # None
  <2>1. p \in MiniRecords(c)
    BY <1>2, <1>3, <1>4 DEF MiniGame, MiniRecords
  <2>2. p # None
    BY <2>1, MiniIsSome
  <2>3. p.team = g.turn /\ p.mal = cand.mal /\ p.station = cand.to /\ p.vs = v
    BY <1>3 DEF MiniGame
  <2> QED BY <2>1, <2>2, <2>3
<1>8. /\ e.mini = None /\ e.team = g.turn /\ e.mal = cand.mal /\ e.to = cand.to
      /\ e.from = cand.from /\ e.captures = cand.captures
  BY DEF TurnEvent
<1> HIDE DEF p, e, v
<1>9. /\ h \in GameRecords(c) /\ h.turn = g.turn /\ h.pendingThrow = None
      /\ h.pendingMini = p /\ h.pos = d.pos /\ h.history = d.history
  BY <1>1, <1>7 DEF GameRecords
<1> HIDE DEF h
<1>10. PendingMiniMatches(h)
  <2>1. \A x \in cand.captures : x \in Mals(c) /\ x # cand.mal /\ x[1] # g.turn
                                 /\ h.pos[x] = cand.to
    BY <1>3, <1>6, <1>9
  <2>2. h.pos[cand.mal] = cand.to
    BY <1>1, <1>5, <1>9
  <2> QED BY <2>1, <2>2, <1>1, <1>3, <1>4, <1>7, <1>8, <1>9 DEF PendingMiniMatches
<1>11. ASSUME ~c.miniGames PROVE SharedOnlyInDuel(c, h)
  <2>1. \A x, y \in Mals(c) : ~Shared(g, x, y)
    BY <1>2, <1>11
  <2>2. ASSUME NEW x \in Mals(c), NEW y \in Mals(c), Shared(h, x, y)
        PROVE  p # None /\ h.pos[x] = p.station /\ p.mal \in {x, y}
    <3>1. x[1] # y[1] /\ h.pos[x] = h.pos[y] /\ h.pos[x] \in OnBoard
      BY <2>2 DEF Shared
    <3>2. x = cand.mal \/ y = cand.mal
      BY <3>1, <2>1, <1>6, <1>9 DEF Shared
    <3>3. h.pos[cand.mal] = cand.to
      BY <1>1, <1>5, <1>9
    <3>4. p # None
      BY <1>7
    <3> QED BY <3>1, <3>2, <3>3, <3>4, <1>7
  <2>3. ASSUME NEW x \in Mals(c), x[1] # g.turn
        PROVE  /\ h.pos[x] = cand.to => x \in cand.captures
               /\ h.pos[x] = cand.from => cand.from = WAITING
    <3>1. h.pos[x] = g.pos[x] /\ g.pos[x] \in Resting
      BY <2>3, <1>2, <1>3, <1>6, <1>9 DEF GameRecords
    <3>2. ~Shared(g, x, cand.mal)
      BY <2>1, <1>3
    <3> QED BY <3>1, <3>2, <2>3, <1>3 DEF Shared, Resting
  <2> QED BY <2>2, <2>3, <1>1, <1>4, <1>7, <1>8, <1>9 DEF SharedOnlyInDuel
<1>12. PendingThrowMatches(c, h)
  BY <1>9 DEF PendingThrowMatches
<1>13. GameInv(c, h)
  BY <1>2, <1>9, <1>10, <1>11, <1>12 DEF GameInv
<1> QED BY <1>13 DEF h, d, p, v

(* A move, whatever follows from it, keeps the invariant of games.         *)
LEMMA CommitInv ==
    ASSUME NEW c \in Setups1, NEW g, Clear(c, g), NEW roll \in Rolls,
           NEW cand \in Candidates(c, g, roll), NEW at \in Nat
    PROVE  GameInv(c, CommitMove(c, g, roll, cand, at))
<1> DEFINE d == Moved(c, g, roll, cand, at)
<1>1. /\ d \in GameRecords(c) /\ d.turn = g.turn /\ d.pendingThrow = None
      /\ d.history # <<>> /\ Last(d.history) = TurnEvent(g, roll, cand, at)
      /\ d.pos[cand.mal] = Landing(cand)
  <2> HIDE DEF d
  <2>1. d = Moved(c, g, roll, cand, at)
    BY DEF d
  <2> QED BY <2>1, MovedFacts
<1>2. CASE WillDuel(c, cand)
  BY <1>2, MovedToDuel DEF CommitMove
<1>3. CASE ~WillDuel(c, cand) /\ ~(c.miniGames /\ cand.to \in MINIGAME_STATIONS)
  <2>1. Clear(c, d)
    BY <1>3, MovedClear
  <2>2. CommitMove(c, g, roll, cand, at) = AdvanceAfterMove(c, d)
    BY <1>3 DEF CommitMove
  <2> HIDE DEF d
  <2>3. Clear(c, AdvanceAfterMove(c, d)) /\ AdvanceAfterMove(c, d).pendingThrow = None
    BY <2>1, <1>1, AdvanceClear
  <2> QED BY <2>2, <2>3, InvFromClear
<1>4. CASE ~WillDuel(c, cand) /\ c.miniGames /\ cand.to \in MINIGAME_STATIONS
  <2> DEFINE p == MiniGame(cand, None)
             h == [d EXCEPT !.pendingMini = p]
             e == TurnEvent(g, roll, cand, at)
  <2>1. CommitMove(c, g, roll, cand, at) = h
    BY <1>4 DEF CommitMove
  <2>2. g \in GameRecords(c) /\ g.turn \in TeamIds(c)
    BY DEF Clear
  <2>3. cand.mal \in Mals(c) /\ cand.mal[1] = g.turn
    BY <2>2, CandidateFacts DEF CandidateRecords
  <2>4. cand.to \in OnBoard
    BY <1>4 DEF MINIGAME_STATIONS, OnBoard, CENTER
  <2>5. Landing(cand) = cand.to
    BY <2>4 DEF Landing, HOME, OnBoard, CENTER
  <2>6. /\ p.team = g.turn /\ p.mal = cand.mal /\ p.station = cand.to /\ p.vs = None
        /\ p \in MiniRecords(c)
    BY <2>2, <2>3, <2>4 DEF MiniGame, MiniRecords
  <2>7. e.mini = None /\ e.team = g.turn /\ e.mal = cand.mal /\ e.to = cand.to
    BY DEF TurnEvent
  <2> HIDE DEF p, e, d
  <2>8. /\ h \in GameRecords(c) /\ h.turn = g.turn /\ h.pendingThrow = None
        /\ h.pendingMini = p /\ h.pos = d.pos /\ h.history = d.history
    BY <1>1, <2>6 DEF GameRecords
  <2> HIDE DEF h
  <2>9. PendingMiniMatches(h)
    <3>1. Last(h.history) = e
      BY <1>1, <2>8 DEF e
    <3> QED BY <3>1, <1>1, <2>3, <2>5, <2>6, <2>7, <2>8 DEF PendingMiniMatches
  <2>10. PendingThrowMatches(c, h)
    BY <2>8 DEF PendingThrowMatches
  <2> QED BY <1>4, <2>1, <2>2, <2>8, <2>9, <2>10 DEF GameInv
<1> QED BY <1>2, <1>3, <1>4

(* The candidates of a roll depend on the board and on whose turn it is.   *)
LEMMA CandidatesOfBoard ==
    ASSUME NEW c, NEW g, NEW h, g.pos = h.pos, g.turn = h.turn, NEW roll
    PROVE  Candidates(c, g, roll) = Candidates(c, h, roll)
<1>1. \A m, to : Candidate(g, m, to) = Candidate(h, m, to)
  BY DEF Candidate, Victims
<1> QED BY <1>1 DEF Candidates

(* A throw.                                                                *)
LEMMA ThrowInv ==
    ASSUME NEW c \in Setups1, NEW g, GameInv(c, g), CanThrow(g), NEW roll \in Rolls, NEW at \in Nat
    PROVE  GameInv(c, ThrowStick(c, g, roll, at))
<1> DEFINE left == g.queue - 1
           thrown == [g EXCEPT !.queue = left]
           cands == Candidates(c, g, roll)
<1>1. Clear(c, g)
  BY ClearFromInv DEF CanThrow
<1>2. g \in GameRecords(c) /\ g.turn \in TeamIds(c) /\ g.pendingMini = None /\ g.queue > 0
  BY DEF GameInv, CanThrow
<1>. g.queue \in Nat /\ left \in Nat
  BY <1>2 DEF GameRecords
<1>a. ThrowStick(c, g, roll, at) =
         IF \E only \in cands : cands = {only}
         THEN CommitMove(c, thrown, roll, CHOOSE only \in cands : TRUE, at)
         ELSE [thrown EXCEPT !.pendingThrow = [team |-> g.turn, roll |-> roll, at |-> at,
                                               candidates |-> cands]]
  BY DEF ThrowStick
<1> HIDE DEF left
<1>3. /\ thrown \in GameRecords(c) /\ thrown.turn = g.turn /\ thrown.pos = g.pos
      /\ thrown.pendingMini = None /\ thrown.pendingThrow = g.pendingThrow
  BY <1>2 DEF GameRecords
<1> HIDE DEF thrown
<1>4. Clear(c, thrown)
  BY <1>1, <1>3 DEF Clear, Shared
<1>5. cands = Candidates(c, thrown, roll)
  BY <1>3, CandidatesOfBoard
<1>6. cands \subseteq CandidateRecords(c)
  BY <1>2, CandidateFacts
<1> HIDE DEF cands
<1>7. CASE \E only \in cands : cands = {only}
  <2> DEFINE cand == CHOOSE only \in cands : TRUE
  <2>1. cand \in cands
    BY <1>7
  <2>2. ThrowStick(c, g, roll, at) = CommitMove(c, thrown, roll, cand, at)
    BY <1>7, <1>a
  <2> HIDE DEF cand
  <2> QED BY <2>1, <2>2, <1>4, <1>5, CommitInv
<1>8. CASE ~ \E only \in cands : cands = {only}
  <2> DEFINE t == [team |-> g.turn, roll |-> roll, at |-> at, candidates |-> cands]
             h == [thrown EXCEPT !.pendingThrow = t]
  <2>1. ThrowStick(c, g, roll, at) = h
    BY <1>8, <1>a
  <2>2. t \in ThrowRecords(c)
    BY <1>2, <1>6 DEF ThrowRecords
  <2>3. t.team = g.turn /\ t.roll = roll /\ t.candidates = cands
    OBVIOUS
  <2> HIDE DEF t
  <2>4. /\ h \in GameRecords(c) /\ h.pos = g.pos /\ h.turn = g.turn /\ h.pendingMini = None
        /\ h.pendingThrow = t
    BY <1>3, <2>2 DEF GameRecords
  <2> HIDE DEF h
  <2>5. cands = Candidates(c, h, roll)
    BY <2>4, CandidatesOfBoard DEF cands
  <2>6. PendingThrowMatches(c, h)
    BY <1>8, <2>3, <2>4, <2>5 DEF PendingThrowMatches
  <2>7. PendingMiniMatches(h)
    BY <2>4 DEF PendingMiniMatches
  <2>8. ~c.miniGames => SharedOnlyInDuel(c, h)
    BY <1>1, <2>4 DEF Clear, Shared, SharedOnlyInDuel
  <2> QED BY <1>2, <2>1, <2>4, <2>6, <2>7, <2>8 DEF GameInv
<1> QED BY <1>7, <1>8

(* A MOVE picks one of the candidates of the throw.                        *)
LEMMA MoveInv ==
    ASSUME NEW c \in Setups1, NEW g, GameInv(c, g), g.pendingThrow # None,
           NEW cand \in g.pendingThrow.candidates, NEW at \in Nat
    PROVE  GameInv(c, CommitMove(c, g, g.pendingThrow.roll, cand, at))
<1>1. /\ g.pendingMini = None
      /\ g.pendingThrow.candidates = Candidates(c, g, g.pendingThrow.roll)
  BY DEF GameInv, PendingThrowMatches
<1>2. g.pendingThrow.roll \in Rolls
  BY DEF GameInv, GameRecords, ThrowRecords
<1>3. Clear(c, g)
  BY <1>1, ClearFromInv
<1> QED BY <1>1, <1>2, <1>3, CommitInv

-----------------------------------------------------------------------------
(* A mini-game or duel *)

(* What the judgment does to the mals leaves no two teams on one station,
   but for a lost challenge, and every mal where it may rest.              *)
LEMMA JudgedPosFacts ==
    ASSUME NEW c \in Setups1, NEW g, GameInv(c, g), g.pendingMini # None, NEW success \in BOOLEAN,
           NEW pos, pos = JudgedPos(g, Last(g.history), g.pendingMini.vs # None, success)
    PROVE  /\ pos \in [Mals(c) -> Resting]
           /\ ~c.miniGames => \A x, y \in Mals(c) :
                 ~(x[1] # y[1] /\ pos[x] = pos[y] /\ pos[x] \in OnBoard)
<1> DEFINE e == Last(g.history)
           p == g.pendingMini
           duel == p.vs # None
<1>1. /\ g \in GameRecords(c) /\ g.history # <<>> /\ p # None
      /\ g.pos \in [Mals(c) -> Resting]
  BY DEF GameInv, PendingMiniMatches, GameRecords
<1>2. p \in MiniRecords(c)
  BY <1>1 DEF GameRecords
<1>3. e \in EventRecords(c)
  BY <1>1 DEF GameRecords, Last
<1>4. /\ e.team = p.team /\ e.mal = p.mal /\ e.to = p.station
      /\ p.mal[1] = p.team /\ g.pos[p.mal] = p.station
      /\ duel => \A x \in e.captures : x[1] # p.team /\ g.pos[x] = p.station
  BY <1>1 DEF GameInv, PendingMiniMatches
<1>5. /\ p.mal \in Mals(c) /\ p.station \in OnBoard
      /\ e.from \in Resting /\ e.roll \in Rolls /\ e.to \in OnBoard /\ e.captures \subseteq Mals(c)
  BY <1>2, <1>3, <1>4 DEF MiniRecords, EventRecords
<1> HIDE DEF p, e
<1>6. pos = [m \in Mals(c) |->
               IF success
               THEN IF duel /\ m \in e.captures THEN WAITING ELSE g.pos[m]
               ELSE IF m = e.mal
                    THEN (IF duel THEN e.from ELSE StepBefore(e.from, ROLL_STEPS[e.roll], e.to))
                    ELSE IF duel /\ m \in e.captures THEN e.to ELSE g.pos[m]]
  BY <1>1 DEF JudgedPos, e, p
<1>7. StepBefore(e.from, ROLL_STEPS[e.roll], e.to) \in Resting
  BY <1>5, StepBeforeRests
<1>8. WAITING \in Resting /\ e.to \in Resting /\ WAITING \notin OnBoard
  BY <1>5 DEF Resting, WAITING, OnBoard, CENTER
<1>9. pos \in [Mals(c) -> Resting]
  BY <1>1, <1>5, <1>6, <1>7, <1>8
<1>10. ASSUME ~c.miniGames, NEW x \in Mals(c), NEW y \in Mals(c),
              x[1] # y[1], pos[x] = pos[y], pos[x] \in OnBoard
       PROVE  FALSE
  <2>1. /\ duel
        /\ \A u, v \in Mals(c) : Shared(g, u, v) => g.pos[u] = p.station /\ p.mal \in {u, v}
        /\ \A u \in Mals(c) : u[1] # p.team =>
              /\ g.pos[u] = p.station => u \in e.captures
              /\ g.pos[u] = e.from => e.from = WAITING
    BY <1>1, <1>10 DEF GameInv, SharedOnlyInDuel, e, p
  <2>2. CASE success
    <3>1. ASSUME NEW u \in Mals(c), pos[u] \in OnBoard
          PROVE  u \notin e.captures /\ pos[u] = g.pos[u]
      BY <3>1, <2>1, <2>2, <1>6, <1>8
    <3>2. Shared(g, x, y) /\ x \notin e.captures /\ y \notin e.captures
      BY <3>1, <1>10 DEF Shared
    <3>3. x = p.mal \/ y = p.mal
      BY <3>2, <2>1
    <3>4. g.pos[x] = p.station /\ g.pos[y] = p.station
      BY <3>2, <2>1 DEF Shared
    <3> QED BY <3>2, <3>3, <3>4, <2>1, <1>4, <1>10
  <2>3. CASE ~success
    <3>1. pos[p.mal] = e.from
      BY <2>1, <2>3, <1>4, <1>5, <1>6
    <3>2. ASSUME NEW u \in Mals(c), u # p.mal
          PROVE  pos[u] = g.pos[u]
      BY <3>2, <2>1, <2>3, <1>4, <1>6
    <3>3. ASSUME NEW u \in Mals(c), u[1] # p.team, pos[u] = e.from, e.from \in OnBoard
          PROVE  FALSE
      BY <3>2, <3>3, <2>1, <1>4, <1>8
    <3>4. CASE x # p.mal /\ y # p.mal
      BY <3>2, <3>4, <2>1, <1>10 DEF Shared
    <3>5. CASE x = p.mal
      BY <3>1, <3>3, <3>5, <1>4, <1>10
    <3>6. CASE y = p.mal
      BY <3>1, <3>3, <3>6, <1>4, <1>10
    <3> QED BY <3>4, <3>5, <3>6
  <2> QED BY <2>2, <2>3
<1> QED BY <1>9, <1>10

(* A judgment.                                                             *)
LEMMA ResolveInv ==
    ASSUME NEW c \in Setups1, NEW g, GameInv(c, g), g.pendingMini # None, NEW success \in BOOLEAN
    PROVE  GameInv(c, ResolveMiniGame(c, g, success))
<1> DEFINE n == Len(g.history)
           p == g.pendingMini
           pos1 == JudgedPos(g, Last(g.history), p.vs # None, success)
           wins1 == [t \in DOMAIN g.miniWins |->
                       g.miniWins[t] + (IF t \in Winners(p, success) THEN 1 ELSE 0)]
           history1 == Stamped(g, success)
           done == [g EXCEPT !.pos = pos1, !.miniWins = wins1, !.pendingMini = None,
                             !.history = history1]
<1>1. /\ g \in GameRecords(c) /\ g.turn \in TeamIds(c) /\ g.history # <<>>
      /\ g.pendingThrow = None
  BY DEF GameInv, PendingMiniMatches, PendingThrowMatches
<1>2. /\ pos1 \in [Mals(c) -> Resting]
      /\ ~c.miniGames => \A x, y \in Mals(c) :
            ~(x[1] # y[1] /\ pos1[x] = pos1[y] /\ pos1[x] \in OnBoard)
  <2> HIDE DEF pos1
  <2>1. pos1 = JudgedPos(g, Last(g.history), g.pendingMini.vs # None, success)
    BY DEF pos1
  <2> QED BY <2>1, JudgedPosFacts
<1>3. wins1 \in [TeamIds(c) -> Nat]
  BY <1>1 DEF GameRecords
<1>4. history1 \in Seq(EventRecords(c))
  <2> DEFINE o == [game |-> p.game, success |-> success]
             e == [Last(g.history) EXCEPT !.mini = o]
  <2>1. p \in MiniRecords(c)
    BY <1>1 DEF GameRecords
  <2>2. o \in Outcomes
    BY <2>1 DEF MiniRecords, Outcomes
  <2>3. g.history \in Seq(EventRecords(c)) /\ n \in 1..Len(g.history)
    BY <1>1 DEF GameRecords
  <2>4. Last(g.history) \in EventRecords(c)
    BY <2>3 DEF Last
  <2>5. e \in EventRecords(c)
    <3> HIDE DEF o
    <3> QED BY <2>2, <2>4 DEF EventRecords
  <2>6. history1 = [g.history EXCEPT ![n] = e]
    BY DEF Stamped, Last
  <2> HIDE DEF e
  <2> QED BY <2>3, <2>5, <2>6
<1>5. ResolveMiniGame(c, g, success) = IF success THEN AdvanceAfterMove(c, done)
                                       ELSE PassTurn(c, done)
  BY DEF ResolveMiniGame, Last
<1> HIDE DEF pos1, wins1, history1
<1>6. /\ done \in GameRecords(c) /\ done.turn = g.turn /\ done.pendingThrow = None
      /\ done.pendingMini = None /\ done.pos = pos1
  BY <1>1, <1>2, <1>3, <1>4 DEF GameRecords
<1> HIDE DEF done
<1>7. Clear(c, done)
  BY <1>1, <1>2, <1>6 DEF Clear, Shared
<1> QED BY <1>5, <1>6, <1>7, AdvanceClear, InvFromClear

(* A spin of the roulette.                                                 *)
LEMMA SpinInv ==
    ASSUME NEW c \in Setups1, NEW g, GameInv(c, g), g.pendingMini # None,
           NEW id \in MiniGames \cup {None}
    PROVE  /\ GameInv(c, SpinMiniGame(g, id))
           /\ SpinMiniGame(g, id).pendingMini # None
<1> DEFINE p == [g.pendingMini EXCEPT !.game = id]
           h == [g EXCEPT !.pendingMini = p]
<1>1. g.pendingMini \in MiniRecords(c) /\ g \in GameRecords(c)
  BY DEF GameInv, GameRecords
<1>2. p \in MiniRecords(c) /\ p.team = g.pendingMini.team /\ p.mal = g.pendingMini.mal
      /\ p.station = g.pendingMini.station /\ p.vs = g.pendingMini.vs
  BY <1>1 DEF MiniRecords
<1>3. SpinMiniGame(g, id) = h
  BY DEF SpinMiniGame
<1> HIDE DEF p
<1>4. p # None
  BY <1>2, MiniIsSome
<1>5. /\ h \in GameRecords(c) /\ h.pendingMini = p /\ h.pos = g.pos /\ h.turn = g.turn
      /\ h.history = g.history /\ h.pendingThrow = g.pendingThrow
  BY <1>1, <1>2 DEF GameRecords
<1> HIDE DEF h
<1>6. PendingMiniMatches(g) /\ PendingMiniMatches(h)
  BY <1>2, <1>4, <1>5 DEF GameInv, PendingMiniMatches
<1>7. PendingThrowMatches(c, h)
  BY <1>5 DEF GameInv, PendingThrowMatches
<1>8. ~c.miniGames => SharedOnlyInDuel(c, h)
  BY <1>2, <1>4, <1>5 DEF GameInv, SharedOnlyInDuel, Shared
<1> QED BY <1>3, <1>4, <1>5, <1>6, <1>7, <1>8 DEF GameInv

-----------------------------------------------------------------------------
(* Replay *)

(* One logged event, applied to a game that keeps the invariant, gives
   another or is refused.                                                  *)
LEMMA ReplayEventInv ==
    ASSUME NEW c \in Setups1, NEW g, g = None \/ GameInv(c, g), NEW ev \in EventRecords(c)
    PROVE  ReplayEvent(c, g, ev) = None \/ GameInv(c, ReplayEvent(c, g, ev))
<1> DEFINE thrown == IF g = None THEN None ELSE ReplayThrow(c, g, ev)
           moved  == IF thrown = None THEN None ELSE ReplayMove(c, thrown, ev)
<1>1. ev.roll \in Rolls /\ ev.at \in Nat
  BY DEF EventRecords
<1>2. thrown = None \/ GameInv(c, thrown)
  BY <1>1, ThrowInv DEF ReplayThrow
<1> HIDE DEF thrown
<1>3. moved = None \/ GameInv(c, moved)
  <2> SUFFICES ASSUME thrown # None, thrown.pendingThrow # None
               PROVE  ReplayMove(c, thrown, ev) = None \/ GameInv(c, ReplayMove(c, thrown, ev))
    BY <1>2 DEF ReplayMove
  <2> DEFINE picked == {x \in thrown.pendingThrow.candidates : x.mal = ev.mal /\ x.to = ev.to}
  <2>1. CASE picked = {}
    BY <2>1 DEF ReplayMove
  <2>2. CASE picked # {}
    <3> DEFINE cand == CHOOSE x \in picked : TRUE
    <3>1. cand \in thrown.pendingThrow.candidates
      BY <2>2
    <3>2. ReplayMove(c, thrown, ev) = CommitMove(c, thrown, thrown.pendingThrow.roll, cand, ev.at)
      BY <2>2 DEF ReplayMove
    <3> HIDE DEF cand
    <3> QED BY <3>1, <3>2, <1>1, <1>2, MoveInv
  <2> QED BY <2>1, <2>2
<1>4. ReplayEvent(c, g, ev) = IF moved = None THEN None ELSE ReplayMini(c, moved, ev)
  BY DEF ReplayEvent, thrown
<1> HIDE DEF moved
<1>5. ASSUME moved # None, moved.pendingMini # None
      PROVE  GameInv(c, ReplayMini(c, moved, ev))
  <2>1. GameInv(c, moved)
    BY <1>3, <1>5
  <2>2. CASE ev.mini = None
    BY <2>1, <2>2, <1>5, ResolveInv DEF ReplayMini
  <2>3. CASE ev.mini # None
    <3>1. ev.mini.game \in MiniGames \cup {None} /\ ev.mini.success \in BOOLEAN
      BY <2>3 DEF EventRecords, Outcomes
    <3>2. GameInv(c, SpinMiniGame(moved, ev.mini.game))
          /\ SpinMiniGame(moved, ev.mini.game).pendingMini # None
      BY <2>1, <3>1, <1>5, SpinInv
    <3> QED BY <2>3, <3>1, <3>2, <1>5, ResolveInv DEF ReplayMini
  <2> QED BY <2>2, <2>3
<1> QED BY <1>3, <1>4, <1>5 DEF ReplayMini

(* f is the games that replaying the first n events goes through.          *)
IsRun(c, at, events, n, f) ==
    f = [i \in 0..n |-> IF i = 0 THEN FreshGame(c, at) ELSE ReplayEvent(c, f[i-1], events[i])]

(* The recursion of Replay is well founded: there is such a function.      *)
LEMMA RunExists ==
    ASSUME NEW c, NEW at, NEW events
    PROVE  \A n \in Nat : \E f : IsRun(c, at, events, n, f)
<1> DEFINE Runs(f, n) == IsRun(c, at, events, n, f)
           T == {n \in Nat : ~ \E f : Runs(f, n)}
<1> SUFFICES ASSUME T # {} PROVE FALSE
  OBVIOUS
<1>1. PICK n \in T : \A m \in T : n <= m
  BY LeastNatural
<1>2. n \in Nat /\ ~ \E f : Runs(f, n)
  OBVIOUS
<1>3. CASE n = 0
  <2> DEFINE f == [i \in 0..0 |-> FreshGame(c, at)]
  <2>1. Runs(f, 0)
    BY DEF IsRun
  <2> QED BY <1>2, <1>3, <2>1
<1>4. CASE n # 0
  <2>1. n - 1 \in Nat /\ n - 1 \notin T
    BY <1>1, <1>2, <1>4
  <2>2. PICK f : Runs(f, n - 1)
    BY <2>1
  <2> DEFINE h == [i \in 0..n |-> IF i = n THEN ReplayEvent(c, f[n-1], events[n]) ELSE f[i]]
  <2>3. \A i \in 0..(n-1) :
           f[i] = IF i = 0 THEN FreshGame(c, at) ELSE ReplayEvent(c, f[i-1], events[i])
    BY <2>2, <2>1 DEF IsRun
  <2>4. ASSUME NEW i \in 0..n
        PROVE  h[i] = IF i = 0 THEN FreshGame(c, at) ELSE ReplayEvent(c, h[i-1], events[i])
    <3>1. CASE i = n
      <4>1. h[n] = ReplayEvent(c, f[n-1], events[n]) /\ h[n-1] = f[n-1]
        BY <1>2, <1>4
      <4> QED BY <4>1, <3>1, <1>4
    <3>2. CASE i # n /\ i # 0
      <4>1. i \in 0..(n-1) /\ i - 1 \in 0..n /\ i - 1 # n
        BY <3>2, <1>2
      <4>2. h[i] = f[i] /\ h[i-1] = f[i-1]
        BY <4>1, <3>2
      <4> QED BY <4>1, <4>2, <3>2, <2>3
    <3>3. CASE i # n /\ i = 0
      <4>1. 0 \in 0..(n-1) /\ h[0] = f[0]
        BY <3>3, <1>2
      <4> QED BY <4>1, <3>3, <2>3
    <3> QED BY <3>1, <3>2, <3>3
  <2>5. Runs(h, n)
    <3> HIDE DEF h
    <3>1. h = [i \in 0..n |-> h[i]]
      BY DEF h
    <3> QED BY <3>1, <2>4 DEF IsRun
  <2> QED BY <1>2, <2>5
<1> QED BY <1>3, <1>4

(* What Replay gives keeps the invariant of games, whatever log it is given. *)
LEMMA ReplayInv ==
    ASSUME NEW c \in Setups1, NEW at \in Nat, NEW events \in Seq(EventRecords(c))
    PROVE  Replay(c, at, events) = None \/ GameInv(c, Replay(c, at, events))
<1> DEFINE n == Len(events)
           run == CHOOSE f : IsRun(c, at, events, n, f)
<1>1. n \in Nat
  OBVIOUS
<1>2. IsRun(c, at, events, n, run)
  BY <1>1, RunExists
<1>3. Replay(c, at, events) = run[n]
  BY DEF Replay, IsRun
<1> HIDE DEF run
<1>4. /\ run[0] = FreshGame(c, at)
      /\ \A i \in 1..n : run[i] = ReplayEvent(c, run[i-1], events[i])
  BY <1>1, <1>2 DEF IsRun
<1> DEFINE Good(i) == run[i] = None \/ GameInv(c, run[i])
           Bad == {i \in 0..n : ~Good(i)}
<1>5. CASE Bad = {}
  BY <1>1, <1>3, <1>5
<1>6. CASE Bad # {}
  <2>0. Bad \subseteq Nat
    OBVIOUS
  <2>1. PICK i \in Bad : \A j \in Bad : i <= j
    <3> HIDE DEF Bad
    <3> QED BY <2>0, <1>6, LeastNatural
  <2>2. i # 0
    BY <2>1, <1>4, FreshClear
  <2>3. i - 1 \in 0..n /\ i \in 1..n
    BY <2>2
  <2>4. Good(i - 1)
    BY <2>1, <2>3
  <2>5. events[i] \in EventRecords(c)
    BY <2>3
  <2>6. Good(i)
    BY <2>3, <2>4, <2>5, <1>4, ReplayEventInv
  <2> QED BY <2>1, <2>6
<1> QED BY <1>5, <1>6

-----------------------------------------------------------------------------
(* Replay, one event after the other *)

(* Two replays of logs that begin alike begin alike.                       *)
LEMMA RunsAgree ==
    ASSUME NEW c, NEW at, NEW d, NEW e, NEW n \in Nat, NEW m \in Nat, NEW f, NEW h,
           IsRun(c, at, d, n, f), IsRun(c, at, e, m, h), n <= m,
           \A i \in 1..n : d[i] = e[i]
    PROVE  f[n] = h[n]
<1> DEFINE T == {i \in 0..n : f[i] # h[i]}
<1> SUFFICES ASSUME T # {} PROVE FALSE
  OBVIOUS
<1>1. PICK i \in T : \A j \in T : i <= j
  <2>1. T \subseteq Nat
    OBVIOUS
  <2> HIDE DEF T
  <2> QED BY <2>1, LeastNatural
<1>2. /\ f[i] = (IF i = 0 THEN FreshGame(c, at) ELSE ReplayEvent(c, f[i-1], d[i]))
      /\ h[i] = (IF i = 0 THEN FreshGame(c, at) ELSE ReplayEvent(c, h[i-1], e[i]))
  BY DEF IsRun
<1>3. i # 0
  BY <1>1, <1>2
<1>4. i - 1 \in 0..n /\ i - 1 \notin T /\ d[i] = e[i]
  BY <1>1, <1>3
<1> QED BY <1>1, <1>2, <1>3, <1>4

LEMMA ReplayNothing ==
    ASSUME NEW c, NEW at
    PROVE  Replay(c, at, <<>>) = FreshGame(c, at)
<1> DEFINE run == CHOOSE f : IsRun(c, at, <<>>, 0, f)
<1>1. Len(<<>>) = 0
  OBVIOUS
<1>2. IsRun(c, at, <<>>, 0, run)
  BY RunExists
<1>3. Replay(c, at, <<>>) = run[0]
  BY <1>1 DEF Replay, IsRun
<1> HIDE DEF run
<1> QED BY <1>2, <1>3 DEF IsRun

LEMMA ReplayOneMore ==
    ASSUME NEW c, NEW at, NEW S, NEW events \in Seq(S), NEW ev \in S
    PROVE  Replay(c, at, Append(events, ev)) = ReplayEvent(c, Replay(c, at, events), ev)
<1> DEFINE n == Len(events)
           longer == Append(events, ev)
           f == CHOOSE g : IsRun(c, at, events, n, g)
           h == CHOOSE g : IsRun(c, at, longer, n + 1, g)
<1>1. n \in Nat /\ Len(longer) = n + 1 /\ longer[n + 1] = ev /\ \A i \in 1..n : events[i] = longer[i]
  OBVIOUS
<1>2. IsRun(c, at, events, n, f) /\ IsRun(c, at, longer, n + 1, h)
  <2>1. n + 1 \in Nat
    BY <1>1
  <2> HIDE DEF n, longer
  <2> QED BY <1>1, <2>1, RunExists
<1>3. Replay(c, at, events) = f[n]
  BY DEF Replay, IsRun
<1>4. Replay(c, at, longer) = h[n + 1]
  BY <1>1 DEF Replay, IsRun
<1> HIDE DEF f, h, n, longer
<1>5. f[n] = h[n]
  BY <1>1, <1>2, RunsAgree
<1>6. h[n + 1] = ReplayEvent(c, h[n], longer[n + 1])
  BY <1>1, <1>2 DEF IsRun
<1> QED BY <1>1, <1>3, <1>4, <1>5, <1>6 DEF longer
-----------------------------------------------------------------------------
(* The steps of a game, field by field *)

(* No team is ever finished: a mal that gets home starts over.             *)
LEMMA NobodyFinishes ==
    ASSUME NEW c \in Setups1, NEW g \in GameRecords(c), NEW t \in TeamIds(c)
    PROVE  ~IsFinished(c, g, t)
<1>1. <<t, 1>> \in Mals(c) /\ 1 \in 1..c.malPerTeam
  BY DEF Mals, Setups1, SetupRecords
<1>2. g.pos[<<t, 1>>] \in Resting
  BY <1>1 DEF GameRecords
<1>3. HOME \notin Resting
  BY DEF Resting, OnBoard, WAITING, HOME, CENTER
<1> QED BY <1>1, <1>2, <1>3 DEF IsFinished

(* With somebody to pass the turn to, it is passed to somebody else.       *)
LEMMA TurnMovesOn ==
    ASSUME NEW c \in Setups1, c.teams >= 2, NEW g \in GameRecords(c), g.turn \in TeamIds(c)
    PROVE  NextTeam(c, g) # g.turn
<1> DEFINE n == c.teams
           after(k) == ((g.turn - 1 + k) % n) + 1
           live == {k \in 1..n : ~IsFinished(c, g, after(k))}
           first == CHOOSE k \in live : \A l \in live : k <= l
<1>1. n \in Nat /\ n >= 2 /\ g.turn \in 1..n
  BY DEF Setups1, SetupRecords, TeamIds
<1>2. after(1) \in 1..n /\ after(1) # g.turn
  <2>1. CASE g.turn = n
    <3>1. n % n = 0
      BY <1>1
    <3>2. g.turn - 1 + 1 = n
      BY <1>1, <2>1
    <3> QED BY <1>1, <2>1, <3>1, <3>2
  <2>2. CASE g.turn < n
    <3>1. g.turn - 1 + 1 = g.turn /\ g.turn % n = g.turn
      BY <1>1, <2>2
    <3> QED BY <1>1, <2>2, <3>1
  <2> QED BY <1>1, <2>1, <2>2
<1>3. 1 \in live
  BY <1>1, <1>2, NobodyFinishes DEF TeamIds
<1>4. \A k \in live : k >= 1
  OBVIOUS
<1>5. first = 1
  <2> HIDE DEF live
  <2>1. \A k \in live : k \in Nat
    BY DEF live
  <2>2. first \in live /\ \A l \in live : first <= l
    BY <1>3, <1>4
  <2> HIDE DEF first
  <2> QED BY <1>3, <1>4, <2>1, <2>2
<1>6. NextTeam(c, g) = after(first)
  BY <1>3 DEF NextTeam
<1> HIDE DEF first, live
<1> QED BY <1>2, <1>5, <1>6

LEMMA GameFields ==
    ASSUME NEW c, NEW g \in GameRecords(c)
    PROVE  /\ g = [pos |-> g.pos, finishes |-> g.finishes, miniWins |-> g.miniWins,
                   lastAt |-> g.lastAt, turn |-> g.turn, queue |-> g.queue,
                   pendingThrow |-> g.pendingThrow, pendingMini |-> g.pendingMini,
                   history |-> g.history]
           /\ g.queue \in Nat /\ g.history \in Seq(EventRecords(c))
           /\ g.finishes \in [TeamIds(c) -> Nat] /\ g.miniWins \in [TeamIds(c) -> Nat]
BY DEF GameRecords

(* What passing the turn, if it is time, does to a game.                   *)
LEMMA AdvanceFacts ==
    ASSUME NEW c \in Setups1, NEW g \in GameRecords(c), g.turn \in TeamIds(c),
           NEW h, h = PassTurn(c, g) \/ h = AdvanceAfterMove(c, g)
    PROVE  /\ h.history = g.history /\ h.pendingThrow = g.pendingThrow
           /\ h.pendingMini = g.pendingMini
           /\ h.finishes = g.finishes /\ h.miniWins = g.miniWins
           /\ h = PassTurn(c, g) => h.turn = NextTeam(c, g) /\ h.queue = 1
           /\ h = AdvanceAfterMove(c, g) =>
                 IF g.queue = 0 THEN h = PassTurn(c, g) ELSE h = g
<1>1. /\ PassTurn(c, g).history = g.history /\ PassTurn(c, g).pendingThrow = g.pendingThrow
      /\ PassTurn(c, g).pendingMini = g.pendingMini
      /\ PassTurn(c, g).finishes = g.finishes /\ PassTurn(c, g).miniWins = g.miniWins
      /\ PassTurn(c, g).turn = NextTeam(c, g) /\ PassTurn(c, g).queue = 1
  BY DEF PassTurn, GameRecords
<1>2. AdvanceAfterMove(c, g) = IF g.queue = 0 THEN PassTurn(c, g) ELSE g
  BY NobodyFinishes DEF AdvanceAfterMove
<1> QED BY <1>1, <1>2

(* What a move does to the game, and which mini-game it opens, if any.     *)
LEMMA CommitFacts ==
    ASSUME NEW c \in Setups1, NEW g, Clear(c, g), NEW roll \in Rolls,
           NEW cand \in Candidates(c, g, roll), NEW at \in Nat,
           NEW m, m = CommitMove(c, g, roll, cand, at)
    PROVE  /\ GameInv(c, m) /\ m.pendingThrow = None
           /\ m.history = Append(g.history, TurnEvent(g, roll, cand, at))
           /\ \A t \in TeamIds(c) : m.finishes[t] =
                 IF t = g.turn /\ cand.to = HOME THEN g.finishes[t] + 1 ELSE g.finishes[t]
           /\ m.miniWins = g.miniWins
           /\ m.pendingMini # None =>
                 /\ m.pendingMini.game = None
                 /\ m.pendingMini.team = g.turn
                 /\ m.pendingMini.vs = IF WillDuel(c, cand) THEN VsTeam(cand) ELSE None
                 /\ m.turn = g.turn /\ m.queue = g.queue + Bonus(roll, cand)
           /\ m.pendingMini = None =>
                 IF g.queue + Bonus(roll, cand) = 0
                 THEN m.queue = 1 /\ (c.teams >= 2 => m.turn # g.turn)
                 ELSE m.queue = g.queue + Bonus(roll, cand) /\ m.turn = g.turn
<1> DEFINE d == Moved(c, g, roll, cand, at)
           e == TurnEvent(g, roll, cand, at)
<1>0. GameInv(c, m)
  BY CommitInv
<1>1. d \in GameRecords(c) /\ d.turn = g.turn /\ d.pendingThrow = None /\ d.pendingMini = None
  <2> HIDE DEF d
  <2>1. d = Moved(c, g, roll, cand, at)
    BY DEF d
  <2> QED BY <2>1, MovedFacts
<1>2. g \in GameRecords(c) /\ g.turn \in TeamIds(c)
  BY DEF Clear
<1>3. /\ d.history = Append(g.history, e) /\ d.miniWins = g.miniWins
      /\ d.queue = g.queue + Bonus(roll, cand)
      /\ \A t \in TeamIds(c) : d.finishes[t] =
            IF t = g.turn /\ cand.to = HOME THEN g.finishes[t] + 1 ELSE g.finishes[t]
  <2>1. d.finishes = [g.finishes EXCEPT ![g.turn] = @ + (IF cand.to = HOME THEN 1 ELSE 0)]
    BY <1>2 DEF Moved, GameRecords
  <2>2. g.finishes \in [TeamIds(c) -> Nat]
    BY <1>2 DEF GameRecords
  <2>3. /\ d.history = Append(g.history, e) /\ d.miniWins = g.miniWins
        /\ d.queue = g.queue + Bonus(roll, cand)
    <3> HIDE DEF e
    <3> QED BY <1>2 DEF Moved, GameRecords, e
  <2> HIDE DEF d
  <2> QED BY <2>1, <2>2, <2>3
<1>4. cand.mal[1] = g.turn
  BY <1>2, CandidateFacts
<1> HIDE DEF d, e
<1>5. CASE WillDuel(c, cand) \/ (c.miniGames /\ cand.to \in MINIGAME_STATIONS)
  <2> DEFINE v == IF WillDuel(c, cand) THEN VsTeam(cand) ELSE None
  <2>1. m = [d EXCEPT !.pendingMini = MiniGame(cand, v)]
    BY <1>5 DEF CommitMove, d
  <2>2. /\ g.turn \in TeamIds(c) /\ cand.mal \in Mals(c) /\ cand.captures \subseteq Mals(c)
        /\ cand.to \in OnBoard \cup {HOME}
    BY <1>2, CandidateFacts DEF CandidateRecords
  <2>3. cand.to \in OnBoard
    BY <1>5, <2>2 DEF WillDuel, MINIGAME_STATIONS, OnBoard, CENTER
  <2>4. v \in TeamIds(c) \cup {None}
    BY <2>2, VsTeamIsCaught DEF WillDuel, Setups1
  <2> HIDE DEF v
  <2>5. MiniGame(cand, v) \in MiniRecords(c)
    BY <1>4, <2>2, <2>3, <2>4 DEF MiniGame, MiniRecords
  <2>6. MiniGame(cand, v) # None
    BY <2>5, MiniIsSome
  <2>7. /\ m.pendingThrow = None /\ m.history = d.history /\ m.finishes = d.finishes
        /\ m.miniWins = d.miniWins /\ m.turn = d.turn /\ m.queue = d.queue
        /\ m.pendingMini = MiniGame(cand, v)
    BY <1>1, <2>1 DEF GameRecords
  <2>8. MiniGame(cand, v).game = None /\ MiniGame(cand, v).team = g.turn /\ MiniGame(cand, v).vs = v
    BY <1>4 DEF MiniGame
  <2> QED BY <1>0, <1>1, <1>3, <2>6, <2>7, <2>8 DEF v, e
<1>6. CASE ~(WillDuel(c, cand) \/ (c.miniGames /\ cand.to \in MINIGAME_STATIONS))
  <2>1. m = AdvanceAfterMove(c, d)
    BY <1>6 DEF CommitMove, d
  <2>2. /\ m.history = d.history /\ m.pendingThrow = None /\ m.pendingMini = None
        /\ m.finishes = d.finishes /\ m.miniWins = d.miniWins
        /\ IF d.queue = 0 THEN m.turn = NextTeam(c, d) /\ m.queue = 1 ELSE m = d
    BY <1>1, <1>2, <2>1, AdvanceFacts
  <2>3. c.teams >= 2 => NextTeam(c, d) # d.turn
    BY <1>1, <1>2, TurnMovesOn
  <2> QED BY <1>0, <1>1, <1>3, <2>2, <2>3 DEF e
<1> QED BY <1>5, <1>6
-----------------------------------------------------------------------------
(* Replaying the move a game has logged opens what the move opened *)

(* The game with a throw nobody moved on taken back.                       *)
RestedOf(g) == [g EXCEPT !.pendingThrow = None, !.queue = Open(g)]

(* The game with a throw less owed.                                        *)
Spent(g) == [g EXCEPT !.queue = @ - 1]

(* The first two steps of the replay of an event: its throw and its move.  *)
Opened(c, g, ev) ==
    LET thrown == IF g = None THEN None ELSE ReplayThrow(c, g, ev)
    IN  IF thrown = None THEN None ELSE ReplayMove(c, thrown, ev)

LEMMA EventOpened ==
    ASSUME NEW c, NEW g, NEW ev
    PROVE  ReplayEvent(c, g, ev) =
              IF Opened(c, g, ev) = None THEN None ELSE ReplayMini(c, Opened(c, g, ev), ev)
BY DEF ReplayEvent, Opened

LEMMA CommitForgetsThrow ==
    ASSUME NEW c, NEW g \in GameRecords(c), NEW t \in ThrowRecords(c) \cup {None},
           NEW h, h = [g EXCEPT !.pendingThrow = t], NEW roll, NEW cand, NEW at
    PROVE  CommitMove(c, h, roll, cand, at) = CommitMove(c, g, roll, cand, at)
<1> DEFINE e == TurnEvent(g, roll, cand, at)
           pos1 == [m \in DOMAIN g.pos |-> IF m = cand.mal THEN Landing(cand)
                                           ELSE IF m \in SentHome(c, cand) THEN WAITING
                                           ELSE g.pos[m]]
           finishes1 == [g.finishes EXCEPT ![g.turn] = @ + (IF cand.to = HOME THEN 1 ELSE 0)]
           lastAt1 == [g.lastAt EXCEPT ![g.turn] = at]
           queue1 == g.queue + Bonus(roll, cand)
           history1 == Append(g.history, e)
           d == [pos |-> pos1, finishes |-> finishes1, miniWins |-> g.miniWins, lastAt |-> lastAt1,
                 turn |-> g.turn, queue |-> queue1, pendingThrow |-> None,
                 pendingMini |-> g.pendingMini, history |-> history1]
<1>1. /\ h \in GameRecords(c) /\ h.pos = g.pos /\ h.finishes = g.finishes
      /\ h.miniWins = g.miniWins /\ h.lastAt = g.lastAt /\ h.turn = g.turn
      /\ h.queue = g.queue /\ h.pendingMini = g.pendingMini /\ h.history = g.history
  BY DEF GameRecords
<1>2. TurnEvent(h, roll, cand, at) = e
  BY <1>1 DEF TurnEvent
<1> HIDE DEF e
<1>3. PICK x, y : x = Moved(c, g, roll, cand, at) /\ y = Moved(c, h, roll, cand, at)
  OBVIOUS
<1>4. x = d
  BY <1>3 DEF Moved, GameRecords, e
<1>5. y = d
  BY <1>1, <1>2, <1>3 DEF Moved, GameRecords
<1> QED BY <1>3, <1>4, <1>5 DEF CommitMove

(* A candidate is known by its mal and where it goes.                      *)
LEMMA CandidateIsKnown ==
    ASSUME NEW c, NEW g, NEW roll, NEW x \in Candidates(c, g, roll),
           NEW y \in Candidates(c, g, roll), x.mal = y.mal, x.to = y.to
    PROVE  x = y
<1>1. \A z \in Candidates(c, g, roll) : z = Candidate(g, z.mal, z.to)
  BY DEF Candidates, Candidate
<1> QED BY <1>1

LEMMA SpentFacts ==
    ASSUME NEW c, NEW g \in GameRecords(c), g.queue > 0
    PROVE  /\ Spent(g) \in GameRecords(c)
           /\ Spent(g).pos = g.pos /\ Spent(g).turn = g.turn /\ Spent(g).queue = g.queue - 1
           /\ Spent(g).pendingThrow = g.pendingThrow /\ Spent(g).pendingMini = g.pendingMini
           /\ Spent(g).finishes = g.finishes /\ Spent(g).miniWins = g.miniWins
           /\ Spent(g).history = g.history
           /\ \A roll : Candidates(c, Spent(g), roll) = Candidates(c, g, roll)
           /\ Clear(c, g) => Clear(c, Spent(g))
<1>1. g.queue - 1 \in Nat
  BY DEF GameRecords
<1>2. /\ Spent(g) \in GameRecords(c)
      /\ Spent(g).pos = g.pos /\ Spent(g).turn = g.turn /\ Spent(g).queue = g.queue - 1
      /\ Spent(g).pendingThrow = g.pendingThrow /\ Spent(g).pendingMini = g.pendingMini
      /\ Spent(g).finishes = g.finishes /\ Spent(g).miniWins = g.miniWins
      /\ Spent(g).history = g.history
  BY <1>1 DEF Spent, GameRecords
<1> QED BY <1>2, CandidatesOfBoard DEF Clear, Shared

(* Throwing the same and moving the same mal to the same place makes the
   same move.                                                              *)
LEMMA MoveOpens ==
    ASSUME NEW c \in Setups1, NoneApart(c), NEW g, Clear(c, g), CanThrow(g),
           NEW roll \in Rolls, NEW cand \in Candidates(c, g, roll), NEW at \in Nat,
           NEW ev, ev.roll = roll, ev.mal = cand.mal, ev.to = cand.to, ev.at = at
    PROVE  /\ Opened(c, g, ev) = CommitMove(c, Spent(g), roll, cand, at)
           /\ Opened(c, g, ev) # None
<1> DEFINE left  == Spent(g)
           cands == Candidates(c, g, roll)
           t     == [team |-> g.turn, roll |-> roll, at |-> at, candidates |-> cands]
           m     == CommitMove(c, left, roll, cand, at)
<1>1. /\ g \in GameRecords(c) /\ g.turn \in TeamIds(c) /\ g # None
      /\ g.pendingThrow = None /\ g.pendingMini = None /\ g.queue \in Nat /\ g.queue > 0
  BY DEF Clear, CanThrow, NoneApart, GameRecords
<1>2. /\ left \in GameRecords(c) /\ left.pos = g.pos /\ left.turn = g.turn
      /\ left.pendingThrow = None /\ left.pendingMini = None
      /\ Clear(c, left) /\ cands = Candidates(c, left, roll)
  BY <1>1, SpentFacts
<1>5. m.pendingThrow = None /\ m # None
  <2> HIDE DEF left
  <2>1. cand \in Candidates(c, left, roll)
    BY <1>2
  <2>2. PICK n : n = CommitMove(c, left, roll, cand, at)
    OBVIOUS
  <2> HIDE DEF cands, m
  <2>3. GameInv(c, n) /\ n.pendingThrow = None
    BY <1>2, <2>1, <2>2, CommitFacts
  <2>4. m = n
    BY <2>2 DEF m
  <2> QED BY <2>3, <2>4 DEF GameInv, NoneApart
<1>6. ReplayThrow(c, g, ev) =
         IF \E only \in cands : cands = {only}
         THEN CommitMove(c, left, roll, CHOOSE only \in cands : TRUE, at)
         ELSE [left EXCEPT !.pendingThrow = t]
  BY DEF ReplayThrow, ThrowStick, Spent
<1> HIDE DEF left, m
<1>7. CASE \E only \in cands : cands = {only}
  <2>1. (CHOOSE only \in cands : TRUE) = cand
    BY <1>7
  <2>2. ReplayThrow(c, g, ev) = m
    BY <1>6, <1>7, <2>1 DEF m
  <2>3. Opened(c, g, ev) = m
    BY <1>1, <1>5, <2>2 DEF Opened, ReplayMove
  <2> QED BY <1>5, <2>3 DEF m, left
<1>8. CASE ~ \E only \in cands : cands = {only}
  <2> DEFINE thrown == [left EXCEPT !.pendingThrow = t]
             picked == {x \in cands : x.mal = ev.mal /\ x.to = ev.to}
  <2>1. t \in ThrowRecords(c) /\ t # None /\ t.candidates = cands /\ t.roll = roll
    <3>1. cands \subseteq CandidateRecords(c)
      BY <1>1, CandidateFacts
    <3> HIDE DEF cands
    <3> QED BY <1>1, <3>1 DEF ThrowRecords, NoneApart
  <2> HIDE DEF t
  <2>2. thrown \in GameRecords(c) /\ thrown # None /\ thrown.pendingThrow = t
    BY <1>2, <2>1 DEF GameRecords, NoneApart
  <2>3. ReplayThrow(c, g, ev) = thrown
    BY <1>6, <1>8
  <2>4. CommitMove(c, thrown, roll, cand, at) = m
    BY <1>2, <2>1, CommitForgetsThrow DEF m
  <2> HIDE DEF thrown
  <2>5. picked = {cand}
    BY CandidateIsKnown
  <2>6. (CHOOSE x \in picked : TRUE) = cand
    BY <2>5
  <2>7. ReplayMove(c, thrown, ev) = CommitMove(c, thrown, roll, cand, at)
    BY <2>1, <2>2, <2>5, <2>6 DEF ReplayMove
  <2>8. Opened(c, g, ev) = m
    BY <1>1, <2>2, <2>3, <2>4, <2>7 DEF Opened
  <2> QED BY <1>5, <2>8 DEF m, left
<1> QED BY <1>7, <1>8
-----------------------------------------------------------------------------
(* Fidelity *)

(* The log of a game replays to it, bar what is pending; with a mini-game in
   progress, the last event opens it again from what the others replay to. *)
Faithful(c, at, g) ==
    IF g.pendingMini = None
    THEN Replay(c, at, g.history) = RestedOf(g)
    ELSE Opened(c, Replay(c, at, ButLast(g.history)), Last(g.history)) = SpinMiniGame(g, None)

LEMMA RestFacts ==
    ASSUME NEW c, NEW g \in GameRecords(c), NEW b, b = RestedOf(g)
    PROVE  /\ b \in GameRecords(c) /\ b.pendingThrow = None
           /\ b.pos = g.pos /\ b.turn = g.turn /\ b.history = g.history
           /\ b.finishes = g.finishes /\ b.miniWins = g.miniWins
           /\ b.lastAt = g.lastAt /\ b.pendingMini = g.pendingMini
           /\ b.queue = Open(g) /\ Open(b) = Open(g) /\ Open(g) \in Nat
           /\ g.pendingThrow = None => b = g
<1> DEFINE q == g.queue + (IF g.pendingThrow = None THEN 0 ELSE 1)
<1>1. b = [g EXCEPT !.pendingThrow = None, !.queue = q]
  BY DEF RestedOf, Open
<1>2. q \in Nat /\ g.queue \in Nat
  BY DEF GameRecords
<1>3. g.pendingThrow = None => q = g.queue
  BY <1>2
<1>4. Open(g) = q
  BY DEF Open
<1> HIDE DEF q
<1>5. g.pendingThrow = None => b = g
  BY <1>1, <1>3 DEF GameRecords
<1>6. /\ b \in GameRecords(c) /\ b.pendingThrow = None /\ b.queue = q
      /\ b.pos = g.pos /\ b.turn = g.turn /\ b.history = g.history
      /\ b.finishes = g.finishes /\ b.miniWins = g.miniWins
      /\ b.lastAt = g.lastAt /\ b.pendingMini = g.pendingMini
  BY <1>1, <1>2 DEF GameRecords
<1>7. Open(b) = q
  BY <1>2, <1>6 DEF Open
<1> QED BY <1>2, <1>4, <1>5, <1>6, <1>7

LEMMA ButLastOfMore ==
    ASSUME NEW S, NEW h \in Seq(S), NEW e \in S
    PROVE  ButLast(Append(h, e)) = h /\ Last(Append(h, e)) = e
<1>1. Len(Append(h, e)) = Len(h) + 1 /\ Len(h) \in Nat
  OBVIOUS
<1>2. SubSeq(Append(h, e), 1, Len(h)) = h
  OBVIOUS
<1> QED BY <1>1, <1>2 DEF ButLast, Last

(* A fresh game.                                                           *)
LEMMA FreshFaithful ==
    ASSUME NEW c \in Setups1, NEW at \in Nat
    PROVE  Faithful(c, at, FreshGame(c, at))
<1>1. FreshGame(c, at) \in GameRecords(c)
  BY FreshClear DEF GameInv
<1>2. /\ FreshGame(c, at).history = <<>> /\ FreshGame(c, at).pendingThrow = None
      /\ FreshGame(c, at).pendingMini = None
  BY DEF FreshGame
<1>3. RestedOf(FreshGame(c, at)) = FreshGame(c, at)
  BY <1>1, <1>2, RestFacts
<1> QED BY <1>2, <1>3, ReplayNothing DEF Faithful

(* A move made on a throw, whether it waited for the choice or not.        *)
LEMMA MoveFaithful ==
    ASSUME NEW c \in Setups1, NoneApart(c), NEW at \in Nat, NEW g, GameInv(c, g), Faithful(c, at, g),
           g.pendingMini = None, NEW b, b = RestedOf(g), b.queue > 0,
           NEW roll \in Rolls, NEW cand \in Candidates(c, g, roll), NEW now \in Nat,
           NEW m, m = CommitMove(c, Spent(b), roll, cand, now)
    PROVE  Faithful(c, at, m)
<1> DEFINE left == Spent(b)
<1>1. /\ g \in GameRecords(c) /\ g.turn \in TeamIds(c)
      /\ b \in GameRecords(c) /\ b.pendingThrow = None /\ b.pendingMini = None
      /\ b.pos = g.pos /\ b.turn = g.turn /\ b.history = g.history
  BY RestFacts DEF GameInv
<1>2. Clear(c, g)
  BY ClearFromInv
<1>3. Clear(c, b)
  BY <1>1, <1>2 DEF Clear, Shared
<1>4. cand \in Candidates(c, b, roll)
  BY <1>1, CandidatesOfBoard
<1>5. /\ left \in GameRecords(c) /\ left.history = b.history
      /\ Clear(c, left) /\ cand \in Candidates(c, left, roll)
  BY <1>1, <1>3, <1>4, SpentFacts
<1>6. m = CommitMove(c, left, roll, cand, now)
  OBVIOUS
<1> HIDE DEF left
<1>8. PICK ev : ev = TurnEvent(left, roll, cand, now)
  OBVIOUS
<1>9. ev \in EventRecords(c)
  BY <1>5, <1>8, TurnEventType
<1>10. /\ GameInv(c, m) /\ m.pendingThrow = None /\ m.history = Append(g.history, ev)
       /\ m.pendingMini # None => m.pendingMini.game = None
  <2>1. /\ GameInv(c, m) /\ m.pendingThrow = None
        /\ m.history = Append(left.history, TurnEvent(left, roll, cand, now))
        /\ m.pendingMini # None => m.pendingMini.game = None
    BY <1>5, <1>6, CommitFacts
  <2> QED BY <1>1, <1>5, <1>8, <2>1
<1>11. /\ ev.roll = roll /\ ev.mal = cand.mal /\ ev.to = cand.to /\ ev.at = now
       /\ ev.mini = None
  BY <1>8 DEF TurnEvent
<1>12. Opened(c, b, ev) = m /\ m # None
  <2>1. CanThrow(b)
    BY <1>1 DEF CanThrow
  <2> QED BY <1>3, <1>4, <1>6, <1>11, <2>1, MoveOpens DEF left
<1>13. Replay(c, at, g.history) = b
  BY DEF Faithful
<1>14. g.history \in Seq(EventRecords(c)) /\ m \in GameRecords(c)
  BY <1>1, <1>10 DEF GameRecords, GameInv
<1>15. CASE m.pendingMini = None
  <2>1. Replay(c, at, m.history) = ReplayEvent(c, b, ev)
    <3>1. Replay(c, at, Append(g.history, ev)) = ReplayEvent(c, Replay(c, at, g.history), ev)
      BY <1>9, <1>14, ReplayOneMore
    <3> QED BY <1>10, <1>13, <3>1
  <2>2. ReplayEvent(c, b, ev) = m
    BY <1>12, <1>15, EventOpened DEF ReplayMini
  <2>3. RestedOf(m) = m
    BY <1>10, <1>14, RestFacts
  <2> QED BY <1>15, <2>1, <2>2, <2>3 DEF Faithful
<1>16. CASE m.pendingMini # None
  <2>1. ButLast(m.history) = g.history /\ Last(m.history) = ev
    <3>1. ButLast(Append(g.history, ev)) = g.history /\ Last(Append(g.history, ev)) = ev
      BY <1>9, <1>14, ButLastOfMore
    <3> QED BY <1>10, <3>1
  <2>2. SpinMiniGame(m, None) = m
    <3>1. m.pendingMini \in MiniRecords(c)
      BY <1>14, <1>16 DEF GameRecords
    <3>2. [m.pendingMini EXCEPT !.game = None] = m.pendingMini
      BY <1>10, <1>16, <3>1 DEF MiniRecords
    <3> QED BY <1>14, <3>2 DEF SpinMiniGame, GameRecords
  <2> QED BY <1>12, <1>13, <1>16, <2>1, <2>2 DEF Faithful
<1> QED BY <1>15, <1>16
(* A throw is a move at once, or waits for one and is taken back.          *)
LEMMA ThrowFacts ==
    ASSUME NEW c \in Setups1, NoneApart(c), NEW g, GameInv(c, g), CanThrow(g),
           NEW roll \in Rolls, NEW at \in Nat, NEW h, h = ThrowStick(c, g, roll, at)
    PROVE  \/ \E cand \in Candidates(c, g, roll) : h = CommitMove(c, Spent(g), roll, cand, at)
           \/ /\ h.pendingThrow # None /\ h.pendingMini = None
              /\ h.history = g.history /\ h.turn = g.turn /\ h.queue = g.queue - 1
              /\ h.finishes = g.finishes /\ h.miniWins = g.miniWins
              /\ RestedOf(h) = g
<1> DEFINE cands == Candidates(c, g, roll)
           t == [team |-> g.turn, roll |-> roll, at |-> at, candidates |-> cands]
<1>1. /\ g \in GameRecords(c) /\ g.turn \in TeamIds(c) /\ g.queue \in Nat /\ g.queue > 0
      /\ g.pendingThrow = None /\ g.pendingMini = None
  BY DEF GameInv, CanThrow, GameRecords
<1>2. h = IF \E only \in cands : cands = {only}
          THEN CommitMove(c, Spent(g), roll, CHOOSE only \in cands : TRUE, at)
          ELSE [Spent(g) EXCEPT !.pendingThrow = t]
  BY DEF ThrowStick, Spent
<1>3. CASE \E only \in cands : cands = {only}
  <2>1. (CHOOSE only \in cands : TRUE) \in cands
    BY <1>3
  <2> QED BY <1>2, <1>3, <2>1
<1>4. CASE ~ \E only \in cands : cands = {only}
  <2>1. t \in ThrowRecords(c) /\ t # None
    <3>1. cands \subseteq CandidateRecords(c)
      BY <1>1, CandidateFacts
    <3> HIDE DEF cands
    <3> QED BY <1>1, <3>1 DEF ThrowRecords, NoneApart
  <2> HIDE DEF t, cands
  <2>2. PICK s : s = Spent(g)
    OBVIOUS
  <2>3. h = [s EXCEPT !.pendingThrow = t]
    BY <1>2, <1>4, <2>2
  <2>4. /\ s \in GameRecords(c)
        /\ s.turn = g.turn /\ s.queue = g.queue - 1 /\ s.pendingMini = None
        /\ s.finishes = g.finishes /\ s.miniWins = g.miniWins /\ s.history = g.history
    BY <1>1, <2>2, SpentFacts
  <2>5. /\ h \in GameRecords(c) /\ h.pendingThrow = t /\ h.pendingMini = None
        /\ h.history = g.history /\ h.turn = g.turn /\ h.queue = g.queue - 1
        /\ h.finishes = g.finishes /\ h.miniWins = g.miniWins
    BY <2>1, <2>3, <2>4 DEF GameRecords
  <2>6. RestedOf(h) = g
    <3>1. h = [g EXCEPT !.queue = g.queue - 1, !.pendingThrow = t]
      BY <1>1, <2>2, <2>3 DEF Spent, GameRecords
    <3>2. g.queue - 1 + 1 = g.queue
      BY <1>1
    <3>3. PICK b : b = RestedOf(h)
      OBVIOUS
    <3>4. b = [h EXCEPT !.pendingThrow = None, !.queue = g.queue]
      BY <2>1, <2>5, <3>2, <3>3 DEF RestedOf, Open
    <3>5. b = g
      BY <1>1, <3>1, <3>4 DEF GameRecords
    <3> QED BY <3>3, <3>5
  <2> QED BY <2>1, <2>5, <2>6
<1> QED BY <1>3, <1>4

LEMMA SpinFacts ==
    ASSUME NEW c \in Setups1, NEW g, GameInv(c, g), g.pendingMini # None,
           NEW id \in MiniGames \cup {None}, NEW h, h = SpinMiniGame(g, id)
    PROVE  /\ GameInv(c, h) /\ h.pendingMini # None
           /\ h.history = g.history /\ h.turn = g.turn /\ h.queue = g.queue
           /\ h.pendingThrow = g.pendingThrow
           /\ h.finishes = g.finishes /\ h.miniWins = g.miniWins
           /\ h.pendingMini.team = g.pendingMini.team /\ h.pendingMini.vs = g.pendingMini.vs
           /\ h.pendingMini.game = id
           /\ SpinMiniGame(h, None) = SpinMiniGame(g, None)
           /\ SpinMiniGame(SpinMiniGame(g, None), g.pendingMini.game) = g
<1>1. GameInv(c, h) /\ h.pendingMini # None
  BY SpinInv
<1>2. g \in GameRecords(c) /\ g.pendingMini \in MiniRecords(c)
  BY DEF GameInv, GameRecords
<1>3. /\ h.history = g.history /\ h.turn = g.turn /\ h.queue = g.queue
      /\ h.finishes = g.finishes /\ h.miniWins = g.miniWins
      /\ h.pendingThrow = g.pendingThrow
      /\ h.pendingMini = [g.pendingMini EXCEPT !.game = id]
  BY <1>2 DEF SpinMiniGame, GameRecords
<1>4. h.pendingMini.team = g.pendingMini.team /\ h.pendingMini.vs = g.pendingMini.vs
      /\ h.pendingMini.game = id
  BY <1>2, <1>3 DEF MiniRecords
<1>5. SpinMiniGame(h, None) = SpinMiniGame(g, None)
  <2>1. PICK x, y : x = SpinMiniGame(h, None) /\ y = SpinMiniGame(g, None)
    OBVIOUS
  <2>2. PICK p : p = [g.pendingMini EXCEPT !.game = None]
    OBVIOUS
  <2>3. y = [g EXCEPT !.pendingMini = p]
    BY <1>2, <2>1, <2>2 DEF SpinMiniGame, GameRecords
  <2>4. [h.pendingMini EXCEPT !.game = None] = p
    BY <1>2, <1>3, <2>2 DEF MiniRecords
  <2>5. x = [h EXCEPT !.pendingMini = p]
    BY <1>1, <2>1, <2>4 DEF SpinMiniGame, GameRecords, GameInv
  <2>6. PICK q : q = [g.pendingMini EXCEPT !.game = id]
    OBVIOUS
  <2>7. h = [g EXCEPT !.pendingMini = q]
    BY <1>2, <2>6 DEF SpinMiniGame, GameRecords
  <2>8. x = y
    BY <1>2, <2>3, <2>5, <2>7 DEF GameRecords
  <2> QED BY <2>1, <2>8
<1>6. SpinMiniGame(SpinMiniGame(g, None), g.pendingMini.game) = g
  <2>1. PICK p, k : p = g.pendingMini /\ k = p.game
    OBVIOUS
  <2>2. PICK x : x = SpinMiniGame(g, None)
    OBVIOUS
  <2>3. PICK q : q = [p EXCEPT !.game = None]
    OBVIOUS
  <2>4. x = [g EXCEPT !.pendingMini = q]
    BY <1>2, <2>1, <2>2, <2>3 DEF SpinMiniGame, GameRecords
  <2>5. [q EXCEPT !.game = k] = p
    BY <1>2, <2>1, <2>3 DEF MiniRecords
  <2>6. PICK y : y = SpinMiniGame(x, k)
    OBVIOUS
  <2>7. x.pendingMini = q
    BY <1>2, <2>4 DEF GameRecords
  <2>8. y = [x EXCEPT !.pendingMini = p]
    BY <1>2, <2>4, <2>5, <2>6, <2>7 DEF SpinMiniGame, GameRecords
  <2>9. y = g
    BY <1>2, <2>1, <2>4, <2>8 DEF GameRecords
  <2> QED BY <2>1, <2>2, <2>6, <2>9
<1> QED BY <1>1, <1>3, <1>4, <1>5, <1>6
(* The event with a judgment on it.                                        *)
Judged(ev, id, success) == [ev EXCEPT !.mini = [game |-> id, success |-> success]]

(* The last event of a judged game has the judgment on it.                 *)
LEMMA StampedFacts ==
    ASSUME NEW c \in Setups1, NEW g, GameInv(c, g), g.pendingMini # None, NEW success \in BOOLEAN
    PROVE  \E ev \in EventRecords(c) :
              /\ Stamped(g, success) = Append(ButLast(g.history), ev)
              /\ ButLast(g.history) \in Seq(EventRecords(c))
              /\ Last(g.history) \in EventRecords(c)
              /\ g.history = Append(ButLast(g.history), Last(g.history))
              /\ ev = Judged(Last(g.history), g.pendingMini.game, success)
<1> DEFINE n == Len(g.history)
           o == [game |-> g.pendingMini.game, success |-> success]
           ev == [Last(g.history) EXCEPT !.mini = o]
           h == g.history
<1>1. g \in GameRecords(c) /\ h \in Seq(EventRecords(c)) /\ h # <<>>
      /\ g.pendingMini \in MiniRecords(c)
  BY DEF GameInv, PendingMiniMatches, GameRecords
<1>2. n \in Nat /\ n >= 1 /\ n \in 1..Len(h) /\ Last(h) = h[n]
  BY <1>1 DEF Last
<1>3. o \in Outcomes
  BY <1>1 DEF MiniRecords, Outcomes
<1>4. Last(h) \in EventRecords(c)
  BY <1>1, <1>2
<1>5. ev \in EventRecords(c)
  <2> HIDE DEF o
  <2> QED BY <1>3, <1>4 DEF EventRecords
<1>6. Stamped(g, success) = [h EXCEPT ![n] = ev]
  BY DEF Stamped, Last
<1> HIDE DEF ev, h, o
<1>7. ButLast(h) \in Seq(EventRecords(c)) /\ Len(ButLast(h)) = n - 1
      /\ \A i \in 1..(n-1) : ButLast(h)[i] = h[i]
  BY <1>1, <1>2 DEF ButLast, h
<1>8. ASSUME NEW e \in EventRecords(c)
      PROVE  [h EXCEPT ![n] = e] = Append(ButLast(h), e)
  <2>1. PICK s, t : s = [h EXCEPT ![n] = e] /\ t = Append(ButLast(h), e)
    OBVIOUS
  <2>2. s \in Seq(EventRecords(c)) /\ Len(s) = n /\ s[n] = e /\ \A i \in 1..(n-1) : s[i] = h[i]
    BY <1>1, <1>2, <2>1 DEF h
  <2>3. t \in Seq(EventRecords(c)) /\ Len(t) = n /\ t[n] = e /\ \A i \in 1..(n-1) : t[i] = h[i]
    BY <1>2, <1>7, <2>1 DEF h
  <2>4. \A i \in 1..n : s[i] = t[i]
    BY <1>2, <2>2, <2>3
  <2>5. s = t
    BY <2>2, <2>3, <2>4
  <2> QED BY <2>1, <2>5
<1>9. h = Append(ButLast(h), Last(h))
  <2>1. [h EXCEPT ![n] = Last(h)] = h
    BY <1>1, <1>2 DEF h
  <2> QED BY <1>4, <1>8, <2>1 DEF h
<1>10. Stamped(g, success) = Append(ButLast(h), ev)
  BY <1>5, <1>6, <1>8
<1> QED BY <1>4, <1>5, <1>7, <1>9, <1>10 DEF h, ev, o, Judged

(* A judgment: the winner's point, and the turn goes on only if the team won
   and is still owed a throw.                                              *)
LEMMA ResolveFacts ==
    ASSUME NEW c \in Setups1, NEW g, GameInv(c, g), g.pendingMini # None, NEW success \in BOOLEAN,
           NEW h, h = ResolveMiniGame(c, g, success)
    PROVE  /\ GameInv(c, h) /\ h.pendingThrow = None /\ h.pendingMini = None
           /\ h.history = Stamped(g, success) /\ h.finishes = g.finishes
           /\ \A t \in TeamIds(c) : h.miniWins[t] =
                 IF t \in Winners(g.pendingMini, success) THEN g.miniWins[t] + 1 ELSE g.miniWins[t]
           /\ IF success /\ g.queue # 0
              THEN h.turn = g.turn /\ h.queue = g.queue
              ELSE h.queue = 1 /\ (c.teams >= 2 => h.turn # g.turn)
<1> DEFINE p == g.pendingMini
           pos1 == JudgedPos(g, Last(g.history), p.vs # None, success)
           wins1 == [t \in DOMAIN g.miniWins |->
                       g.miniWins[t] + (IF t \in Winners(p, success) THEN 1 ELSE 0)]
           history1 == Stamped(g, success)
           done == [g EXCEPT !.pos = pos1, !.miniWins = wins1, !.pendingMini = None,
                             !.history = history1]
<1>1. /\ g \in GameRecords(c) /\ g.turn \in TeamIds(c) /\ g.pendingThrow = None
      /\ g.miniWins \in [TeamIds(c) -> Nat]
  BY DEF GameInv, PendingThrowMatches, GameRecords
<1>2. pos1 \in [Mals(c) -> Resting]
  <2> HIDE DEF pos1
  <2>1. pos1 = JudgedPos(g, Last(g.history), g.pendingMini.vs # None, success)
    BY DEF pos1
  <2> QED BY <2>1, JudgedPosFacts
<1>3. /\ wins1 \in [TeamIds(c) -> Nat]
      /\ \A t \in TeamIds(c) : wins1[t] =
            IF t \in Winners(p, success) THEN g.miniWins[t] + 1 ELSE g.miniWins[t]
  BY <1>1
<1>4. history1 \in Seq(EventRecords(c))
  <2>1. PICK ev \in EventRecords(c) :
           /\ Stamped(g, success) = Append(ButLast(g.history), ev)
           /\ ButLast(g.history) \in Seq(EventRecords(c))
    BY StampedFacts
  <2> QED BY <2>1
<1>5. h = IF success THEN AdvanceAfterMove(c, done) ELSE PassTurn(c, done)
  BY DEF ResolveMiniGame, Last
<1> HIDE DEF pos1, wins1, history1
<1>6. /\ done \in GameRecords(c) /\ done.turn = g.turn /\ done.pendingThrow = None
      /\ done.pendingMini = None /\ done.history = history1 /\ done.queue = g.queue
      /\ done.finishes = g.finishes /\ done.miniWins = wins1
  BY <1>1, <1>2, <1>3, <1>4 DEF GameRecords
<1> HIDE DEF done
<1>7. c.teams >= 2 => NextTeam(c, done) # done.turn
  BY <1>1, <1>6, TurnMovesOn
<1>8. /\ h.pendingThrow = None /\ h.pendingMini = None /\ h.history = history1
      /\ h.finishes = g.finishes /\ h.miniWins = wins1
  BY <1>1, <1>5, <1>6, AdvanceFacts
<1>9. CASE success /\ g.queue # 0
  <2>1. h = done
    BY <1>1, <1>5, <1>6, <1>9, AdvanceFacts
  <2> QED BY <1>3, <1>6, <1>8, <1>9, <2>1, ResolveInv DEF history1
<1>10. CASE ~(success /\ g.queue # 0)
  <2>1. h = PassTurn(c, done)
    BY <1>1, <1>5, <1>6, <1>10, AdvanceFacts
  <2>2. h.queue = 1 /\ h.turn = NextTeam(c, done)
    BY <1>1, <1>6, <2>1, AdvanceFacts
  <2> QED BY <1>3, <1>6, <1>7, <1>8, <1>10, <2>2, ResolveInv DEF history1
<1> QED BY <1>9, <1>10
LEMMA ThrowFaithful ==
    ASSUME NEW c \in Setups1, NoneApart(c), NEW at \in Nat, NEW g, GameInv(c, g), Faithful(c, at, g),
           CanThrow(g), NEW roll \in Rolls, NEW now \in Nat
    PROVE  Faithful(c, at, ThrowStick(c, g, roll, now))
<1>1. /\ g \in GameRecords(c) /\ g.pendingThrow = None /\ g.pendingMini = None /\ g.queue > 0
  BY DEF GameInv, CanThrow
<1>2. RestedOf(g) = g
  BY <1>1, RestFacts
<1>3. PICK h : h = ThrowStick(c, g, roll, now)
  OBVIOUS
<1>4. ASSUME NEW cand \in Candidates(c, g, roll), h = CommitMove(c, Spent(g), roll, cand, now)
      PROVE  Faithful(c, at, h)
  BY <1>1, <1>2, <1>4, MoveFaithful
<1>5. ASSUME h.pendingThrow # None, h.pendingMini = None, h.history = g.history, RestedOf(h) = g
      PROVE  Faithful(c, at, h)
  BY <1>1, <1>2, <1>5 DEF Faithful
<1> QED BY <1>3, <1>4, <1>5, ThrowFacts

(* The move that a pending throw waits for.                                *)
LEMMA PendingMove ==
    ASSUME NEW c \in Setups1, NEW g, GameInv(c, g), g.pendingThrow # None,
           NEW cand \in g.pendingThrow.candidates, NEW now \in Nat
    PROVE  /\ g.pendingMini = None /\ g.pendingThrow.roll \in Rolls
           /\ cand \in Candidates(c, g, g.pendingThrow.roll)
           /\ CommitMove(c, g, g.pendingThrow.roll, cand, now)
                 = CommitMove(c, Spent(RestedOf(g)), g.pendingThrow.roll, cand, now)
<1>1. /\ g \in GameRecords(c) /\ g.pendingMini = None /\ g.pendingThrow.roll \in Rolls
      /\ cand \in Candidates(c, g, g.pendingThrow.roll)
  BY DEF GameInv, PendingThrowMatches, GameRecords, ThrowRecords
<1>2. PICK s : s = Spent(RestedOf(g))
  OBVIOUS
<1>3. s = [g EXCEPT !.pendingThrow = None]
  <2>1. PICK b : b = RestedOf(g)
    OBVIOUS
  <2>2. b = [g EXCEPT !.pendingThrow = None, !.queue = g.queue + 1]
    BY <1>1, <2>1 DEF RestedOf, Open, GameRecords
  <2>3. g.queue \in Nat /\ (g.queue + 1) - 1 = g.queue
    BY <1>1 DEF GameRecords
  <2>4. s = [b EXCEPT !.queue = g.queue]
    BY <1>1, <1>2, <2>1, <2>2, <2>3 DEF Spent, GameRecords
  <2> QED BY <1>1, <2>2, <2>4 DEF GameRecords
<1>4. CommitMove(c, s, g.pendingThrow.roll, cand, now) = CommitMove(c, g, g.pendingThrow.roll, cand, now)
  BY <1>1, <1>3, CommitForgetsThrow
<1> QED BY <1>1, <1>2, <1>4

LEMMA PendingMoveFaithful ==
    ASSUME NEW c \in Setups1, NoneApart(c), NEW at \in Nat, NEW g, GameInv(c, g), Faithful(c, at, g),
           g.pendingThrow # None, NEW cand \in g.pendingThrow.candidates, NEW now \in Nat
    PROVE  Faithful(c, at, CommitMove(c, g, g.pendingThrow.roll, cand, now))
<1>1. PICK b, roll, m : /\ b = RestedOf(g) /\ roll = g.pendingThrow.roll
                        /\ m = CommitMove(c, g, roll, cand, now)
  OBVIOUS
<1>2. /\ g.pendingMini = None /\ roll \in Rolls /\ cand \in Candidates(c, g, roll)
      /\ m = CommitMove(c, Spent(b), roll, cand, now)
  BY <1>1, PendingMove
<1>3. b.queue > 0
  <2>1. g \in GameRecords(c) /\ g.queue \in Nat
    BY DEF GameInv, GameRecords
  <2> QED BY <1>1, <2>1, RestFacts DEF Open
<1>4. Faithful(c, at, m)
  BY <1>1, <1>2, <1>3, MoveFaithful
<1> QED BY <1>1, <1>4

(* A throw taken back is no change to the log, and none to what it tells.  *)
LEMMA RestedFaithful ==
    ASSUME NEW c \in Setups1, NEW at \in Nat, NEW g, GameInv(c, g), Faithful(c, at, g)
    PROVE  Faithful(c, at, RestedOf(g))
<1>1. g \in GameRecords(c)
  BY DEF GameInv
<1>2. PICK b : b = RestedOf(g)
  OBVIOUS
<1>3. /\ b \in GameRecords(c) /\ b.pendingThrow = None /\ b.pendingMini = g.pendingMini
      /\ b.history = g.history /\ (g.pendingThrow = None => b = g)
  BY <1>1, <1>2, RestFacts
<1>4. RestedOf(b) = b
  BY <1>3, RestFacts
<1>5. g.pendingThrow # None => g.pendingMini = None
  BY DEF GameInv, PendingThrowMatches
<1> QED BY <1>2, <1>3, <1>4, <1>5 DEF Faithful

LEMMA SpinFaithful ==
    ASSUME NEW c \in Setups1, NEW at \in Nat, NEW g, GameInv(c, g), Faithful(c, at, g),
           g.pendingMini # None, NEW id \in MiniGames \cup {None}
    PROVE  Faithful(c, at, SpinMiniGame(g, id))
<1>1. PICK h : h = SpinMiniGame(g, id)
  OBVIOUS
<1>2. h.pendingMini # None /\ h.history = g.history /\ SpinMiniGame(h, None) = SpinMiniGame(g, None)
  BY <1>1, SpinFacts
<1> QED BY <1>1, <1>2 DEF Faithful

(* What an event opens does not depend on its outcome.                     *)
LEMMA OpenedBefore ==
    ASSUME NEW c, NEW b, NEW d, NEW e, d.roll = e.roll, d.mal = e.mal, d.to = e.to, d.at = e.at
    PROVE  Opened(c, b, d) = Opened(c, b, e)
<1>1. \A x : ReplayThrow(c, x, d) = ReplayThrow(c, x, e)
  BY DEF ReplayThrow
<1>2. \A x : ReplayMove(c, x, d) = ReplayMove(c, x, e)
  BY DEF ReplayMove
<1> QED BY <1>1, <1>2 DEF Opened

LEMMA ResolveFaithful ==
    ASSUME NEW c \in Setups1, NoneApart(c), NEW at \in Nat, NEW g, GameInv(c, g), Faithful(c, at, g),
           g.pendingMini # None, NEW success \in BOOLEAN
    PROVE  Faithful(c, at, ResolveMiniGame(c, g, success))
<1>1. PICK h, x, pre, old : /\ h = ResolveMiniGame(c, g, success) /\ x = SpinMiniGame(g, None)
                            /\ pre = ButLast(g.history) /\ old = Last(g.history)
  OBVIOUS
<1>2. /\ GameInv(c, h) /\ h.pendingThrow = None /\ h.pendingMini = None
      /\ h.history = Stamped(g, success)
  BY <1>1, ResolveFacts
<1>3. /\ g.pendingMini.game \in MiniGames \cup {None}
      /\ g \in GameRecords(c)
  BY DEF GameInv, GameRecords, MiniRecords
<1>4. PICK ev \in EventRecords(c) :
         /\ h.history = Append(pre, ev) /\ pre \in Seq(EventRecords(c)) /\ old \in EventRecords(c)
         /\ ev = Judged(old, g.pendingMini.game, success)
  BY <1>1, <1>2, StampedFacts
<1>5. /\ ev.roll = old.roll /\ ev.mal = old.mal /\ ev.to = old.to /\ ev.at = old.at
      /\ ev.mini = [game |-> g.pendingMini.game, success |-> success]
  BY <1>4 DEF EventRecords, Judged
<1>6. ev.mini # None /\ ev.mini.game = g.pendingMini.game /\ ev.mini.success = success
  BY <1>3, <1>5 DEF NoneApart, Outcomes
<1>7. GameInv(c, x) /\ x.pendingMini # None /\ x # None
      /\ SpinMiniGame(x, g.pendingMini.game) = g
  BY <1>1, SpinFacts DEF GameInv, NoneApart
<1>8. Opened(c, Replay(c, at, pre), ev) = x
  <2>1. Opened(c, Replay(c, at, pre), old) = x
    BY <1>1 DEF Faithful
  <2> QED BY <1>5, <2>1, OpenedBefore
<1>9. ReplayMini(c, x, ev) = h
  BY <1>1, <1>6, <1>7 DEF ReplayMini
<1>10. Replay(c, at, Append(pre, ev)) = ReplayEvent(c, Replay(c, at, pre), ev)
  BY <1>4, ReplayOneMore
<1>11. Replay(c, at, h.history) = h
  BY <1>4, <1>7, <1>8, <1>9, <1>10, EventOpened
<1>12. RestedOf(h) = h
  BY <1>2, RestFacts DEF GameInv
<1> QED BY <1>1, <1>2, <1>11, <1>12 DEF Faithful
-----------------------------------------------------------------------------
(* What play keeps, replay keeps *)

(* Good is kept by whatever a game goes through.                           *)
KeptByPlay(c, Good) ==
    /\ \A g \in Good : GameInv(c, g)
    /\ \A g \in Good, roll \in Rolls, now \in Nat :
          CanThrow(g) => ThrowStick(c, g, roll, now) \in Good
    /\ \A g \in Good, now \in Nat :
          g.pendingThrow # None =>
             \A cand \in g.pendingThrow.candidates :
                CommitMove(c, g, g.pendingThrow.roll, cand, now) \in Good
    /\ \A g \in Good, id \in MiniGames \cup {None} :
          g.pendingMini # None => SpinMiniGame(g, id) \in Good
    /\ \A g \in Good, success \in BOOLEAN :
          g.pendingMini # None => ResolveMiniGame(c, g, success) \in Good

AtRest(g) == g.pendingThrow = None /\ g.pendingMini = None

LEMMA ReplayEventKeeps ==
    ASSUME NEW c \in Setups1, NoneApart(c), NEW Good, KeptByPlay(c, Good),
           NEW g \in Good, NEW ev \in EventRecords(c)
    PROVE  \/ ReplayEvent(c, g, ev) = None
           \/ ReplayEvent(c, g, ev) \in Good /\ AtRest(ReplayEvent(c, g, ev))
<1>1. PICK thrown, moved, played : /\ thrown = ReplayThrow(c, g, ev)
                                   /\ moved = ReplayMove(c, thrown, ev)
                                   /\ played = ReplayMini(c, moved, ev)
  OBVIOUS
<1>2. ev.roll \in Rolls /\ ev.at \in Nat
  BY DEF EventRecords
<1>3. \A x \in Good : GameInv(c, x) /\ x # None
  BY DEF KeptByPlay, GameInv, NoneApart
<1>4. ReplayEvent(c, g, ev) = IF thrown = None \/ moved = None THEN None ELSE played
  BY <1>1, <1>3 DEF ReplayEvent
<1> SUFFICES ASSUME thrown # None, moved # None
             PROVE  played \in Good /\ AtRest(played)
  BY <1>4
<1>5. thrown \in Good
  BY <1>1, <1>2 DEF ReplayThrow, KeptByPlay
<1>6. moved \in Good /\ moved.pendingThrow = None
  <2>1. CASE thrown.pendingThrow = None
    BY <1>1, <1>5, <2>1 DEF ReplayMove
  <2>2. CASE thrown.pendingThrow # None
    <3> DEFINE picked == {x \in thrown.pendingThrow.candidates : x.mal = ev.mal /\ x.to = ev.to}
               cand == CHOOSE x \in picked : TRUE
    <3>1. picked # {} /\ moved = CommitMove(c, thrown, thrown.pendingThrow.roll, cand, ev.at)
      BY <1>1, <2>2 DEF ReplayMove
    <3>2. cand \in thrown.pendingThrow.candidates
      BY <3>1
    <3> HIDE DEF cand
    <3>3. moved \in Good
      BY <1>2, <1>5, <2>2, <3>1, <3>2 DEF KeptByPlay
    <3>4. /\ GameInv(c, thrown) /\ thrown.pendingMini = None /\ thrown.pendingThrow.roll \in Rolls
          /\ cand \in Candidates(c, thrown, thrown.pendingThrow.roll)
      BY <1>3, <1>5, <2>2, <3>2, PendingMove
    <3>5. Clear(c, thrown)
      BY <3>4, ClearFromInv
    <3>6. moved.pendingThrow = None
      BY <1>2, <3>1, <3>4, <3>5, CommitFacts
    <3> QED BY <3>3, <3>6
  <2> QED BY <2>1, <2>2
<1>7. CASE moved.pendingMini = None
  BY <1>1, <1>6, <1>7 DEF ReplayMini, AtRest
<1>8. CASE moved.pendingMini # None
  <2>1. PICK x \in Good, success \in BOOLEAN :
           x.pendingMini # None /\ played = ResolveMiniGame(c, x, success)
    <3>1. CASE ev.mini = None
      BY <1>1, <1>6, <1>8, <3>1 DEF ReplayMini
    <3>2. CASE ev.mini # None
      <4>1. ev.mini.game \in MiniGames \cup {None} /\ ev.mini.success \in BOOLEAN
        BY <3>2 DEF EventRecords, Outcomes
      <4>2. SpinMiniGame(moved, ev.mini.game) \in Good
        BY <1>6, <1>8, <4>1 DEF KeptByPlay
      <4>3. SpinMiniGame(moved, ev.mini.game).pendingMini # None
        BY <1>3, <1>6, <1>8, <4>1, SpinInv
      <4> QED BY <1>1, <1>8, <3>2, <4>1, <4>2, <4>3 DEF ReplayMini
    <3> QED BY <3>1, <3>2
  <2>2. GameInv(c, x)
    BY <1>3
  <2>3. played \in Good
    BY <2>1 DEF KeptByPlay
  <2>4. played.pendingThrow = None /\ played.pendingMini = None
    BY <2>1, <2>2, ResolveFacts
  <2> QED BY <2>3, <2>4 DEF AtRest
<1> QED BY <1>7, <1>8

LEMMA ReplayKeeps ==
    ASSUME NEW c \in Setups1, NoneApart(c), NEW Good, KeptByPlay(c, Good),
           NEW at \in Nat, FreshGame(c, at) \in Good, NEW events \in Seq(EventRecords(c))
    PROVE  \/ Replay(c, at, events) = None
           \/ Replay(c, at, events) \in Good /\ AtRest(Replay(c, at, events))
<1> DEFINE n == Len(events)
           run == CHOOSE f : IsRun(c, at, events, n, f)
<1>1. n \in Nat
  OBVIOUS
<1>2. IsRun(c, at, events, n, run)
  BY <1>1, RunExists
<1>3. Replay(c, at, events) = run[n]
  BY DEF Replay, IsRun
<1> HIDE DEF run
<1>4. /\ run[0] = FreshGame(c, at)
      /\ \A i \in 1..n : run[i] = ReplayEvent(c, run[i-1], events[i])
  BY <1>1, <1>2 DEF IsRun
<1> DEFINE Fine(x) == x = None \/ (x \in Good /\ AtRest(x))
           Bad == {i \in 0..n : ~Fine(run[i])}
<1>5. SUFFICES ASSUME Bad # {} PROVE FALSE
  BY <1>1, <1>3
<1>6. PICK i \in Bad : \A j \in Bad : i <= j
  <2>1. Bad \subseteq Nat
    OBVIOUS
  <2> HIDE DEF Bad
  <2> QED BY <1>5, <2>1, LeastNatural
<1>7. i # 0
  BY <1>6, <1>4 DEF FreshGame, AtRest
<1>8. i - 1 \in 0..n /\ i \in 1..n /\ Fine(run[i-1])
  BY <1>6, <1>7
<1>9. events[i] \in EventRecords(c) /\ run[i] = ReplayEvent(c, run[i-1], events[i])
  BY <1>4, <1>8
<1>10. CASE run[i-1] = None
  BY <1>6, <1>9, <1>10 DEF ReplayEvent
<1>11. CASE run[i-1] \in Good
  <2>1. Fine(run[i])
    BY <1>9, <1>11, ReplayEventKeeps
  <2> QED BY <1>6, <2>1
<1> QED BY <1>8, <1>10, <1>11
-----------------------------------------------------------------------------
(* Throws owed *)

BonusOf(e) == (IF e.roll \in BONUS_ROLLS THEN 1 ELSE 0) + (IF e.captures # {} THEN 1 ELSE 0)

(* A finite set that gets at most one element more.                        *)
LEMMA CountMore ==
    ASSUME NEW S, NEW T, IsFiniteSet(S), NEW x, x \notin S, T \ {x} = S
    PROVE  /\ IsFiniteSet(T) /\ Cardinality(S) \in Nat
           /\ Cardinality(T) = Cardinality(S) + (IF x \in T THEN 1 ELSE 0)
<1>1. Cardinality(S) \in Nat
  BY FS_CardinalityType
<1>2. CASE x \in T
  <2>1. T = S \cup {x}
    BY <1>2
  <2> QED BY <1>1, <1>2, <2>1, FS_AddElement
<1>3. CASE x \notin T
  <2>1. T = S
    BY <1>3
  <2> QED BY <1>1, <1>3, <2>1
<1> QED BY <1>2, <1>3

LEMMA OwedOfOne ==
    ASSUME NEW h, NEW i \in Nat
    PROVE  Owed(h, i, i) = BonusOf(h[i])
<1> DEFINE R == {k \in i..i : h[k].roll \in BONUS_ROLLS}
           C == {k \in i..i : h[k].captures # {}}
<1>1. IsFiniteSet({}) /\ Cardinality({}) = 0
  BY FS_EmptySet
<1>2. R \ {i} = {} /\ C \ {i} = {}
  OBVIOUS
<1>3. (i \in R <=> h[i].roll \in BONUS_ROLLS) /\ (i \in C <=> h[i].captures # {})
  OBVIOUS
<1>4. Owed(h, i, i) = Cardinality(R) + Cardinality(C) - (i - i)
  BY DEF Owed
<1> HIDE DEF R, C
<1>5. /\ Cardinality(R) = Cardinality({}) + (IF i \in R THEN 1 ELSE 0)
      /\ Cardinality(C) = Cardinality({}) + (IF i \in C THEN 1 ELSE 0)
  BY <1>1, <1>2, CountMore
<1> QED BY <1>1, <1>3, <1>4, <1>5 DEF BonusOf

LEMMA OwedOfMore ==
    ASSUME NEW h, NEW i \in Nat, NEW j \in Nat, i <= j
    PROVE  /\ Owed(h, i, j) \in Int
           /\ Owed(h, i, j + 1) = Owed(h, i, j) + BonusOf(h[j + 1]) - 1
<1> DEFINE R(n) == {k \in i..n : h[k].roll \in BONUS_ROLLS}
           C(n) == {k \in i..n : h[k].captures # {}}
<1>1. IsFiniteSet(R(j)) /\ IsFiniteSet(C(j))
  <2>1. IsFiniteSet(i..j)
    BY FS_Interval
  <2>2. R(j) \subseteq i..j /\ C(j) \subseteq i..j
    OBVIOUS
  <2> HIDE DEF R, C
  <2> QED BY <2>1, <2>2, FS_Subset
<1>2. /\ R(j + 1) \ {j + 1} = R(j) /\ C(j + 1) \ {j + 1} = C(j)
      /\ j + 1 \notin R(j) /\ j + 1 \notin C(j)
  OBVIOUS
<1>3. (j + 1 \in R(j + 1) <=> h[j + 1].roll \in BONUS_ROLLS)
      /\ (j + 1 \in C(j + 1) <=> h[j + 1].captures # {})
  OBVIOUS
<1>4. /\ Owed(h, i, j) = Cardinality(R(j)) + Cardinality(C(j)) - (j - i)
      /\ Owed(h, i, j + 1) = Cardinality(R(j + 1)) + Cardinality(C(j + 1)) - ((j + 1) - i)
  BY DEF Owed
<1> HIDE DEF R, C
<1>5. /\ Cardinality(R(j)) \in Nat /\ Cardinality(C(j)) \in Nat
      /\ Cardinality(R(j + 1)) = Cardinality(R(j)) + (IF j + 1 \in R(j + 1) THEN 1 ELSE 0)
      /\ Cardinality(C(j + 1)) = Cardinality(C(j)) + (IF j + 1 \in C(j + 1) THEN 1 ELSE 0)
  BY <1>1, <1>2, CountMore
<1> QED BY <1>3, <1>4, <1>5 DEF BonusOf

(* What a turn is owed is read off its rolls and its catches.              *)
LEMMA OwedOfSame ==
    ASSUME NEW h, NEW d, NEW i \in Nat, NEW j \in Nat,
           \A k \in i..j : h[k].roll = d[k].roll /\ h[k].captures = d[k].captures
    PROVE  Owed(h, i, j) = Owed(d, i, j)
<1>1. {k \in i..j : h[k].roll \in BONUS_ROLLS} = {k \in i..j : d[k].roll \in BONUS_ROLLS}
  OBVIOUS
<1>2. {k \in i..j : h[k].captures # {}} = {k \in i..j : d[k].captures # {}}
  OBVIOUS
<1> QED BY <1>1, <1>2 DEF Owed
(* The throws a log accounts for, with a team to move that has some left: in
   every turn but its own they are spent, or the turn was lost; it has what is
   left of its own, and one if it is yet to begin.  ThrowsTold is this of a
   game: the team whose mini-game is in progress is the one to move.       *)
Account(h, turn, open, cheated) ==
    /\ \A i, j \in 1..Len(h) :
          i <= j /\ IsTurn(h, i, j) =>
             IF j = Len(h) /\ turn = h[j].team
             THEN open <= Owed(h, i, j) /\ (cheated \/ open = Owed(h, i, j))
             ELSE Owed(h, i, j) >= 0 /\ (cheated \/ Lost(h[j]) \/ Owed(h, i, j) = 0)
    /\ h = <<>> \/ h[Len(h)].team # turn => open <= 1 /\ (cheated \/ open = 1)

(* A move spends a throw and may earn others; with none left the turn goes on. *)
LEMMA MoveAccount ==
    ASSUME NEW S, NEW h \in Seq(S), NEW ev \in S, NEW turn, NEW open \in Nat, open > 0,
           NEW d \in BOOLEAN, Account(h, turn, open, d), ev.team = turn,
           NEW q, q = open - 1 + BonusOf(ev), NEW next, NEW left,
           (left = q /\ next = turn) \/ (q = 0 /\ left = 1 /\ next # turn)
    PROVE  Account(Append(h, ev), next, left, d)
<1> DEFINE n == Len(h)
<1>1. PICK more : more = Append(h, ev)
  OBVIOUS
<1>2. /\ n \in Nat /\ Len(more) = n + 1 /\ more[n + 1] = ev
      /\ \A k \in 1..n : more[k] = h[k]
      /\ more # <<>> /\ (n = 0 => h = <<>>)
  BY <1>1
<1>3. BonusOf(ev) \in Nat
  BY DEF BonusOf
<1>4. q \in Nat
  BY <1>3
<1> HIDE DEF n
<1>5. ASSUME NEW i \in 1..n, NEW j \in 1..n, i <= j
      PROVE  Owed(more, i, j) = Owed(h, i, j) /\ Owed(h, i, j) \in Int
  <2>1. \A k \in i..j : more[k].roll = h[k].roll /\ more[k].captures = h[k].captures
    BY <1>2, <1>5
  <2>2. i \in Nat /\ j \in Nat
    BY <1>2, <1>5
  <2>3. Owed(more, i, j) = Owed(h, i, j)
    BY <2>1, <2>2, OwedOfSame
  <2> QED BY <1>5, <2>2, <2>3, OwedOfMore
<1>6. ASSUME NEW i \in 1..n, NEW j \in 1..n, i <= j, IsTurn(more, i, j)
      PROVE  IsTurn(h, i, j)
  <2>1. /\ \A k \in i..j : more[k].team = more[i].team
        /\ i > 1 => more[i-1].team # more[i].team
        /\ j < n + 1 => more[j+1].team # more[j].team
    BY <1>2, <1>6 DEF IsTurn
  <2>2. \A k \in i..j : h[k].team = h[i].team
    BY <1>2, <2>1
  <2>3. i > 1 => h[i-1].team # h[i].team
    <3>1. i > 1 => i - 1 \in 1..n
      BY <1>2
    <3> QED BY <1>2, <2>1, <3>1
  <2>4. j < n => h[j+1].team # h[j].team
    <3>1. j < n => j + 1 \in 1..n
      BY <1>2
    <3> QED BY <1>2, <2>1, <3>1
  <2> QED BY <2>2, <2>3, <2>4 DEF IsTurn, n
<1>7. ASSUME NEW i \in 1..(n + 1), i <= n, IsTurn(more, i, n + 1)
      PROVE  IsTurn(h, i, n) /\ h[n].team = turn
  <2>1. /\ \A k \in i..(n + 1) : more[k].team = more[i].team
        /\ i > 1 => more[i-1].team # more[i].team
    BY <1>7 DEF IsTurn
  <2>2. n \in i..(n + 1) /\ n + 1 \in i..(n + 1) /\ i \in 1..n
    BY <1>2, <1>7
  <2>3. h[n].team = turn
    BY <1>2, <2>1, <2>2
  <2>4. \A k \in i..n : h[k].team = h[i].team
    BY <1>2, <2>1, <2>2
  <2>5. i > 1 => h[i-1].team # h[i].team
    <3>1. i > 1 => i - 1 \in 1..n
      BY <1>2, <2>2
    <3> QED BY <1>2, <2>1, <2>2, <3>1
  <2> QED BY <1>2, <2>3, <2>4, <2>5 DEF IsTurn, n
<1>8. ASSUME NEW i \in 1..(n + 1), NEW j \in 1..(n + 1), i <= j, IsTurn(more, i, j)
      PROVE  IF j = n + 1 /\ next = more[j].team
             THEN left <= Owed(more, i, j) /\ (d \/ left = Owed(more, i, j))
             ELSE Owed(more, i, j) >= 0 /\ (d \/ Lost(more[j]) \/ Owed(more, i, j) = 0)
  <2>1. CASE j <= n
    <3>1. i \in 1..n /\ j \in 1..n /\ j # n + 1 /\ more[j] = h[j]
      BY <1>2, <1>8, <2>1
    <3>2. IsTurn(h, i, j)
      BY <1>6, <1>8, <3>1
    <3>3. j = n => turn # h[j].team
      <4>1. j = n => more[j + 1].team # more[j].team
        BY <1>2, <1>8 DEF IsTurn
      <4> QED BY <1>2, <3>1, <4>1
    <3>4. Owed(h, i, j) >= 0 /\ (d \/ Lost(h[j]) \/ Owed(h, i, j) = 0)
      BY <1>8, <3>1, <3>2, <3>3 DEF Account, n
    <3> QED BY <1>5, <1>8, <3>1, <3>4
  <2>2. CASE j = n + 1
    <3> SUFFICES q <= Owed(more, i, j) /\ Owed(more, i, j) \in Int /\ (d \/ q = Owed(more, i, j))
      BY <1>2, <1>4, <2>2
    <3>1. CASE i <= n
      <4>1. IsTurn(h, i, n) /\ h[n].team = turn /\ i \in 1..n /\ n \in 1..n
        BY <1>2, <1>7, <1>8, <2>2, <3>1
      <4>2. open <= Owed(h, i, n) /\ (d \/ open = Owed(h, i, n))
        BY <3>1, <4>1 DEF Account, n
      <4>3. Owed(more, i, n) = Owed(h, i, n) /\ Owed(h, i, n) \in Int
        BY <1>5, <3>1, <4>1
      <4>4. Owed(more, i, n + 1) = Owed(more, i, n) + BonusOf(ev) - 1
        <5>1. i \in Nat /\ n \in Nat /\ i <= n
          BY <1>2, <3>1, <4>1
        <5>2. Owed(more, i, n + 1) = Owed(more, i, n) + BonusOf(more[n + 1]) - 1
          BY <5>1, OwedOfMore
        <5> QED BY <1>2, <5>2
      <4> QED BY <1>3, <2>2, <4>2, <4>3, <4>4
    <3>2. CASE i = n + 1
      <4>1. n > 0 => h[n].team # turn
        <5>1. n > 0 => more[n].team # more[n + 1].team
          BY <1>2, <1>8, <3>2 DEF IsTurn
        <5> QED BY <1>2, <5>1
      <4>2. open <= 1
        BY <1>2, <4>1 DEF Account, n
      <4>3. Owed(more, i, j) = BonusOf(ev)
        BY <1>2, <2>2, <3>2, OwedOfOne
      <4> QED BY <1>3, <4>2, <4>3
    <3> QED BY <1>2, <1>8, <3>1, <3>2
  <2> QED BY <1>2, <1>8, <2>1, <2>2
<1>9. more[n + 1].team # next => left = 1
  BY <1>2
<1>10. Account(more, next, left, d)
  BY <1>2, <1>8, <1>9 DEF Account
<1> QED BY <1>1, <1>10

(* A judgment ends the turn, unless it was won with throws left.           *)
LEMMA JudgedAccount ==
    ASSUME NEW S, NEW h \in Seq(S), h # <<>>, NEW old \in Seq(S), Len(h) = Len(old),
           \A k \in 1..Len(h) : /\ h[k].team = old[k].team /\ h[k].roll = old[k].roll
                                /\ h[k].captures = old[k].captures
                                /\ k < Len(h) => h[k] = old[k],
           NEW turn, old[Len(old)].team = turn, NEW open \in Nat,
           NEW d \in BOOLEAN, Account(old, turn, open, d),
           NEW success \in BOOLEAN, ~success => Lost(h[Len(h)]), NEW next, NEW left,
           IF success /\ open # 0 THEN next = turn /\ left = open ELSE left = 1 /\ next # turn
    PROVE  Account(h, next, left, d)
<1> DEFINE n == Len(h)
<1>1. n \in Nat /\ n > 0
  OBVIOUS
<1>2. ASSUME NEW i \in 1..n, NEW j \in 1..n, i <= j
      PROVE  Owed(h, i, j) = Owed(old, i, j) /\ Owed(old, i, j) \in Int
  <2>1. i \in Nat /\ j \in Nat /\ \A k \in i..j : k \in 1..n
    BY <1>1, <1>2
  <2>2. \A k \in i..j : h[k].roll = old[k].roll /\ h[k].captures = old[k].captures
    BY <2>1
  <2> QED BY <1>2, <2>1, <2>2, OwedOfSame, OwedOfMore
<1>3. ASSUME NEW i \in 1..n, NEW j \in 1..n, i <= j, IsTurn(h, i, j)
      PROVE  IsTurn(old, i, j)
  <2>1. \A k \in i..j : k \in 1..n
    BY <1>1, <1>3
  <2>2. i > 1 => i - 1 \in 1..n
    BY <1>1
  <2>3. j < n => j + 1 \in 1..n
    BY <1>1
  <2>4. /\ \A k \in i..j : h[k].team = h[i].team
        /\ i > 1 => h[i-1].team # h[i].team
        /\ j < n => h[j+1].team # h[j].team
    BY <1>3 DEF IsTurn
  <2>5. \A k \in i..j : old[k].team = old[i].team
    BY <2>1, <2>4
  <2>6. i > 1 => old[i-1].team # old[i].team
    BY <2>2, <2>4
  <2>7. j < n => old[j+1].team # old[j].team
    BY <2>3, <2>4
  <2> QED BY <2>5, <2>6, <2>7 DEF IsTurn
<1>4. ASSUME NEW i \in 1..n, NEW j \in 1..n, i <= j, IsTurn(h, i, j)
      PROVE  IF j = n /\ next = h[j].team
             THEN left <= Owed(h, i, j) /\ (d \/ left = Owed(h, i, j))
             ELSE Owed(h, i, j) >= 0 /\ (d \/ Lost(h[j]) \/ Owed(h, i, j) = 0)
  <2>1. /\ IsTurn(old, i, j) /\ h[j].team = old[j].team
        /\ Owed(h, i, j) = Owed(old, i, j) /\ Owed(old, i, j) \in Int
    BY <1>2, <1>3, <1>4
  <2>2. CASE j = n
    <3>1. open <= Owed(old, i, j) /\ (d \/ open = Owed(old, i, j)) /\ h[j].team = turn
      BY <1>4, <2>1, <2>2 DEF Account
    <3> QED BY <2>1, <2>2, <3>1
  <2>3. CASE j # n
    <3>1. j < n /\ h[j] = old[j]
      BY <1>1, <2>3
    <3>2. Owed(old, i, j) >= 0 /\ (d \/ Lost(old[j]) \/ Owed(old, i, j) = 0)
      BY <1>4, <2>1, <2>3 DEF Account
    <3> QED BY <2>1, <2>3, <3>1, <3>2
  <2> QED BY <2>2, <2>3
<1>5. h[n].team = turn
  BY <1>1
<1> QED BY <1>1, <1>4, <1>5 DEF Account

(* Throws thrown away leave fewer.                                         *)
LEMMA CheatedAccount ==
    ASSUME NEW S, NEW h \in Seq(S), NEW turn, NEW open \in Nat, NEW d \in BOOLEAN,
           Account(h, turn, open, d), NEW left \in Nat, left <= open
    PROVE  Account(h, turn, left, TRUE)
<1>1. ASSUME NEW i \in 1..Len(h), NEW j \in 1..Len(h), i <= j
      PROVE  Owed(h, i, j) \in Int
  BY <1>1, OwedOfMore
<1>2. ASSUME NEW i \in 1..Len(h), NEW j \in 1..Len(h), i <= j, IsTurn(h, i, j)
      PROVE  IF j = Len(h) /\ turn = h[j].team
             THEN left <= Owed(h, i, j)
             ELSE Owed(h, i, j) >= 0
  BY <1>1, <1>2 DEF Account
<1> QED BY <1>2 DEF Account
-----------------------------------------------------------------------------
(* The throws of a game *)

Accounted(g, cheated) == Account(g.history, g.turn, Open(g), cheated)

LEMMA AccountedTells ==
    ASSUME NEW c, NEW g, GameInv(c, g), NEW d \in BOOLEAN, Accounted(g, d)
    PROVE  ThrowsTold(g, d)
<1>1. g.pendingMini # None => g.history # <<>> /\ g.history[Len(g.history)].team = g.turn
  BY DEF GameInv, PendingMiniMatches, Last
<1> QED BY <1>1 DEF Accounted, Account, ThrowsTold

LEMMA FreshAccounted ==
    ASSUME NEW c, NEW at
    PROVE  Accounted(FreshGame(c, at), FALSE)
<1>1. /\ FreshGame(c, at).history = <<>> /\ FreshGame(c, at).queue = 1
      /\ FreshGame(c, at).pendingThrow = None
  BY DEF FreshGame
<1>2. Open(FreshGame(c, at)) = 1 /\ Len(<<>>) = 0
  BY <1>1 DEF Open
<1> QED BY <1>1, <1>2 DEF Accounted, Account

LEMMA RestedAccounted ==
    ASSUME NEW c, NEW g \in GameRecords(c), NEW d \in BOOLEAN, Accounted(g, d)
    PROVE  Accounted(RestedOf(g), d)
BY RestFacts DEF Accounted

LEMMA MoveAccounted ==
    ASSUME NEW c \in Setups1, c.teams >= 2, NEW g, GameInv(c, g), NEW d \in BOOLEAN,
           Accounted(g, d), g.pendingMini = None, NEW b, b = RestedOf(g), b.queue > 0,
           NEW roll \in Rolls, NEW cand \in Candidates(c, g, roll), NEW now \in Nat,
           NEW m, m = CommitMove(c, Spent(b), roll, cand, now)
    PROVE  Accounted(m, d)
<1>0. PICK left : left = Spent(b)
  OBVIOUS
<1>1. /\ g \in GameRecords(c) /\ g.turn \in TeamIds(c)
      /\ b \in GameRecords(c) /\ b.pendingThrow = None /\ b.pendingMini = None
      /\ b.pos = g.pos /\ b.turn = g.turn /\ b.history = g.history
      /\ b.queue = Open(g) /\ Open(g) \in Nat
  BY RestFacts DEF GameInv
<1>2. Clear(c, b)
  <2>1. Clear(c, g)
    BY ClearFromInv
  <2> QED BY <1>1, <2>1 DEF Clear, Shared
<1>3. cand \in Candidates(c, b, roll)
  BY <1>1, CandidatesOfBoard
<1>4. /\ left \in GameRecords(c) /\ left.history = b.history /\ left.turn = b.turn
      /\ left.queue = b.queue - 1
      /\ Clear(c, left) /\ cand \in Candidates(c, left, roll)
  BY <1>0, <1>1, <1>2, <1>3, SpentFacts
<1>5. PICK ev : ev = TurnEvent(left, roll, cand, now)
  OBVIOUS
<1>6. ev \in EventRecords(c)
  BY <1>4, <1>5, TurnEventType
<1>7. ev.team = g.turn /\ BonusOf(ev) = Bonus(roll, cand)
  <2>1. ev.team = left.turn /\ ev.roll = roll /\ ev.captures = cand.captures
    BY <1>5 DEF TurnEvent
  <2> QED BY <1>1, <1>4, <2>1 DEF BonusOf, Bonus
<1>8. PICK q : q = Open(g) - 1 + Bonus(roll, cand)
  OBVIOUS
<1>9. /\ m.pendingThrow = None /\ m.history = Append(g.history, ev)
      /\ (m.queue = q /\ m.turn = g.turn) \/ (q = 0 /\ m.queue = 1 /\ m.turn # g.turn)
      /\ m \in GameRecords(c)
  <2>1. /\ m.pendingThrow = None /\ GameInv(c, m)
        /\ m.history = Append(left.history, TurnEvent(left, roll, cand, now))
        /\ m.pendingMini # None => m.turn = left.turn /\ m.queue = left.queue + Bonus(roll, cand)
        /\ m.pendingMini = None =>
              IF left.queue + Bonus(roll, cand) = 0
              THEN m.queue = 1 /\ (c.teams >= 2 => m.turn # left.turn)
              ELSE m.queue = left.queue + Bonus(roll, cand) /\ m.turn = left.turn
    BY <1>0, <1>4, CommitFacts
  <2> QED BY <1>1, <1>4, <1>5, <1>8, <2>1 DEF GameInv
<1>10. Open(m) = m.queue
  BY <1>9 DEF Open, GameRecords
<1>11. Account(g.history, g.turn, Open(g), d) /\ g.history \in Seq(EventRecords(c)) /\ Open(g) > 0
  BY <1>1 DEF Accounted, GameRecords
<1>12. Account(Append(g.history, ev), m.turn, m.queue, d)
  BY <1>1, <1>6, <1>7, <1>8, <1>9, <1>11, MoveAccount
<1> QED BY <1>9, <1>10, <1>12 DEF Accounted

LEMMA ThrowAccounted ==
    ASSUME NEW c \in Setups1, NoneApart(c), c.teams >= 2, NEW g, GameInv(c, g), NEW d \in BOOLEAN,
           Accounted(g, d), CanThrow(g), NEW roll \in Rolls, NEW now \in Nat
    PROVE  Accounted(ThrowStick(c, g, roll, now), d)
<1>1. /\ g \in GameRecords(c) /\ g.pendingThrow = None /\ g.pendingMini = None /\ g.queue > 0
      /\ RestedOf(g) = g /\ Open(g) = g.queue /\ g.queue \in Nat
  <2>1. g \in GameRecords(c) /\ g.pendingThrow = None /\ g.pendingMini = None /\ g.queue > 0
    BY DEF GameInv, CanThrow
  <2>2. g.queue \in Nat
    BY <2>1 DEF GameRecords
  <2>3. Open(g) = g.queue
    BY <2>1, <2>2 DEF Open
  <2>4. RestedOf(g) = g
    BY <2>1, RestFacts
  <2> QED BY <2>1, <2>2, <2>3, <2>4
<1>2. PICK h : h = ThrowStick(c, g, roll, now)
  OBVIOUS
<1>3. ASSUME NEW cand \in Candidates(c, g, roll), h = CommitMove(c, Spent(g), roll, cand, now)
      PROVE  Accounted(h, d)
  BY <1>1, <1>3, MoveAccounted
<1>4. ASSUME h.pendingThrow # None, h.history = g.history, h.turn = g.turn, h.queue = g.queue - 1
      PROVE  Accounted(h, d)
  <2>1. Open(h) = Open(g)
    BY <1>1, <1>4 DEF Open
  <2> QED BY <1>4, <2>1 DEF Accounted
<1> QED BY <1>2, <1>3, <1>4, ThrowFacts

LEMMA PendingMoveAccounted ==
    ASSUME NEW c \in Setups1, c.teams >= 2, NEW g, GameInv(c, g), NEW d \in BOOLEAN, Accounted(g, d),
           g.pendingThrow # None, NEW cand \in g.pendingThrow.candidates, NEW now \in Nat
    PROVE  Accounted(CommitMove(c, g, g.pendingThrow.roll, cand, now), d)
<1>1. PICK b, roll, m : /\ b = RestedOf(g) /\ roll = g.pendingThrow.roll
                        /\ m = CommitMove(c, g, roll, cand, now)
  OBVIOUS
<1>2. /\ g.pendingMini = None /\ roll \in Rolls /\ cand \in Candidates(c, g, roll)
      /\ m = CommitMove(c, Spent(b), roll, cand, now)
  BY <1>1, PendingMove
<1>3. b.queue > 0
  <2>1. g \in GameRecords(c) /\ g.queue \in Nat
    BY DEF GameInv, GameRecords
  <2> QED BY <1>1, <2>1, RestFacts DEF Open
<1>4. Accounted(m, d)
  BY <1>1, <1>2, <1>3, MoveAccounted
<1> QED BY <1>1, <1>4

LEMMA SpinAccounted ==
    ASSUME NEW c \in Setups1, NEW g, GameInv(c, g), NEW d \in BOOLEAN, Accounted(g, d),
           g.pendingMini # None, NEW id \in MiniGames \cup {None}
    PROVE  Accounted(SpinMiniGame(g, id), d)
<1>1. PICK h : h = SpinMiniGame(g, id)
  OBVIOUS
<1>2. /\ h.history = g.history /\ h.turn = g.turn /\ h.queue = g.queue
      /\ h.pendingThrow = g.pendingThrow
  BY <1>1, SpinFacts
<1> QED BY <1>1, <1>2 DEF Accounted, Open

LEMMA ResolveAccounted ==
    ASSUME NEW c \in Setups1, NoneApart(c), c.teams >= 2, NEW g, GameInv(c, g), NEW d \in BOOLEAN,
           Accounted(g, d), g.pendingMini # None, NEW success \in BOOLEAN
    PROVE  Accounted(ResolveMiniGame(c, g, success), d)
<1>1. PICK h, pre, old : /\ h = ResolveMiniGame(c, g, success)
                         /\ pre = ButLast(g.history) /\ old = Last(g.history)
  OBVIOUS
<1>2. /\ GameInv(c, h) /\ h.pendingThrow = None /\ h.history = Stamped(g, success)
      /\ IF success /\ g.queue # 0 THEN h.turn = g.turn /\ h.queue = g.queue
                                   ELSE h.queue = 1 /\ h.turn # g.turn
  BY <1>1, ResolveFacts
<1>3. /\ g \in GameRecords(c) /\ g.pendingThrow = None /\ g.history # <<>>
      /\ g.history[Len(g.history)].team = g.turn /\ g.pendingMini.game \in MiniGames \cup {None}
      /\ g.queue \in Nat /\ g.history \in Seq(EventRecords(c)) /\ h.queue \in Nat
  BY <1>2 DEF GameInv, PendingMiniMatches, PendingThrowMatches, GameRecords, MiniRecords, Last
<1>4. PICK ev \in EventRecords(c) :
         /\ h.history = Append(pre, ev) /\ pre \in Seq(EventRecords(c)) /\ old \in EventRecords(c)
         /\ g.history = Append(pre, old)
         /\ ev = Judged(old, g.pendingMini.game, success)
  BY <1>1, <1>2, StampedFacts
<1>5. /\ ev.team = old.team /\ ev.roll = old.roll /\ ev.captures = old.captures
      /\ ev.mini # None /\ ev.mini.success = success
  <2>1. /\ ev.team = old.team /\ ev.roll = old.roll /\ ev.captures = old.captures
        /\ ev.mini = [game |-> g.pendingMini.game, success |-> success]
    BY <1>4 DEF EventRecords, Judged
  <2>2. ev.mini # None /\ ev.mini.success = success
    BY <1>3, <2>1 DEF NoneApart, Outcomes
  <2> QED BY <2>1, <2>2
<1>6. PICK before, after : before = g.history /\ after = h.history
  OBVIOUS
<1>7. PICK n : n = Len(pre)
  OBVIOUS
<1>8. /\ n \in Nat /\ Len(before) = n + 1 /\ Len(after) = n + 1
      /\ before[n + 1] = old /\ after[n + 1] = ev
      /\ \A k \in 1..n : before[k] = after[k]
      /\ before \in Seq(EventRecords(c)) /\ after \in Seq(EventRecords(c)) /\ after # <<>>
  BY <1>4, <1>6, <1>7
<1>9. \A k \in 1..Len(after) : /\ after[k].team = before[k].team /\ after[k].roll = before[k].roll
                               /\ after[k].captures = before[k].captures
                               /\ k < Len(after) => after[k] = before[k]
  <2> SUFFICES ASSUME NEW k \in 1..(n + 1)
               PROVE  /\ after[k].team = before[k].team /\ after[k].roll = before[k].roll
                      /\ after[k].captures = before[k].captures
                      /\ k < n + 1 => after[k] = before[k]
    BY <1>8
  <2>1. CASE k \in 1..n
    BY <1>8, <2>1
  <2>2. CASE k = n + 1
    BY <1>5, <1>8, <2>2
  <2> QED BY <1>8, <2>1, <2>2
<1>10. ~success => Lost(after[Len(after)])
  BY <1>5, <1>8 DEF Lost
<1>11. Open(g) = g.queue /\ Open(h) = h.queue
  BY <1>2, <1>3 DEF Open
<1>12. Account(before, g.turn, g.queue, d) /\ before[Len(before)].team = g.turn
  BY <1>3, <1>6, <1>11 DEF Accounted
<1>13. Account(after, h.turn, h.queue, d)
  <2>1. PICK turn, next, open, left : /\ turn = g.turn /\ next = h.turn
                                      /\ open = g.queue /\ left = h.queue
    OBVIOUS
  <2>2. IF success /\ open # 0 THEN next = turn /\ left = open ELSE left = 1 /\ next # turn
    BY <1>2, <2>1
  <2>3. open \in Nat /\ Len(after) = Len(before) /\ Account(before, turn, open, d)
        /\ before[Len(before)].team = turn
    BY <1>3, <1>8, <1>12, <2>1
  <2>4. Account(after, next, left, d)
    BY <1>8, <1>9, <1>10, <2>2, <2>3, JudgedAccount
  <2> QED BY <2>1, <2>4
<1> QED BY <1>1, <1>6, <1>11, <1>13 DEF Accounted
-----------------------------------------------------------------------------
(* The scores of a game *)

Won(c, e, t) == /\ e.mini # None
                /\ IF e.mini.success THEN e.team = t ELSE IsDuel(c, e) /\ VsTeam(e) = t

LapsOf(h, t) == {i \in 1..Len(h) : h[i].finished /\ h[i].team = t}
WinsOf(c, h, t) == {i \in 1..Len(h) : Won(c, h[i], t)}

LEMMA ScoresAreCounts ==
    ASSUME NEW c, NEW g
    PROVE  ScoresTold(c, g) <=>
              \A t \in TeamIds(c) : /\ g.finishes[t] = Cardinality(LapsOf(g.history, t))
                                    /\ g.miniWins[t] = Cardinality(WinsOf(c, g.history, t))
BY DEF ScoresTold, Count, LapsOf, WinsOf, Won

(* One event more counts for who got home with it and who won it.          *)
LEMMA ScoresMore ==
    ASSUME NEW c, NEW t, NEW S, NEW h \in Seq(S), NEW ev \in S
    PROVE  /\ Cardinality(LapsOf(h, t)) \in Nat /\ Cardinality(WinsOf(c, h, t)) \in Nat
           /\ Cardinality(LapsOf(Append(h, ev), t))
                 = Cardinality(LapsOf(h, t)) + (IF ev.finished /\ ev.team = t THEN 1 ELSE 0)
           /\ Cardinality(WinsOf(c, Append(h, ev), t))
                 = Cardinality(WinsOf(c, h, t)) + (IF Won(c, ev, t) THEN 1 ELSE 0)
<1>1. PICK more, n : more = Append(h, ev) /\ n = Len(h)
  OBVIOUS
<1>2. /\ n \in Nat /\ Len(more) = n + 1 /\ more[n + 1] = ev
      /\ \A k \in 1..n : more[k] = h[k]
  BY <1>1
<1>3. IsFiniteSet(1..n)
  BY <1>2, FS_Interval
<1>4. IsFiniteSet(LapsOf(h, t)) /\ IsFiniteSet(WinsOf(c, h, t))
  <2>1. LapsOf(h, t) \subseteq 1..n /\ WinsOf(c, h, t) \subseteq 1..n
    BY <1>1 DEF LapsOf, WinsOf
  <2> QED BY <1>3, <2>1, FS_Subset
<1>5. /\ n + 1 \notin LapsOf(h, t) /\ LapsOf(more, t) \ {n + 1} = LapsOf(h, t)
      /\ n + 1 \in LapsOf(more, t) <=> (ev.finished /\ ev.team = t)
  BY <1>1, <1>2 DEF LapsOf
<1>6. /\ n + 1 \notin WinsOf(c, h, t) /\ WinsOf(c, more, t) \ {n + 1} = WinsOf(c, h, t)
      /\ n + 1 \in WinsOf(c, more, t) <=> Won(c, ev, t)
  BY <1>1, <1>2 DEF WinsOf
<1>7. /\ Cardinality(LapsOf(h, t)) \in Nat
      /\ Cardinality(LapsOf(more, t))
            = Cardinality(LapsOf(h, t)) + (IF n + 1 \in LapsOf(more, t) THEN 1 ELSE 0)
  BY <1>4, <1>5, CountMore
<1>8. /\ Cardinality(WinsOf(c, h, t)) \in Nat
      /\ Cardinality(WinsOf(c, more, t))
            = Cardinality(WinsOf(c, h, t)) + (IF n + 1 \in WinsOf(c, more, t) THEN 1 ELSE 0)
  BY <1>4, <1>6, CountMore
<1> QED BY <1>1, <1>5, <1>6, <1>7, <1>8

(* The log tells the scores; and who defends in the duel that is due, on whom
   a lost duel's point rests.                                              *)
Scored(c, g) ==
    /\ ScoresTold(c, g)
    /\ g.pendingMini # None =>
          g.pendingMini.vs = IF IsDuel(c, Last(g.history)) THEN VsTeam(Last(g.history)) ELSE None

LEMMA FreshScored ==
    ASSUME NEW c, NEW at
    PROVE  Scored(c, FreshGame(c, at))
<1>1. PICK g : g = FreshGame(c, at)
  OBVIOUS
<1>2. /\ g.history = <<>> /\ g.pendingMini = None
      /\ \A t \in TeamIds(c) : g.finishes[t] = 0 /\ g.miniWins[t] = 0
  BY <1>1 DEF FreshGame
<1>3. \A t : LapsOf(<<>>, t) = {} /\ WinsOf(c, <<>>, t) = {}
  BY DEF LapsOf, WinsOf
<1>4. Cardinality({}) = 0
  BY FS_EmptySet
<1>5. ScoresTold(c, g)
  BY <1>2, <1>3, <1>4, ScoresAreCounts
<1> QED BY <1>1, <1>2, <1>5 DEF Scored

(* What is scored is scored by what a game logs and counts.                *)
LEMMA ScoredSame ==
    ASSUME NEW c, NEW g, NEW h, Scored(c, g), h.history = g.history,
           h.finishes = g.finishes, h.miniWins = g.miniWins,
           h.pendingMini # None => g.pendingMini # None /\ h.pendingMini.vs = g.pendingMini.vs
    PROVE  Scored(c, h)
<1>1. ScoresTold(c, h)
  BY ScoresAreCounts DEF Scored
<1> QED BY <1>1 DEF Scored

LEMMA MoveScored ==
    ASSUME NEW c \in Setups1, NEW g, Clear(c, g), Scored(c, g),
           NEW roll \in Rolls, NEW cand \in Candidates(c, g, roll), NEW now \in Nat,
           NEW m, m = CommitMove(c, g, roll, cand, now)
    PROVE  Scored(c, m)
<1>1. PICK ev : ev = TurnEvent(g, roll, cand, now)
  OBVIOUS
<1>2. ev \in EventRecords(c) /\ g.history \in Seq(EventRecords(c)) /\ g \in GameRecords(c)
  BY <1>1, TurnEventType DEF Clear, GameRecords
<1>3. /\ m.history = Append(g.history, ev)
      /\ \A t \in TeamIds(c) : m.finishes[t] =
            IF t = g.turn /\ cand.to = HOME THEN g.finishes[t] + 1 ELSE g.finishes[t]
      /\ m.miniWins = g.miniWins
      /\ m.pendingMini # None =>
            m.pendingMini.vs = IF WillDuel(c, cand) THEN VsTeam(cand) ELSE None
  BY <1>1, CommitFacts
<1>4. /\ ev.team = g.turn /\ ev.mini = None /\ ev.captures = cand.captures
      /\ ev.finished <=> cand.to = HOME
  BY <1>1 DEF TurnEvent
<1>5. \A t \in TeamIds(c) : g.finishes[t] \in Nat /\ g.miniWins[t] \in Nat
  BY <1>2 DEF GameRecords
<1>6. ASSUME NEW t \in TeamIds(c)
      PROVE  /\ m.finishes[t] = Cardinality(LapsOf(m.history, t))
             /\ m.miniWins[t] = Cardinality(WinsOf(c, m.history, t))
  <2>1. /\ g.finishes[t] = Cardinality(LapsOf(g.history, t))
        /\ g.miniWins[t] = Cardinality(WinsOf(c, g.history, t))
    BY ScoresAreCounts DEF Scored
  <2>2. /\ Cardinality(LapsOf(m.history, t))
             = Cardinality(LapsOf(g.history, t)) + (IF ev.finished /\ ev.team = t THEN 1 ELSE 0)
        /\ Cardinality(WinsOf(c, m.history, t))
             = Cardinality(WinsOf(c, g.history, t)) + (IF Won(c, ev, t) THEN 1 ELSE 0)
    BY <1>2, <1>3, ScoresMore
  <2>3. ~Won(c, ev, t)
    BY <1>4 DEF Won
  <2> QED BY <1>3, <1>4, <1>5, <2>1, <2>2, <2>3
<1>7. Last(m.history) = ev
  BY <1>2, <1>3, ButLastOfMore
<1>8. (IsDuel(c, ev) <=> WillDuel(c, cand)) /\ VsTeam(ev) = VsTeam(cand)
  BY <1>4 DEF IsDuel, WillDuel, VsTeam
<1> QED BY <1>3, <1>6, <1>7, <1>8, ScoresAreCounts DEF Scored

LEMMA ResolveScored ==
    ASSUME NEW c \in Setups1, NoneApart(c), NEW g, GameInv(c, g), Scored(c, g),
           g.pendingMini # None, NEW success \in BOOLEAN
    PROVE  Scored(c, ResolveMiniGame(c, g, success))
<1>1. PICK h, pre, old, id, p : /\ h = ResolveMiniGame(c, g, success)
                                /\ pre = ButLast(g.history) /\ old = Last(g.history)
                                /\ id = g.pendingMini.game /\ p = g.pendingMini
  OBVIOUS
<1>2. /\ h.pendingMini = None /\ h.history = Stamped(g, success) /\ h.finishes = g.finishes
      /\ \A t \in TeamIds(c) : h.miniWins[t] =
            IF t \in Winners(p, success) THEN g.miniWins[t] + 1 ELSE g.miniWins[t]
  BY <1>1, ResolveFacts
<1>3. /\ g \in GameRecords(c) /\ old.mini = None /\ old.team = p.team
      /\ id \in MiniGames \cup {None}
  BY <1>1 DEF GameInv, PendingMiniMatches, GameRecords, MiniRecords
<1>4. PICK ev \in EventRecords(c) :
         /\ h.history = Append(pre, ev) /\ pre \in Seq(EventRecords(c)) /\ old \in EventRecords(c)
         /\ g.history = Append(pre, old)
         /\ ev = Judged(old, id, success)
  BY <1>1, <1>2, StampedFacts
<1>5. /\ ev.team = old.team /\ ev.captures = old.captures /\ ev.finished = old.finished
      /\ ev.mini # None /\ ev.mini.success = success
  <2>1. /\ ev.team = old.team /\ ev.captures = old.captures /\ ev.finished = old.finished
        /\ ev.mini = [game |-> id, success |-> success]
    BY <1>4 DEF EventRecords, Judged
  <2>2. ev.mini # None /\ ev.mini.success = success
    BY <1>3, <2>1 DEF NoneApart, Outcomes
  <2> QED BY <2>1, <2>2
<1>6. p.vs = IF IsDuel(c, old) THEN VsTeam(old) ELSE None
  BY <1>1 DEF Scored
<1>7. (IsDuel(c, ev) <=> IsDuel(c, old)) /\ VsTeam(ev) = VsTeam(old)
  BY <1>5 DEF IsDuel, VsTeam
<1>8. IsDuel(c, old) => VsTeam(old) # None
  <2>1. c \in SetupRecords /\ old.captures \subseteq Mals(c)
    BY <1>4 DEF Setups1, EventRecords
  <2>2. IsDuel(c, old) => VsTeam(old) \in TeamIds(c)
    BY <2>1, VsTeamIsCaught DEF IsDuel
  <2> QED BY <2>1, <2>2, NoneAssumption DEF TeamIds, SetupRecords
<1>9. ASSUME NEW t \in TeamIds(c)
      PROVE  Won(c, ev, t) <=> t \in Winners(p, success)
  <2>1. CASE success = TRUE
    BY <1>3, <1>5, <2>1 DEF Won, Winners
  <2>2. CASE success = FALSE
    BY <1>5, <1>6, <1>7, <1>8, <2>2 DEF Won, Winners
  <2> QED BY <2>1, <2>2
<1>10. \A t \in TeamIds(c) : g.miniWins[t] \in Nat
  BY <1>3 DEF GameRecords
<1>11. ASSUME NEW t \in TeamIds(c)
       PROVE  /\ h.finishes[t] = Cardinality(LapsOf(h.history, t))
              /\ h.miniWins[t] = Cardinality(WinsOf(c, h.history, t))
  <2>1. /\ g.finishes[t] = Cardinality(LapsOf(g.history, t))
        /\ g.miniWins[t] = Cardinality(WinsOf(c, g.history, t))
    BY ScoresAreCounts DEF Scored
  <2>2. /\ Cardinality(LapsOf(h.history, t))
             = Cardinality(LapsOf(pre, t)) + (IF ev.finished /\ ev.team = t THEN 1 ELSE 0)
        /\ Cardinality(WinsOf(c, h.history, t))
             = Cardinality(WinsOf(c, pre, t)) + (IF Won(c, ev, t) THEN 1 ELSE 0)
        /\ Cardinality(WinsOf(c, pre, t)) \in Nat
    BY <1>4, ScoresMore
  <2>3. /\ Cardinality(LapsOf(g.history, t))
             = Cardinality(LapsOf(pre, t)) + (IF old.finished /\ old.team = t THEN 1 ELSE 0)
        /\ Cardinality(WinsOf(c, g.history, t))
             = Cardinality(WinsOf(c, pre, t)) + (IF Won(c, old, t) THEN 1 ELSE 0)
    BY <1>4, ScoresMore
  <2>4. ~Won(c, old, t)
    BY <1>3 DEF Won
  <2>5. h.finishes[t] = Cardinality(LapsOf(h.history, t))
    BY <1>2, <1>5, <2>1, <2>2, <2>3
  <2>6. h.miniWins[t] = Cardinality(WinsOf(c, h.history, t))
    BY <1>2, <1>9, <1>10, <2>1, <2>2, <2>3, <2>4
  <2> QED BY <2>5, <2>6
<1>12. ScoresTold(c, h)
  BY <1>11, ScoresAreCounts
<1> QED BY <1>1, <1>2, <1>12 DEF Scored
-----------------------------------------------------------------------------
(* What every game is worth *)

(* The games that account for their throws, count their scores and, unless a
   throw has been thrown away, replay to themselves.                       *)
GoodGame(c, at, cheated, g) ==
    /\ GameInv(c, g)
    /\ Accounted(g, cheated)
    /\ Scored(c, g)
    /\ cheated \/ Faithful(c, at, g)

GoodGames(c, at, cheated) == {g \in GameRecords(c) : GoodGame(c, at, cheated, g)}

LEMMA FreshIsGood ==
    ASSUME NEW c \in Setups1, NEW at \in Nat
    PROVE  GoodGame(c, at, FALSE, FreshGame(c, at))
BY FreshClear, FreshAccounted, FreshScored, FreshFaithful DEF GoodGame

LEMMA MoveIsGood ==
    ASSUME NEW c \in Setups1, NoneApart(c), c.teams >= 2, NEW at \in Nat, NEW d \in BOOLEAN,
           NEW g, GoodGame(c, at, d, g), g.pendingThrow # None,
           NEW cand \in g.pendingThrow.candidates, NEW now \in Nat
    PROVE  GoodGame(c, at, d, CommitMove(c, g, g.pendingThrow.roll, cand, now))
<1> USE DEF GoodGame
<1>1. GameInv(c, CommitMove(c, g, g.pendingThrow.roll, cand, now))
  BY MoveInv
<1>2. Accounted(CommitMove(c, g, g.pendingThrow.roll, cand, now), d)
  BY PendingMoveAccounted
<1>3. Scored(c, CommitMove(c, g, g.pendingThrow.roll, cand, now))
  <2>1. /\ g.pendingMini = None /\ g.pendingThrow.roll \in Rolls
        /\ cand \in Candidates(c, g, g.pendingThrow.roll)
    BY PendingMove
  <2>2. Clear(c, g)
    BY <2>1, ClearFromInv
  <2> QED BY <2>1, <2>2, MoveScored
<1>4. d \/ Faithful(c, at, CommitMove(c, g, g.pendingThrow.roll, cand, now))
  BY PendingMoveFaithful
<1> QED BY <1>1, <1>2, <1>3, <1>4

LEMMA ThrowIsGood ==
    ASSUME NEW c \in Setups1, NoneApart(c), c.teams >= 2, NEW at \in Nat, NEW d \in BOOLEAN,
           NEW g, GoodGame(c, at, d, g), CanThrow(g), NEW roll \in Rolls, NEW now \in Nat
    PROVE  GoodGame(c, at, d, ThrowStick(c, g, roll, now))
<1> USE DEF GoodGame
<1>1. PICK h : h = ThrowStick(c, g, roll, now)
  OBVIOUS
<1>2. GameInv(c, h)
  BY <1>1, ThrowInv
<1>3. Accounted(h, d)
  BY <1>1, ThrowAccounted
<1>4. Scored(c, h)
  <2>1. /\ g \in GameRecords(c) /\ g.pendingMini = None /\ g.queue > 0 /\ Clear(c, g)
    BY ClearFromInv DEF GameInv, CanThrow
  <2>2. PICK s : s = Spent(g)
    OBVIOUS
  <2>3. /\ s.pendingMini = None /\ s.history = g.history /\ Clear(c, s)
        /\ s.finishes = g.finishes /\ s.miniWins = g.miniWins
        /\ Candidates(c, s, roll) = Candidates(c, g, roll)
    BY <2>1, <2>2, SpentFacts
  <2>4. Scored(c, s)
    BY <2>3, ScoredSame
  <2>5. ASSUME NEW cand \in Candidates(c, g, roll), h = CommitMove(c, s, roll, cand, now)
        PROVE  Scored(c, h)
    BY <2>3, <2>4, <2>5, MoveScored
  <2>6. ASSUME h.pendingMini = None, h.history = g.history,
               h.finishes = g.finishes, h.miniWins = g.miniWins
        PROVE  Scored(c, h)
    BY <2>6, ScoredSame
  <2> QED BY <1>1, <2>2, <2>5, <2>6, ThrowFacts
<1>5. d \/ Faithful(c, at, h)
  BY <1>1, ThrowFaithful
<1> QED BY <1>1, <1>2, <1>3, <1>4, <1>5

LEMMA SpinIsGood ==
    ASSUME NEW c \in Setups1, NEW at \in Nat, NEW d \in BOOLEAN,
           NEW g, GoodGame(c, at, d, g), g.pendingMini # None, NEW id \in MiniGames \cup {None}
    PROVE  GoodGame(c, at, d, SpinMiniGame(g, id))
<1> USE DEF GoodGame
<1>1. PICK h : h = SpinMiniGame(g, id)
  OBVIOUS
<1>2. GameInv(c, h)
  BY <1>1, SpinInv
<1>3. Accounted(h, d)
  BY <1>1, SpinAccounted
<1>4. Scored(c, h)
  <2>1. /\ h.history = g.history /\ h.finishes = g.finishes /\ h.miniWins = g.miniWins
        /\ h.pendingMini.vs = g.pendingMini.vs
    BY <1>1, SpinFacts
  <2> QED BY <2>1, ScoredSame
<1>5. d \/ Faithful(c, at, h)
  BY <1>1, SpinFaithful
<1> QED BY <1>1, <1>2, <1>3, <1>4, <1>5

LEMMA ResolveIsGood ==
    ASSUME NEW c \in Setups1, NoneApart(c), c.teams >= 2, NEW at \in Nat, NEW d \in BOOLEAN,
           NEW g, GoodGame(c, at, d, g), g.pendingMini # None, NEW success \in BOOLEAN
    PROVE  GoodGame(c, at, d, ResolveMiniGame(c, g, success))
BY ResolveInv, ResolveAccounted, ResolveScored, ResolveFaithful DEF GoodGame

LEMMA RestedIsGood ==
    ASSUME NEW c \in Setups1, NEW at \in Nat, NEW d \in BOOLEAN, NEW g, GoodGame(c, at, d, g),
           GameInv(c, RestedOf(g))
    PROVE  GoodGame(c, at, d, RestedOf(g))
<1> USE DEF GoodGame
<1>1. g \in GameRecords(c)
  BY DEF GameInv
<1>2. PICK b : b = RestedOf(g)
  OBVIOUS
<1>3. Accounted(b, d)
  BY <1>1, <1>2, RestedAccounted
<1>4. Scored(c, b)
  <2>1. /\ b.history = g.history /\ b.finishes = g.finishes /\ b.miniWins = g.miniWins
        /\ b.pendingMini = g.pendingMini
    BY <1>1, <1>2, RestFacts
  <2> QED BY <2>1, ScoredSame
<1>5. d \/ Faithful(c, at, b)
  BY <1>2, RestedFaithful
<1> QED BY <1>2, <1>3, <1>4, <1>5

(* Whatever a game goes through keeps it good.                             *)
LEMMA GoodGamesAreKept ==
    ASSUME NEW c \in Setups1, NoneApart(c), c.teams >= 2, NEW at \in Nat, NEW d \in BOOLEAN
    PROVE  KeptByPlay(c, GoodGames(c, at, d))
<1>1. \A g : g \in GoodGames(c, at, d) <=> GoodGame(c, at, d, g)
  BY DEF GoodGames, GoodGame, GameInv
<1>2. ASSUME NEW g, GoodGame(c, at, d, g) PROVE GameInv(c, g)
  BY <1>2 DEF GoodGame
<1> QED BY <1>1, <1>2, ThrowIsGood, MoveIsGood, SpinIsGood, ResolveIsGood DEF KeptByPlay

(* A rebuilt game is good, and nothing in it is pending.                   *)
LEMMA ReplayIsGood ==
    ASSUME NEW c \in Setups1, NoneApart(c), c.teams >= 2, NEW at \in Nat,
           NEW events \in Seq(EventRecords(c)), Replay(c, at, events) # None
    PROVE  GoodGame(c, at, FALSE, Replay(c, at, events)) /\ AtRest(Replay(c, at, events))
<1>1. \A g : g \in GoodGames(c, at, FALSE) <=> GoodGame(c, at, FALSE, g)
  BY DEF GoodGames, GoodGame, GameInv
<1>2. FreshGame(c, at) \in GoodGames(c, at, FALSE)
  BY <1>1, FreshIsGood
<1>3. KeptByPlay(c, GoodGames(c, at, FALSE))
  BY GoodGamesAreKept
<1> QED BY <1>1, <1>2, <1>3, ReplayKeeps
-----------------------------------------------------------------------------
(* What a step adds to the log *)

LEMMA MoveLogs ==
    ASSUME NEW c \in Setups1, NEW g, GameInv(c, g), g.pendingThrow # None,
           NEW cand \in g.pendingThrow.candidates, NEW now \in Nat,
           NEW h, h = CommitMove(c, g, g.pendingThrow.roll, cand, now)
    PROVE  h.pendingThrow = None /\ \E ev \in EventRecords(c) : h.history = Append(g.history, ev)
<1>1. /\ g.pendingMini = None /\ g.pendingThrow.roll \in Rolls
      /\ cand \in Candidates(c, g, g.pendingThrow.roll)
  BY PendingMove
<1>2. Clear(c, g)
  BY <1>1, ClearFromInv
<1>3. PICK ev : ev = TurnEvent(g, g.pendingThrow.roll, cand, now)
  OBVIOUS
<1>4. ev \in EventRecords(c)
  BY <1>1, <1>2, <1>3, TurnEventType
<1>5. h.pendingThrow = None /\ h.history = Append(g.history, ev)
  BY <1>1, <1>2, <1>3, CommitFacts
<1> QED BY <1>4, <1>5

LEMMA ThrowLogs ==
    ASSUME NEW c \in Setups1, NoneApart(c), NEW g, GameInv(c, g), CanThrow(g),
           NEW roll \in Rolls, NEW now \in Nat, NEW h, h = ThrowStick(c, g, roll, now)
    PROVE  \/ h.history = g.history /\ h.pendingThrow # None
           \/ h.pendingThrow = None /\ \E ev \in EventRecords(c) : h.history = Append(g.history, ev)
<1>1. g \in GameRecords(c) /\ g.queue > 0 /\ g.pendingMini = None /\ Clear(c, g)
  BY ClearFromInv DEF GameInv, CanThrow
<1>2. PICK s : s = Spent(g)
  OBVIOUS
<1>3. /\ s.history = g.history /\ Clear(c, s)
      /\ Candidates(c, s, roll) = Candidates(c, g, roll)
  BY <1>1, <1>2, SpentFacts
<1>4. ASSUME NEW cand \in Candidates(c, g, roll), h = CommitMove(c, s, roll, cand, now)
      PROVE  h.pendingThrow = None /\ \E ev \in EventRecords(c) : h.history = Append(g.history, ev)
  <2>1. PICK ev : ev = TurnEvent(s, roll, cand, now)
    OBVIOUS
  <2>2. ev \in EventRecords(c)
    BY <1>3, <2>1, TurnEventType
  <2>3. h.pendingThrow = None /\ h.history = Append(g.history, ev)
    BY <1>3, <1>4, <2>1, CommitFacts
  <2> QED BY <2>2, <2>3
<1> QED BY <1>2, <1>4, ThrowFacts

LEMMA JudgmentLogs ==
    ASSUME NEW c \in Setups1, NEW g, GameInv(c, g), g.pendingMini # None, NEW success \in BOOLEAN,
           NEW h, h = ResolveMiniGame(c, g, success)
    PROVE  /\ ButLast(h.history) = ButLast(g.history)
           /\ Len(h.history) = Len(g.history)
<1>1. h.history = Stamped(g, success)
  BY ResolveFacts
<1>2. PICK ev \in EventRecords(c) : /\ Stamped(g, success) = Append(ButLast(g.history), ev)
                                    /\ ButLast(g.history) \in Seq(EventRecords(c))
                                    /\ Last(g.history) \in EventRecords(c)
                                    /\ g.history = Append(ButLast(g.history), Last(g.history))
  BY StampedFacts
<1>3. ButLast(h.history) = ButLast(g.history)
  BY <1>1, <1>2, ButLastOfMore
<1>4. Len(h.history) = Len(ButLast(g.history)) + 1 /\ Len(g.history) = Len(ButLast(g.history)) + 1
  BY <1>1, <1>2
<1> QED BY <1>3, <1>4

(* The replay of an event adds it to the log, as the rules recompute it.    *)
LEMMA EventLogs ==
    ASSUME NEW c \in Setups1, NoneApart(c), NEW g, GameInv(c, g), NEW ev \in EventRecords(c),
           AtRest(g), NEW h, h = ReplayEvent(c, g, ev), h # None
    PROVE  ButLast(h.history) = g.history
<1>1. PICK thrown, moved : thrown = ReplayThrow(c, g, ev) /\ moved = ReplayMove(c, thrown, ev)
  OBVIOUS
<1>2. ev.roll \in Rolls /\ ev.at \in Nat /\ g # None /\ g.history \in Seq(EventRecords(c))
  BY DEF EventRecords, NoneApart, GameInv, GameRecords
<1>3. thrown # None /\ moved # None /\ h = ReplayMini(c, moved, ev)
  BY <1>1, <1>2 DEF ReplayEvent
<1>4. CanThrow(g) /\ thrown = ThrowStick(c, g, ev.roll, ev.at)
  BY <1>1, <1>3 DEF ReplayThrow
<1>5. GameInv(c, thrown)
  BY <1>2, <1>4, ThrowInv
<1>6. GameInv(c, moved) /\ \E e \in EventRecords(c) : moved.history = Append(g.history, e)
  <2>1. CASE thrown.pendingThrow = None
    BY <1>1, <1>2, <1>4, <1>5, <2>1, ThrowLogs DEF ReplayMove
  <2>2. CASE thrown.pendingThrow # None
    <3>1. thrown.history = g.history
      BY <1>2, <1>4, <2>2, ThrowLogs
    <3>2. PICK cand \in thrown.pendingThrow.candidates :
             moved = CommitMove(c, thrown, thrown.pendingThrow.roll, cand, ev.at)
      BY <1>1, <1>3, <2>2 DEF ReplayMove
    <3> QED BY <1>2, <1>5, <2>2, <3>1, <3>2, MoveLogs, MoveInv
  <2> QED BY <2>1, <2>2
<1>7. ButLast(moved.history) = g.history
  BY <1>2, <1>6, ButLastOfMore
<1>8. CASE moved.pendingMini = None
  BY <1>3, <1>7, <1>8 DEF ReplayMini
<1>9. CASE moved.pendingMini # None
  <2>1. CASE ev.mini = None
    <3>1. h = ResolveMiniGame(c, moved, TRUE)
      BY <1>3, <1>9, <2>1 DEF ReplayMini
    <3> QED BY <1>6, <1>7, <1>9, <3>1, JudgmentLogs
  <2>2. CASE ev.mini # None
    <3>1. PICK x, id : x = SpinMiniGame(moved, id) /\ id = ev.mini.game
      OBVIOUS
    <3>2. id \in MiniGames \cup {None} /\ ev.mini.success \in BOOLEAN
      BY <2>2, <3>1 DEF EventRecords, Outcomes
    <3>3. GameInv(c, x) /\ x.pendingMini # None /\ x.history = moved.history
      BY <1>6, <1>9, <3>1, <3>2, SpinFacts
    <3>4. h = ResolveMiniGame(c, x, ev.mini.success)
      BY <1>3, <1>9, <2>2, <3>1 DEF ReplayMini
    <3> QED BY <1>7, <3>2, <3>3, <3>4, JudgmentLogs
  <2> QED BY <2>1, <2>2
<1> QED BY <1>8, <1>9

(* What undo rebuilds has the log of the game but its last event.          *)
LEMMA UndoLogs ==
    ASSUME NEW c \in Setups1, NoneApart(c), c.teams >= 2, NEW at \in Nat, NEW g, GameInv(c, g),
           Faithful(c, at, g), AtRest(g), g.history # <<>>,
           NEW r, r = Replay(c, at, ButLast(g.history)), r # None
    PROVE  r.history = ButLast(g.history)
<1>1. g \in GameRecords(c) /\ g.history \in Seq(EventRecords(c))
  BY DEF GameInv, GameRecords
<1>2. PICK pre, ev : pre = ButLast(g.history) /\ ev = Last(g.history)
  OBVIOUS
<1>3. pre \in Seq(EventRecords(c)) /\ ev \in EventRecords(c) /\ g.history = Append(pre, ev)
  <2>1. PICK h, n : h = g.history /\ n = Len(h)
    OBVIOUS
  <2>2. n \in Nat /\ n > 0 /\ h \in Seq(EventRecords(c)) /\ ev = h[n] /\ pre = SubSeq(h, 1, n - 1)
    BY <1>1, <1>2, <2>1 DEF ButLast, Last
  <2>3. ev \in EventRecords(c) /\ pre \in Seq(EventRecords(c)) /\ Len(pre) = n - 1
        /\ \A i \in 1..(n - 1) : pre[i] = h[i]
    BY <2>1, <2>2
  <2>4. PICK t : t = Append(pre, ev)
    OBVIOUS
  <2>5. t \in Seq(EventRecords(c)) /\ Len(t) = n /\ t[n] = ev /\ \A i \in 1..(n-1) : t[i] = pre[i]
    BY <2>2, <2>3, <2>4
  <2>6. \A i \in 1..n : t[i] = h[i]
    BY <2>2, <2>3, <2>5
  <2>7. t = h
    BY <2>1, <2>2, <2>5, <2>6
  <2> QED BY <2>1, <2>3, <2>4, <2>7
<1>4. GoodGame(c, at, FALSE, r) /\ AtRest(r)
  BY <1>2, <1>3, ReplayIsGood
<1>5. ReplayEvent(c, r, ev) = g
  <2>1. Replay(c, at, g.history) = g
    BY <1>1, RestFacts DEF Faithful, AtRest
  <2>2. Replay(c, at, Append(pre, ev)) = ReplayEvent(c, Replay(c, at, pre), ev)
    BY <1>3, ReplayOneMore
  <2> QED BY <1>2, <1>3, <2>1, <2>2
<1>6. g # None /\ GameInv(c, r)
  BY <1>1, <1>4 DEF NoneApart, GoodGame
<1> QED BY <1>2, <1>3, <1>4, <1>5, <1>6, EventLogs
-----------------------------------------------------------------------------
(* A mini-game whose outcome was not logged is won again by the replay *)

(* The game but for its log.                                               *)
Blank(g) == [g EXCEPT !.history = <<>>]

Alike(g, h) ==
    /\ g.pos = h.pos /\ g.finishes = h.finishes /\ g.miniWins = h.miniWins /\ g.lastAt = h.lastAt
    /\ g.turn = h.turn /\ g.queue = h.queue
    /\ g.pendingThrow = h.pendingThrow /\ g.pendingMini = h.pendingMini

LEMMA AlikeBlank ==
    ASSUME NEW c, NEW g \in GameRecords(c), NEW h \in GameRecords(c), Alike(g, h)
    PROVE  Blank(g) = Blank(h)
<1>1. PICK x, y, e : x = Blank(g) /\ y = Blank(h) /\ e = <<>>
  OBVIOUS
<1>2. x = [g EXCEPT !.history = e] /\ y = [h EXCEPT !.history = e]
  BY <1>1 DEF Blank
<1>3. x = y
  BY <1>2 DEF Alike, GameRecords
<1> QED BY <1>1, <1>3

LEMMA AlikeAdvance ==
    ASSUME NEW c \in Setups1, NEW g \in GameRecords(c), NEW h \in GameRecords(c),
           g.turn \in TeamIds(c), Alike(g, h)
    PROVE  /\ Alike(PassTurn(c, g), PassTurn(c, h))
           /\ Alike(AdvanceAfterMove(c, g), AdvanceAfterMove(c, h))
<1>1. \A t : IsFinished(c, g, t) = IsFinished(c, h, t)
  BY DEF Alike, IsFinished
<1>2. NextTeam(c, g) = NextTeam(c, h)
  <2> DEFINE Ahead(x, k) == ((x - 1 + k) % c.teams) + 1
             Live(x)  == {k \in 1..c.teams : ~IsFinished(c, x, Ahead(x.turn, k))}
             First(S) == CHOOSE k \in S : \A l \in S : k <= l
  <2>1. g.turn = h.turn
    BY DEF Alike
  <2>2. Live(g) = Live(h)
    BY <1>1, <2>1
  <2>3. /\ NextTeam(c, g) = IF Live(g) = {} THEN g.turn ELSE Ahead(g.turn, First(Live(g)))
        /\ NextTeam(c, h) = IF Live(h) = {} THEN h.turn ELSE Ahead(h.turn, First(Live(h)))
    BY DEF NextTeam
  <2> HIDE DEF Ahead, Live, First
  <2> QED BY <2>1, <2>2, <2>3
<1>3. PICK n, x, y : n = NextTeam(c, g) /\ x = PassTurn(c, g) /\ y = PassTurn(c, h)
  OBVIOUS
<1>4. x = [g EXCEPT !.turn = n, !.queue = 1] /\ y = [h EXCEPT !.turn = n, !.queue = 1]
  BY <1>2, <1>3 DEF PassTurn
<1>5. Alike(x, y)
  BY <1>4 DEF Alike, GameRecords
<1> QED BY <1>1, <1>3, <1>5 DEF AdvanceAfterMove, Alike

(* The judgment does not turn on which game was played.                    *)
LEMMA JudgedAlike ==
    ASSUME NEW c \in Setups1, NEW g, GameInv(c, g), g.pendingMini # None, NEW success \in BOOLEAN,
           NEW x, x = SpinMiniGame(g, None)
    PROVE  Blank(ResolveMiniGame(c, x, success)) = Blank(ResolveMiniGame(c, g, success))
<1>1. PICK p, q, ev, H, K : /\ p = g.pendingMini /\ q = x.pendingMini /\ ev = Last(g.history)
                            /\ H = Stamped(g, success) /\ K = Stamped(x, success)
  OBVIOUS
<1>2. /\ GameInv(c, x) /\ x.history = g.history /\ q # None /\ q.team = p.team /\ q.vs = p.vs
      /\ g \in GameRecords(c) /\ x \in GameRecords(c) /\ p \in MiniRecords(c)
      /\ g.turn \in TeamIds(c)
  <2>1. g \in GameRecords(c) /\ g.turn \in TeamIds(c) /\ p \in MiniRecords(c)
    BY <1>1 DEF GameInv, GameRecords
  <2>2. PICK id \in MiniGames \cup {None} : id = None
    OBVIOUS
  <2>3. /\ GameInv(c, x) /\ x.history = g.history /\ q # None
        /\ q.team = p.team /\ q.vs = p.vs
    BY <1>1, <2>2, SpinFacts
  <2>4. x \in GameRecords(c)
    BY <2>3 DEF GameInv
  <2> QED BY <2>1, <2>3, <2>4
<1>3. x = [g EXCEPT !.pendingMini = q]
  <2>1. PICK r : r = [p EXCEPT !.game = None]
    OBVIOUS
  <2>2. x = [g EXCEPT !.pendingMini = r]
    BY <1>1, <2>1 DEF SpinMiniGame
  <2> QED BY <1>1, <1>2, <2>2 DEF GameRecords
<1>4. PICK P, W : /\ P = JudgedPos(g, ev, p.vs # None, success)
                  /\ W = [t \in DOMAIN g.miniWins |->
                            g.miniWins[t] + (IF t \in Winners(p, success) THEN 1 ELSE 0)]
  OBVIOUS
<1>5. JudgedPos(x, ev, p.vs # None, success) = P
  <2>1. x.pos = g.pos
    BY <1>2, <1>3 DEF GameRecords
  <2> QED BY <1>4, <2>1 DEF JudgedPos
<1>6. [t \in DOMAIN x.miniWins |->
          x.miniWins[t] + (IF t \in Winners(q, success) THEN 1 ELSE 0)] = W
  <2>1. x.miniWins = g.miniWins
    BY <1>2, <1>3 DEF GameRecords
  <2>2. Winners(q, success) = Winners(p, success)
    BY <1>2 DEF Winners
  <2> QED BY <1>4, <2>1, <2>2
<1>7. PICK done, over : /\ done = [g EXCEPT !.pos = P, !.miniWins = W, !.pendingMini = None, !.history = H]
                        /\ over = [x EXCEPT !.pos = P, !.miniWins = W, !.pendingMini = None, !.history = K]
  OBVIOUS
<1>8. /\ ResolveMiniGame(c, g, success)
            = IF success THEN AdvanceAfterMove(c, done) ELSE PassTurn(c, done)
      /\ ResolveMiniGame(c, x, success)
            = IF success THEN AdvanceAfterMove(c, over) ELSE PassTurn(c, over)
  <2>1. ResolveMiniGame(c, g, success)
            = IF success THEN AdvanceAfterMove(c, done) ELSE PassTurn(c, done)
    BY <1>1, <1>4, <1>7 DEF ResolveMiniGame, Last
  <2>2. ResolveMiniGame(c, x, success)
            = IF success THEN AdvanceAfterMove(c, over) ELSE PassTurn(c, over)
    BY <1>1, <1>2, <1>5, <1>6, <1>7 DEF ResolveMiniGame, Last
  <2> QED BY <2>1, <2>2
<1>9. P \in [Mals(c) -> Resting]
  BY <1>1, <1>4, JudgedPosFacts
<1>10. W \in [TeamIds(c) -> Nat]
  BY <1>2, <1>4 DEF GameRecords
<1>11. H \in Seq(EventRecords(c)) /\ K \in Seq(EventRecords(c))
  <2>1. H \in Seq(EventRecords(c))
    <3>1. PICK e \in EventRecords(c) : /\ Stamped(g, success) = Append(ButLast(g.history), e)
                                       /\ ButLast(g.history) \in Seq(EventRecords(c))
      BY StampedFacts
    <3> QED BY <1>1, <3>1
  <2>2. K \in Seq(EventRecords(c))
    <3>1. PICK e \in EventRecords(c) : /\ Stamped(x, success) = Append(ButLast(x.history), e)
                                       /\ ButLast(x.history) \in Seq(EventRecords(c))
      BY <1>1, <1>2, StampedFacts
    <3> QED BY <1>1, <3>1
  <2> QED BY <2>1, <2>2
<1>12. done \in GameRecords(c) /\ over \in GameRecords(c) /\ Alike(over, done)
       /\ over.turn = g.turn
  BY <1>2, <1>3, <1>7, <1>9, <1>10, <1>11 DEF GameRecords, Alike
<1>13. Alike(ResolveMiniGame(c, x, success), ResolveMiniGame(c, g, success))
  BY <1>2, <1>8, <1>12, AlikeAdvance
<1>14. /\ ResolveMiniGame(c, x, success) \in GameRecords(c)
       /\ ResolveMiniGame(c, g, success) \in GameRecords(c)
  BY <1>1, <1>2, ResolveInv DEF GameInv
<1> QED BY <1>13, <1>14, AlikeBlank

LEMMA ReplayWins ==
    ASSUME NEW c \in Setups1, NoneApart(c), NEW at \in Nat, NEW g, GameInv(c, g),
           Faithful(c, at, g), g.pendingMini # None,
           NEW h, h = Replay(c, at, g.history)
    PROVE  /\ h # None /\ Blank(h) = Blank(ResolveMiniGame(c, g, TRUE))
           /\ Len(h.history) = Len(g.history) /\ h.pendingMini = None
<1>1. PICK x, pre, old, y : /\ x = SpinMiniGame(g, None) /\ pre = ButLast(g.history)
                            /\ old = Last(g.history) /\ y = ResolveMiniGame(c, x, TRUE)
  OBVIOUS
<1>0. PICK won \in BOOLEAN : won = TRUE
  OBVIOUS
<1>2. old.mini = None
  BY <1>1 DEF GameInv, PendingMiniMatches
<1>3. pre \in Seq(EventRecords(c)) /\ old \in EventRecords(c) /\ g.history = Append(pre, old)
  BY <1>1, StampedFacts
<1>4. GameInv(c, x) /\ x.pendingMini # None /\ x # None /\ x.history = g.history
  BY <1>1, SpinFacts DEF GameInv, NoneApart
<1>5. Opened(c, Replay(c, at, pre), old) = x
  BY <1>1 DEF Faithful
<1>6. ReplayMini(c, x, old) = y
  BY <1>1, <1>2, <1>4 DEF ReplayMini
<1>7. h = y
  <2>1. h = ReplayEvent(c, Replay(c, at, pre), old)
    BY <1>3, ReplayOneMore
  <2> QED BY <1>4, <1>5, <1>6, <2>1, EventOpened
<1>11. y = ResolveMiniGame(c, x, won)
  BY <1>1, <1>0
<1>8. GameInv(c, y) /\ y.pendingMini = None
  BY <1>11, <1>4, ResolveFacts
<1>9. Len(y.history) = Len(g.history)
  BY <1>11, <1>4, JudgmentLogs
<1>10. Blank(y) = Blank(ResolveMiniGame(c, g, TRUE))
  BY <1>1, JudgedAlike
<1> QED BY <1>7, <1>8, <1>9, <1>10 DEF GameInv, NoneApart
=============================================================================
