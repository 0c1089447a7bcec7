-------------------------------- MODULE Bingo --------------------------------
(***************************************************************************)
(* One bingo room: the reducer of bingo/src/engine/apply.ts as a state     *)
(* machine, one action per case.  A player fills the cells of a card with  *)
(* the other people in the room, each at most once; a full line is a       *)
(* bingo, announced, and kept even when its cells are cleared again.       *)
(*                                                                         *)
(* A player is their number, given out in the order of joining and never   *)
(* again, so players is a sequence; byNumber and nameIndex are lookups in  *)
(* it.  What a cell asks for (traits, permutation) is left out but for     *)
(* whether the card is dealt.                                              *)
(***************************************************************************)
EXTENDS Integers, Sequences, FiniteSets

CONSTANTS
    None,
    GRID,             \* the card is GRID by GRID
    MAX_PLAYERS,
    Nicknames,        \* the names people join with, in that order
    Hands,            \* bound: <<player, cell, target>>, who names whom where
    Flaky,            \* bound: the players who lose their connection
    MaxBingos,        \* bound: bingos announced
    MaxTime           \* bound: the server's clock

ASSUME BingoNone   == None \notin Nat
ASSUME GridIsACard == GRID \in Nat \ {0}
ASSUME CellsOnCard == Hands \subseteq Nat \X (0..(GRID * GRID - 1)) \X Nat
ASSUME BingoBounds == /\ MAX_PLAYERS \in Nat /\ MaxBingos \in Nat /\ MaxTime \in Nat
                      /\ Flaky \subseteq Nat

MIN_PLAYERS     == 2
MAX_REVEAL_STEP == 4
LINE_BONUS      == 5

VARIABLES
    state, revealStep,
    players,      \* by number: [name, connected, dealt, fills,
                  \* filledAt, used, lines, firstAt, firstSeq]
    bingoEvents,  \* the bingos announced, in order
    seq,          \* and how many they are
    now

room == <<players, bingoEvents, seq>>
bvars == <<state, revealStep, room, now>>

Numbers == DOMAIN players

-----------------------------------------------------------------------------
(* The card *)

Cells == 0..(GRID * GRID - 1)

Row(i) == i \div GRID
Col(i) == i % GRID

(* A line is a row, a column or a diagonal: <<kind, index>>.               *)
OnLine(line, i) ==
    CASE line[1] = "row"  -> Row(i) = line[2]
      [] line[1] = "col"  -> Col(i) = line[2]
      [] line[1] = "main" -> Row(i) = Col(i)
      [] line[1] = "anti" -> Row(i) + Col(i) = GRID - 1

Lines == ({"row", "col"} \X (0..(GRID-1))) \cup {<<"main", 0>>, <<"anti", 0>>}

LinesThroughOneDiagonal(i) ==       \* mutant: one diagonal is forgotten
    <<<<"row", Row(i)>>, <<"col", Col(i)>>>>
    \o (IF Row(i) = Col(i) THEN <<<<"main", 0>>>> ELSE <<>>)
LinesThroughFromOne(i) ==           \* mutant: rows and columns counted from one
    <<<<"row", Row(i) + 1>>, <<"col", Col(i) + 1>>>>

LinesThrough(i) ==
    <<<<"row", Row(i)>>, <<"col", Col(i)>>>>
    \o (IF Row(i) = Col(i) THEN <<<<"main", 0>>>> ELSE <<>>)
    \o (IF Row(i) + Col(i) = GRID - 1 THEN <<<<"anti", 0>>>> ELSE <<>>)

Complete(line, fills) == \A i \in Cells : OnLine(line, i) => fills[i] # None

Held(p) == {p.lines[k] : k \in DOMAIN p.lines}

(* The k-th line, alone if it is complete and was not held; and of the four
   lines at most that go through cell i, those that filling it completes.  *)
NewOf(through, k, p) ==
    IF k \in DOMAIN through /\ through[k] \notin Held(p) /\ Complete(through[k], p.fills)
    THEN <<through[k]>> ELSE <<>>

NewlyCompleted(p, i) ==
    LET new(k) == NewOf(LinesThrough(i), k, p) IN (new(1) \o new(2)) \o (new(3) \o new(4))

FilledCells(p) == {i \in Cells : p.fills[i] # None}

-----------------------------------------------------------------------------
(* The ranking, as engine/ranking.ts has it: points, then whose latest fill is
   the earlier, then who joined first, which is the smaller number.  (Not
   as req.md 9, spec.md:270 and the console's list of leaders have it, by the
   first bingo, nor as RUNNING.md:53, by the number of bingos.)             *)

PointsByLines(p) == Len(p.lines)    \* mutant: RUNNING.md:53
PointsOf(p) == Cardinality(FilledCells(p)) + LINE_BONUS * Len(p.lines)

(* When the latest fill on the card was made; with none, later than any.   *)
LastFillAt(p) ==
    LET times == {p.filledAt[i] : i \in FilledCells(p)}
    IN  IF times = {} THEN MaxTime + 1 ELSE CHOOSE t \in times : \A u \in times : u <= t

RanksAbove(ps, m, n) ==
    LET p == ps[m]  q == ps[n] IN
    \/ PointsOf(p) > PointsOf(q)
    \/ /\ PointsOf(p) = PointsOf(q)
       /\ \/ LastFillAt(p) < LastFillAt(q)
          \/ LastFillAt(p) = LastFillAt(q) /\ m < n

-----------------------------------------------------------------------------
(* Whom queries name: a number that player, a name everyone who bears it.  *)

Namesakes(name) == {n \in Numbers : players[n].name = name}

Names == {Nicknames[k] : k \in DOMAIN Nicknames}

ASSUME NicknamesInOrder == Nicknames \in Seq(Names)

Resolve == {{number} : number \in Numbers} \cup {Namesakes(name) : name \in Names}

-----------------------------------------------------------------------------
NewPlayer(name) ==
    [name |-> name, connected |-> TRUE, dealt |-> state = "RUNNING",
     fills |-> [i \in Cells |-> None], filledAt |-> [i \in Cells |-> None],
     used |-> {}, lines |-> <<>>, firstAt |-> None, firstSeq |-> None]

Filled(p, i, target) ==
    [p EXCEPT !.fills[i] = target, !.filledAt[i] = now, !.used = @ \cup {target}]

FirstOverwritten(old, new) == new           \* mutant
FirstOf(old, new) == IF old = None THEN new ELSE old

(* The bingos a fill makes: held from now on, the first of all remembered. *)
WithBingos(p, fresh) ==
    IF fresh = <<>> THEN p
    ELSE [p EXCEPT !.lines = @ \o fresh,
                   !.firstAt  = FirstOf(@, now),
                   !.firstSeq = FirstOf(@, seq + 1)]

Announced(n, p, fresh) ==
    [k \in 1..Len(fresh) |->
        [player |-> n, line |-> fresh[k], at |-> now, seq |-> seq + k,
         count |-> Len(p.lines) + k]]

Welcome(n, target) ==
    /\ target # n                                   \* SELF
    /\ target \notin players[n].used                \* REUSED
    /\ target \in Numbers                           \* NO_SUCH_PERSON

(* commitFill(), after FILL has resolved its query or as FILL_PICK: a phone's
   pick is checked again, for its list may be stale.                       *)
CommitFill(n, i, target) ==
    LET p     == Filled(players[n], i, target)
        fresh == NewlyCompleted(p, i)
    IN  /\ state = "RUNNING"
        /\ n \in Numbers
        /\ players[n].fills[i] = None               \* CELL_TAKEN
        /\ Welcome(n, target)
        /\ seq + Len(fresh) <= MaxBingos
        /\ players' = [players EXCEPT ![n] = WithBingos(p, fresh)]
        /\ bingoEvents' = bingoEvents \o Announced(n, p, fresh)
        /\ seq' = seq + Len(fresh)
        /\ UNCHANGED <<state, revealStep, now>>

-----------------------------------------------------------------------------
Init ==
    /\ state = "SETUP" /\ revealStep = 0
    /\ players = <<>> /\ bingoEvents = <<>> /\ seq = 0
    /\ now = 0

Become(s) == state' = s /\ UNCHANGED <<revealStep, now>>

SetTraits == state = "SETUP" /\ Become("LOBBY") /\ UNCHANGED room

Join ==
    /\ state \in {"LOBBY", "RUNNING"}
    /\ Len(players) < MAX_PLAYERS
    /\ Len(players) < Len(Nicknames)
    /\ players' = Append(players, NewPlayer(Nicknames[Len(players) + 1]))
    /\ UNCHANGED <<state, revealStep, bingoEvents, seq, now>>

Connected(n, isOn) ==
    /\ state # "SETUP"
    /\ n \in Numbers
    /\ players' = [players EXCEPT ![n].connected = isOn]
    /\ UNCHANGED <<state, revealStep, bingoEvents, seq, now>>

Rejoin(n)     == Connected(n, TRUE)
Disconnect(n) == Connected(n, FALSE)

Start ==
    /\ state = "LOBBY"
    /\ Len(players) >= MIN_PLAYERS
    /\ players' = [n \in Numbers |-> [players[n] EXCEPT !.dealt = TRUE]]
    /\ Become("RUNNING")
    /\ UNCHANGED <<bingoEvents, seq>>

(* A query that several people answer to is put back to the phone, and one
   that nobody does is refused; neither changes the room.                  *)
Fill(n, i, named) ==
    \E target \in Numbers : named = {target} /\ CommitFill(n, i, target)

FillPick(n, i, target) == CommitFill(n, i, target)

ClearedKeepsName(p, i) == [p EXCEPT !.fills[i] = None, !.filledAt[i] = None]    \* mutant
ClearedTakesBack(p, i) ==           \* mutant: a bingo goes with its cells
    [p EXCEPT !.fills[i] = None, !.filledAt[i] = None, !.used = @ \ {p.fills[i]},
              !.lines = SelectSeq(@, LAMBDA line : ~OnLine(line, i))]

(* The cell is free and its person may be named again; a bingo stays.      *)
Cleared(p, i) ==
    [p EXCEPT !.fills[i] = None, !.filledAt[i] = None, !.used = @ \ {p.fills[i]}]

Clear(n, i) ==
    /\ state = "RUNNING"
    /\ n \in Numbers
    /\ players[n].fills[i] # None
    /\ players' = [players EXCEPT ![n] = Cleared(@, i)]
    /\ UNCHANGED <<state, revealStep, bingoEvents, seq, now>>

End == state = "RUNNING" /\ Become("ENDED") /\ UNCHANGED room

RevealToAny(step) ==                \* mutant: the steps are not in order
    /\ state \in {"ENDED", "REVEAL"}
    /\ state' = "REVEAL"
    /\ revealStep' = step
    /\ UNCHANGED <<room, now>>

Reveal(step) ==
    /\ \/ state = "ENDED" /\ step = 0
       \/ state = "REVEAL" /\ step = revealStep + 1 /\ step <= MAX_REVEAL_STEP
    /\ state' = "REVEAL"
    /\ revealStep' = step
    /\ UNCHANGED <<room, now>>

Clock == now < MaxTime /\ now' = now + 1 /\ UNCHANGED <<state, revealStep, room>>

Next ==
    \/ SetTraits \/ Join \/ Start \/ End \/ Clock
    \/ \E step \in 0..MAX_REVEAL_STEP : Reveal(step)
    \/ \E n \in Flaky : Rejoin(n) \/ Disconnect(n)
    \/ \E h \in Hands :
          \/ \E named \in Resolve : h[3] \in named /\ Fill(h[1], h[2], named)
          \/ FillPick(h[1], h[2], h[3])
          \/ Clear(h[1], h[2])

Spec == Init /\ [][Next]_bvars

-----------------------------------------------------------------------------
PlayerRecords ==
    [name : Names, connected : BOOLEAN, dealt : BOOLEAN,
     fills : [Cells -> Nat \cup {None}], filledAt : [Cells -> Nat \cup {None}],
     used : SUBSET Nat, lines : Seq(Lines), firstAt : Nat \cup {None}, firstSeq : Nat \cup {None}]

BingoRecords == [player : Nat, line : Lines, at : Nat, seq : Nat, count : Nat]

BingoTypeOK ==
    /\ state \in {"SETUP", "LOBBY", "RUNNING", "ENDED", "REVEAL"}
    /\ revealStep \in 0..MAX_REVEAL_STEP
    /\ players \in Seq(PlayerRecords)
    /\ bingoEvents \in Seq(BingoRecords)
    /\ seq \in Nat
    /\ now \in Nat

(* The set of people used and the cells of a card are one fact kept twice
   (invariants.ts:4), through fills, stale picks, clears and late joins: those
   used are those on the card, once each, present in the room and not its
   owner, and a cell has a time if and only if it has a person.            *)
CardsConsistent ==
    \A n \in Numbers : LET p == players[n] IN
        /\ p.used = {p.fills[i] : i \in FilledCells(p)}
        /\ \A i, j \in FilledCells(p) : p.fills[i] = p.fills[j] => i = j
        /\ p.used \subseteq Numbers \ {n}
        /\ \A i \in Cells : p.fills[i] = None <=> p.filledAt[i] = None

(* The incremental detection misses nothing: it looks at the lines through
   the filled cell only, and yet every full line of a card is held.        *)
NoBingoMissed ==
    \A n \in Numbers : \A line \in Lines :
        Complete(line, players[n].fills) => line \in Held(players[n])

(* The announcements are numbered in the order they were made, over the whole
   room, and a player's own are counted in that order.                     *)
AnnouncedInOrder ==
    /\ seq = Len(bingoEvents)
    /\ \A k \in 1..seq : bingoEvents[k].seq = k
    /\ \A j, k \in 1..seq :
          j < k => /\ bingoEvents[j].at <= bingoEvents[k].at
                   /\ bingoEvents[j].player = bingoEvents[k].player =>
                        bingoEvents[j].count < bingoEvents[k].count

(* The k-th announcement is of a bingo of its player, the count-th; the first
   is the one remembered.                                                  *)
AnnouncedAsHeld(k) ==
    LET e == bingoEvents[k]  p == players[e.player] IN
    /\ e.player \in Numbers
    /\ e.count \in DOMAIN p.lines /\ p.lines[e.count] = e.line
    /\ e.count = 1 => p.firstSeq = e.seq /\ p.firstAt = e.at

AnnouncedAll(n) ==
    LET lines == players[n].lines IN
    /\ \A c \in DOMAIN lines : \E k \in 1..seq :
          bingoEvents[k].player = n /\ bingoEvents[k].count = c
    /\ \A c, d \in DOMAIN lines : lines[c] = lines[d] => c = d
    /\ lines = <<>> => players[n].firstSeq = None /\ players[n].firstAt = None

(* The announcements tell the bingos of every player, each line once, in the
   order they were made; and the first of them is the one remembered.      *)
BingosAreAnnounced ==
    /\ AnnouncedInOrder
    /\ \A k \in 1..seq : AnnouncedAsHeld(k)
    /\ \A n \in Numbers : AnnouncedAll(n)

(* req.md 7.3: a bingo, once earned, is permanent, whatever is cleared.    *)
BingosArePermanent ==
    [][ \A n \in Numbers :
          Held(players[n]) \subseteq Held(players'[n]) ]_bvars

(* The rule of ranking.ts:13-17, points and among equals who reached them
   first: of two players the order turns round only when the one behind fills
   a cell or the one ahead clears one.  No fill costs its own player a place,
   and once the game is over the ranking that the reveal tells step by step
   stays as it is.  (That req.md 9 asks for another order is not looked at.) *)
PlacesAreEarned ==
    [][ \A m, n \in Numbers :
          <<players[m], players[n]>> # <<players'[m], players'[n]>>
          /\ RanksAbove(players, m, n) /\ RanksAbove(players', n, m) =>
             /\ state = "RUNNING"
             /\ \/ players'[n].used \ players[n].used # {}
                \/ players[m].used \ players'[m].used # {} ]_bvars

(* The room goes through the lifecycle of the host; an ending is final.    *)
L == INSTANCE GameLifecycle WITH CanReopen <- FALSE

BingoFollowsLifecycle == L!Spec
=============================================================================
