---------------------------- MODULE Bingo_proofs ----------------------------
(***************************************************************************)
(* What holds of a bingo room for every size of the card, every number of  *)
(* players and every history of fills, picks, clears and late joins.       *)
(***************************************************************************)
EXTENDS Bingo, SequenceTheorems, FiniteSetTheorems, WellFoundedInduction, TLAPS

-----------------------------------------------------------------------------
(* Sequences *)

Elements(s) == {s[k] : k \in DOMAIN s}
Distinct(s) == \A j, k \in DOMAIN s : s[j] = s[k] => j = k

LEMMA ConcatFacts ==
    ASSUME NEW S, NEW s \in Seq(S), NEW t \in Seq(S)
    PROVE  /\ s \o t \in Seq(S) /\ Len(s \o t) = Len(s) + Len(t)
           /\ DOMAIN (s \o t) = 1..(Len(s) + Len(t))
           /\ \A k \in 1..Len(s) : (s \o t)[k] = s[k]
           /\ \A k \in 1..Len(t) : (s \o t)[Len(s) + k] = t[k]
           /\ \A k \in (Len(s) + 1)..(Len(s) + Len(t)) : (s \o t)[k] = t[k - Len(s)]
<1>1. s \o t \in Seq(S) /\ Len(s \o t) = Len(s) + Len(t)
  BY ConcatProperties
<1>2. \A k \in 1..(Len(s) + Len(t)) : (s \o t)[k] = IF k <= Len(s) THEN s[k] ELSE t[k - Len(s)]
  BY ConcatProperties
<1>3. Len(s) \in Nat /\ Len(t) \in Nat
  OBVIOUS
<1> QED BY <1>1, <1>2, <1>3

LEMMA ConcatParts ==
    ASSUME NEW S, NEW s \in Seq(S), NEW t \in Seq(S), NEW u, u = s \o t, NEW n, n = Len(s)
    PROVE  /\ u \in Seq(S) /\ Len(u) = n + Len(t) /\ DOMAIN u = 1..(n + Len(t))
           /\ \A k \in 1..n : u[k] = s[k]
           /\ \A k \in (n + 1)..(n + Len(t)) :
                 k - n \in 1..Len(t) /\ n + (k - n) = k /\ u[k] = t[k - n]
<1>1. n \in Nat /\ Len(t) \in Nat
  OBVIOUS
<1>2. \A k \in (n + 1)..(n + Len(t)) : k - n \in 1..Len(t) /\ n + (k - n) = k
  BY <1>1
<1> QED BY <1>2, ConcatFacts

(* Two lists of different things make one.                                 *)
LEMMA ConcatDistinct ==
    ASSUME NEW S, NEW s \in Seq(S), NEW t \in Seq(S)
    PROVE  /\ Elements(s \o t) = Elements(s) \cup Elements(t)
           /\ Distinct(s) /\ Distinct(t) /\ Elements(s) \cap Elements(t) = {} => Distinct(s \o t)
<1> DEFINE u == s \o t
<1>1. /\ DOMAIN u = 1..(Len(s) + Len(t))
      /\ \A k \in 1..Len(s) : u[k] = s[k]
      /\ \A k \in 1..Len(t) : u[Len(s) + k] = t[k]
      /\ \A k \in (Len(s) + 1)..(Len(s) + Len(t)) : u[k] = t[k - Len(s)]
  BY ConcatFacts
<1>2. /\ DOMAIN s = 1..Len(s) /\ DOMAIN t = 1..Len(t) /\ Len(s) \in Nat /\ Len(t) \in Nat
  OBVIOUS
<1> HIDE DEF u
<1>3. Elements(u) \subseteq Elements(s) \cup Elements(t)
  <2> SUFFICES ASSUME NEW k \in DOMAIN u PROVE u[k] \in Elements(s) \cup Elements(t)
    BY DEF Elements
  <2>1. CASE k <= Len(s)
    BY <1>1, <1>2, <2>1 DEF Elements
  <2>2. CASE k > Len(s)
    <3>1. k - Len(s) \in DOMAIN t /\ u[k] = t[k - Len(s)]
      BY <1>1, <1>2, <2>2
    <3> QED BY <3>1 DEF Elements
  <2> QED BY <1>1, <1>2, <2>1, <2>2
<1>4. Elements(s) \subseteq Elements(u)
  BY <1>1, <1>2 DEF Elements
<1>5. Elements(t) \subseteq Elements(u)
  <2> SUFFICES ASSUME NEW k \in DOMAIN t PROVE t[k] \in Elements(u)
    BY DEF Elements
  <2>1. Len(s) + k \in DOMAIN u /\ u[Len(s) + k] = t[k]
    BY <1>1, <1>2
  <2> QED BY <2>1 DEF Elements
<1>6. ASSUME Distinct(s), Distinct(t), Elements(s) \cap Elements(t) = {} PROVE Distinct(u)
  <2> SUFFICES ASSUME NEW j \in DOMAIN u, NEW k \in DOMAIN u, u[j] = u[k] PROVE j = k
    BY DEF Distinct
  <2>1. j \in 1..(Len(s) + Len(t)) /\ k \in 1..(Len(s) + Len(t))
    BY <1>1
  <2>2. \A x \in 1..(Len(s) + Len(t)) : x <= Len(s) => x \in DOMAIN s /\ u[x] = s[x]
    BY <1>1, <1>2
  <2>3. \A x \in 1..(Len(s) + Len(t)) : ~(x <= Len(s)) => x - Len(s) \in DOMAIN t /\ u[x] = t[x - Len(s)]
    BY <1>1, <1>2
  <2>4. CASE j <= Len(s) /\ k <= Len(s)
    BY <1>6, <2>1, <2>2, <2>4 DEF Distinct
  <2>5. CASE ~(j <= Len(s)) /\ ~(k <= Len(s))
    <3>1. j - Len(s) = k - Len(s)
      BY <1>6, <2>1, <2>3, <2>5 DEF Distinct
    <3> QED BY <1>2, <2>1, <3>1
  <2>6. ASSUME NEW x \in 1..(Len(s) + Len(t)), NEW y \in 1..(Len(s) + Len(t)),
               x <= Len(s), ~(y <= Len(s))
        PROVE  u[x] # u[y]
    <3>1. u[x] \in Elements(s) /\ u[y] \in Elements(t)
      BY <2>2, <2>3, <2>6 DEF Elements
    <3> QED BY <1>6, <3>1
  <2> QED BY <2>1, <2>4, <2>5, <2>6
<1> QED BY <1>3, <1>4, <1>5, <1>6 DEF u

-----------------------------------------------------------------------------
(* The card *)

LEMMA RowAndCol ==
    ASSUME NEW i \in Cells
    PROVE  Row(i) \in 0..(GRID - 1) /\ Col(i) \in 0..(GRID - 1)
<1>1. GRID \in Nat /\ GRID > 0 /\ i \in Nat /\ i < GRID * GRID
  BY GridIsACard DEF Cells
<1>2. i % GRID \in 0..(GRID - 1)
  BY <1>1
<1>3. i \div GRID \in Int /\ i = GRID * (i \div GRID) + (i % GRID)
  BY <1>1
<1> QED BY <1>1, <1>2, <1>3 DEF Row, Col

LEMMA LineHasCell ==
    ASSUME NEW line \in Lines
    PROVE  \E i \in Cells : OnLine(line, i)
<1>1. GRID \in Nat /\ GRID > 0 /\ GRID <= GRID * GRID
  BY GridIsACard
<1>2. \A c \in 0..(GRID - 1) : c \in Cells /\ Row(c) = 0 /\ Col(c) = c
  BY <1>1 DEF Cells, Row, Col
<1>3. \A r \in 0..(GRID - 1) : r * GRID \in Cells /\ Row(r * GRID) = r
  BY <1>1 DEF Cells, Row
<1>4. PICK index : \/ line \in {<<"row", index>>, <<"col", index>>} /\ index \in 0..(GRID - 1)
                   \/ line \in {<<"main", 0>>, <<"anti", 0>>}
  BY DEF Lines
<1>5. CASE line = <<"row", index>> /\ index \in 0..(GRID - 1)
  BY <1>3, <1>5 DEF OnLine
<1>6. CASE line = <<"col", index>> /\ index \in 0..(GRID - 1)
  BY <1>2, <1>6 DEF OnLine
<1>7. CASE line = <<"main", 0>>
  BY <1>1, <1>2, <1>7 DEF OnLine
<1>8. CASE line = <<"anti", 0>>
  <2>1. GRID - 1 \in Cells /\ Row(GRID - 1) + Col(GRID - 1) = GRID - 1
    BY <1>1, <1>2
  <2> QED BY <1>8, <2>1 DEF OnLine
<1> QED BY <1>4, <1>5, <1>6, <1>7, <1>8

(* The lines through a cell are all the lines it is on, each once.         *)
LEMMA Through ==
    ASSUME NEW i \in Cells
    PROVE  /\ LinesThrough(i) \in Seq(Lines) /\ Len(LinesThrough(i)) <= 4
           /\ Distinct(LinesThrough(i))
           /\ \A line \in Lines : OnLine(line, i) => line \in Elements(LinesThrough(i))
<1> DEFINE two  == <<<<"row", Row(i)>>, <<"col", Col(i)>>>>
           main == IF Row(i) = Col(i) THEN <<<<"main", 0>>>> ELSE <<>>
           anti == IF Row(i) + Col(i) = GRID - 1 THEN <<<<"anti", 0>>>> ELSE <<>>
<1>1. LinesThrough(i) = (two \o main) \o anti
  BY DEF LinesThrough
<1>2. two \in Seq(Lines) /\ main \in Seq(Lines) /\ anti \in Seq(Lines)
  <2>1. /\ <<"row", Row(i)>> \in Lines /\ <<"col", Col(i)>> \in Lines
        /\ <<"main", 0>> \in Lines /\ <<"anti", 0>> \in Lines
    BY RowAndCol DEF Lines
  <2> QED BY <2>1
<1>3. Len(two) = 2 /\ Len(main) <= 1 /\ Len(anti) <= 1
  OBVIOUS
<1>4. /\ Elements(two) = {<<"row", Row(i)>>, <<"col", Col(i)>>}
      /\ Elements(main) = IF Row(i) = Col(i) THEN {<<"main", 0>>} ELSE {}
      /\ Elements(anti) = IF Row(i) + Col(i) = GRID - 1 THEN {<<"anti", 0>>} ELSE {}
  BY DEF Elements
<1>5. Distinct(two) /\ Distinct(main) /\ Distinct(anti)
  BY DEF Distinct
<1>6. \A line \in Lines : OnLine(line, i) =>
         line \in Elements(two) \cup Elements(main) \cup Elements(anti)
  <2> HIDE DEF two, main, anti
  <2> SUFFICES ASSUME NEW line \in Lines, OnLine(line, i)
               PROVE  line \in Elements(two) \cup Elements(main) \cup Elements(anti)
    OBVIOUS
  <2>1. PICK index : \/ line \in {<<"row", index>>, <<"col", index>>}
                     \/ line \in {<<"main", 0>>, <<"anti", 0>>}
    BY DEF Lines
  <2>2. CASE line = <<"row", index>>
    BY <1>4, <2>2 DEF OnLine
  <2>3. CASE line = <<"col", index>>
    BY <1>4, <2>3 DEF OnLine
  <2>4. CASE line = <<"main", 0>>
    BY <1>4, <2>4 DEF OnLine
  <2>5. CASE line = <<"anti", 0>>
    BY <1>4, <2>5 DEF OnLine
  <2> QED BY <2>1, <2>2, <2>3, <2>4, <2>5
<1> HIDE DEF two, main, anti
<1>7. /\ two \o main \in Seq(Lines) /\ Len(two \o main) <= 3
      /\ Elements(two \o main) = Elements(two) \cup Elements(main)
      /\ Distinct(two \o main)
  <2>1. Elements(two) \cap Elements(main) = {}
    BY <1>4
  <2> QED BY <1>2, <1>3, <1>5, <2>1, ConcatFacts, ConcatDistinct
<1>8. /\ (two \o main) \o anti \in Seq(Lines) /\ Len((two \o main) \o anti) <= 4
      /\ Elements((two \o main) \o anti) = Elements(two) \cup Elements(main) \cup Elements(anti)
      /\ Distinct((two \o main) \o anti)
  <2>1. Elements(two \o main) \cap Elements(anti) = {}
    BY <1>4, <1>7
  <2> DEFINE u == two \o main
  <2>2. /\ u \in Seq(Lines) /\ Len(u) <= 3 /\ Distinct(u) /\ Elements(u) \cap Elements(anti) = {}
        /\ Elements(u) = Elements(two) \cup Elements(main)
    BY <1>7, <2>1
  <2> HIDE DEF u
  <2>3. /\ u \o anti \in Seq(Lines) /\ Len(u \o anti) <= 4 /\ Distinct(u \o anti)
        /\ Elements(u \o anti) = Elements(two) \cup Elements(main) \cup Elements(anti)
    BY <1>2, <1>3, <1>5, <2>2, ConcatFacts, ConcatDistinct
  <2> QED BY <2>3 DEF u
<1> QED BY <1>1, <1>6, <1>8

(* Filling a cell completes the full lines through it that were not held, each
   once.                                                                   *)
LEMMA NewlyCompletedFacts ==
    ASSUME NEW i \in Cells, NEW p
    PROVE  /\ NewlyCompleted(p, i) \in Seq(Lines)
           /\ Distinct(NewlyCompleted(p, i))
           /\ Elements(NewlyCompleted(p, i)) \cap Held(p) = {}
           /\ \A line \in Lines : OnLine(line, i) /\ Complete(line, p.fills) =>
                 line \in Held(p) \cup Elements(NewlyCompleted(p, i))
<1> DEFINE t == LinesThrough(i)
           n(k) == NewOf(t, k, p)
<1>1. t \in Seq(Lines) /\ Distinct(t) /\ DOMAIN t \subseteq 1..4
  BY Through
<1>2. NewlyCompleted(p, i) = (n(1) \o n(2)) \o (n(3) \o n(4))
  BY DEF NewlyCompleted
<1> HIDE DEF t
<1>3. ASSUME NEW k \in 1..4
      PROVE  /\ n(k) \in Seq(Lines) /\ Distinct(n(k))
             /\ Elements(n(k)) = IF k \in DOMAIN t /\ t[k] \notin Held(p) /\ Complete(t[k], p.fills)
                                 THEN {t[k]} ELSE {}
  <2>1. CASE k \in DOMAIN t /\ t[k] \notin Held(p) /\ Complete(t[k], p.fills)
    <3>1. n(k) = <<t[k]>> /\ t[k] \in Lines
      BY <1>1, <2>1 DEF NewOf
    <3> QED BY <2>1, <3>1 DEF Elements, Distinct
  <2>2. CASE ~(k \in DOMAIN t /\ t[k] \notin Held(p) /\ Complete(t[k], p.fills))
    <3>1. n(k) = <<>>
      BY <2>2 DEF NewOf
    <3> QED BY <2>2, <3>1 DEF Elements, Distinct
  <2> QED BY <2>1, <2>2
<1>4. \A j, k \in 1..4 : j # k => Elements(n(j)) \cap Elements(n(k)) = {}
  BY <1>1, <1>3 DEF Distinct
<1> HIDE DEF n
<1>5. /\ n(1) \o n(2) \in Seq(Lines) /\ Distinct(n(1) \o n(2))
      /\ Elements(n(1) \o n(2)) = Elements(n(1)) \cup Elements(n(2))
  BY <1>3, <1>4, ConcatFacts, ConcatDistinct
<1>6. /\ n(3) \o n(4) \in Seq(Lines) /\ Distinct(n(3) \o n(4))
      /\ Elements(n(3) \o n(4)) = Elements(n(3)) \cup Elements(n(4))
  BY <1>3, <1>4, ConcatFacts, ConcatDistinct
<1>7. Elements(n(1) \o n(2)) \cap Elements(n(3) \o n(4)) = {}
  BY <1>4, <1>5, <1>6
<1>8. /\ NewlyCompleted(p, i) \in Seq(Lines) /\ Distinct(NewlyCompleted(p, i))
      /\ Elements(NewlyCompleted(p, i)) =
            Elements(n(1)) \cup Elements(n(2)) \cup Elements(n(3)) \cup Elements(n(4))
  <2> DEFINE a == n(1) \o n(2)
             b == n(3) \o n(4)
  <2>1. /\ a \in Seq(Lines) /\ Distinct(a) /\ Elements(a) = Elements(n(1)) \cup Elements(n(2))
        /\ b \in Seq(Lines) /\ Distinct(b) /\ Elements(b) = Elements(n(3)) \cup Elements(n(4))
        /\ Elements(a) \cap Elements(b) = {} /\ NewlyCompleted(p, i) = a \o b
    BY <1>2, <1>5, <1>6, <1>7
  <2> HIDE DEF a, b
  <2> QED BY <2>1, ConcatFacts, ConcatDistinct
<1>9. Elements(NewlyCompleted(p, i)) \cap Held(p) = {}
  BY <1>3, <1>8
<1>10. ASSUME NEW line \in Lines, OnLine(line, i), Complete(line, p.fills), line \notin Held(p)
       PROVE  line \in Elements(NewlyCompleted(p, i))
  <2>1. line \in Elements(t)
    BY <1>10, Through DEF t
  <2>2. PICK k \in DOMAIN t : t[k] = line
    BY <2>1 DEF Elements
  <2>3. k \in 1..4 /\ line \in Elements(n(k))
    BY <1>1, <1>3, <1>10, <2>2
  <2> QED BY <1>8, <2>3
<1> QED BY <1>8, <1>9, <1>10
-----------------------------------------------------------------------------
(* The inductive invariant: the properties the runs check, and that no fill and
   no announcement is later than now.                                      *)

TimesPast ==
    /\ \A k \in 1..seq : bingoEvents[k].at <= now
    /\ \A n \in Numbers : \A i \in Cells :
          players[n].filledAt[i] # None => players[n].filledAt[i] <= now

BingoInv ==
    BingoTypeOK /\ CardsConsistent /\ NoBingoMissed /\ BingosAreAnnounced /\ TimesPast

(* A step that leaves the cards alone, whoever connects or is dealt.       *)
SameCards ==
    /\ DOMAIN players' = DOMAIN players
    /\ \A n \in Numbers :
          /\ players'[n].fills = players[n].fills
          /\ players'[n].filledAt = players[n].filledAt
          /\ players'[n].used = players[n].used
          /\ players'[n].lines = players[n].lines
          /\ players'[n].firstAt = players[n].firstAt
          /\ players'[n].firstSeq = players[n].firstSeq
    /\ bingoEvents' = bingoEvents /\ seq' = seq
    /\ now' \in {now, now + 1}

LEMMA PlayerParts ==
    ASSUME BingoTypeOK
    PROVE  /\ Len(players) \in Nat /\ Numbers = 1..Len(players)
           /\ \A n \in Numbers : players[n] \in PlayerRecords
BY DEF BingoTypeOK, Numbers

LEMMA FieldTypes ==
    ASSUME NEW p \in PlayerRecords
    PROVE  /\ p.name \in Names /\ p.connected \in BOOLEAN /\ p.dealt \in BOOLEAN
           /\ p.fills \in [Cells -> Nat \cup {None}] /\ p.filledAt \in [Cells -> Nat \cup {None}]
           /\ p.used \in SUBSET Nat /\ p.lines \in Seq(Lines)
           /\ p.firstAt \in Nat \cup {None} /\ p.firstSeq \in Nat \cup {None}
BY DEF PlayerRecords

(* What a fill makes of its player, and of the room around them.           *)
FilledBy(p, q, n, i, target, fresh) ==
    /\ n \in Numbers /\ target \in Numbers \ {n} /\ target \notin p.used
    /\ p.fills[i] = None /\ state = "RUNNING"
    /\ Distinct(fresh) /\ Elements(fresh) \cap Held(p) = {}
    /\ q \in PlayerRecords
    /\ q.fills = [p.fills EXCEPT ![i] = target]
    /\ q.filledAt = [p.filledAt EXCEPT ![i] = now]
    /\ q.used = p.used \cup {target}
    /\ q.lines = p.lines \o fresh
    /\ q.firstAt  = IF fresh = <<>> THEN p.firstAt ELSE FirstOf(p.firstAt, now)
    /\ q.firstSeq = IF fresh = <<>> THEN p.firstSeq ELSE FirstOf(p.firstSeq, seq + 1)
    /\ \A line \in Lines : OnLine(line, i) /\ Complete(line, q.fills) =>
          line \in Held(p) \cup Elements(fresh)

FilledRoom(p, n, fresh) ==
    /\ players' \in Seq(PlayerRecords) /\ DOMAIN players' = DOMAIN players
    /\ \A m \in Numbers \ {n} : players'[m] = players[m]
    /\ bingoEvents' = bingoEvents \o Announced(n, p, fresh)
    /\ seq' = seq + Len(fresh)
    /\ UNCHANGED <<state, revealStep, now>>

LEMMA FillFacts ==
    ASSUME BingoTypeOK, NEW n, NEW i \in Cells, NEW target, CommitFill(n, i, target)
    PROVE  \E fresh \in Seq(Lines) : /\ FilledBy(players[n], players'[n], n, i, target, fresh)
                                     /\ FilledRoom(players[n], n, fresh)
<1> DEFINE p == players[n]
           f == Filled(p, i, target)
           fresh == NewlyCompleted(f, i)
           q == WithBingos(f, fresh)
<1>1. /\ state = "RUNNING" /\ n \in Numbers /\ p.fills[i] = None /\ Welcome(n, target)
      /\ players' = [players EXCEPT ![n] = q]
      /\ bingoEvents' = bingoEvents \o Announced(n, f, fresh)
      /\ seq' = seq + Len(fresh) /\ UNCHANGED <<state, revealStep, now>>
  BY DEF CommitFill
<1>2. target \in Numbers \ {n} /\ target \notin p.used /\ target \in Nat
  BY <1>1, PlayerParts DEF Welcome
<1>3. p \in PlayerRecords /\ now \in Nat /\ seq \in Nat
  BY <1>1, PlayerParts DEF BingoTypeOK
<1>4. /\ f.name = p.name /\ f.connected = p.connected /\ f.dealt = p.dealt
      /\ f.fills = [p.fills EXCEPT ![i] = target] /\ f.filledAt = [p.filledAt EXCEPT ![i] = now]
      /\ f.used = p.used \cup {target} /\ f.lines = p.lines
      /\ f.firstAt = p.firstAt /\ f.firstSeq = p.firstSeq
      /\ f \in PlayerRecords
  BY <1>2, <1>3 DEF Filled, PlayerRecords
<1>5. Held(f) = Held(p)
  BY <1>4 DEF Held
<1>6. /\ fresh \in Seq(Lines) /\ Distinct(fresh) /\ Elements(fresh) \cap Held(p) = {}
      /\ \A line \in Lines : OnLine(line, i) /\ Complete(line, f.fills) =>
            line \in Held(p) \cup Elements(fresh)
  BY <1>5, NewlyCompletedFacts
<1> HIDE DEF p, f, fresh
<1>7. /\ p.lines \o fresh \in Seq(Lines) /\ (fresh = <<>> => p.lines \o fresh = p.lines)
      /\ FirstOf(p.firstAt, now) \in Nat \cup {None} /\ FirstOf(p.firstSeq, seq + 1) \in Nat \cup {None}
  <2>1. p.lines \in Seq(Lines) /\ p.firstAt \in Nat \cup {None} /\ p.firstSeq \in Nat \cup {None}
    BY <1>3, FieldTypes
  <2> QED BY <1>3, <1>6, <2>1, ConcatProperties, ConcatEmptySeq DEF FirstOf
<1>8. /\ q.fills = f.fills /\ q.filledAt = f.filledAt /\ q.used = f.used
      /\ q.lines = p.lines \o fresh
      /\ q.firstAt  = IF fresh = <<>> THEN p.firstAt ELSE FirstOf(p.firstAt, now)
      /\ q.firstSeq = IF fresh = <<>> THEN p.firstSeq ELSE FirstOf(p.firstSeq, seq + 1)
      /\ q \in PlayerRecords
  BY <1>4, <1>7 DEF WithBingos, PlayerRecords
<1> HIDE DEF q
<1>9. /\ players' \in Seq(PlayerRecords) /\ DOMAIN players' = DOMAIN players /\ players'[n] = q
      /\ \A m \in Numbers \ {n} : players'[m] = players[m]
  BY <1>1, <1>8, PlayerParts, ExceptSeq DEF BingoTypeOK, Numbers
<1>10. Announced(n, f, fresh) = Announced(n, p, fresh)
  BY <1>4 DEF Announced
<1> QED BY <1>1, <1>2, <1>4, <1>6, <1>8, <1>9, <1>10 DEF p, FilledBy, FilledRoom
-----------------------------------------------------------------------------
(* Every operation keeps it *)

LEMMA AnnouncementParts ==
    ASSUME BingoInv
    PROVE  /\ seq = Len(bingoEvents) /\ DOMAIN bingoEvents = 1..seq
           /\ \A k \in 1..seq : /\ bingoEvents[k] \in BingoRecords /\ bingoEvents[k].at \in Nat
                                /\ bingoEvents[k].count \in Nat
<1>1. bingoEvents \in Seq(BingoRecords) /\ seq = Len(bingoEvents)
  BY DEF BingoInv, BingoTypeOK, BingosAreAnnounced, AnnouncedInOrder
<1>2. \A k \in 1..seq : bingoEvents[k] \in BingoRecords
  BY <1>1
<1> QED BY <1>1, <1>2 DEF BingoRecords

LEMMA SameCardsKeep ==
    ASSUME BingoInv, BingoTypeOK', SameCards
    PROVE  BingoInv'
<1>1. /\ Numbers' = Numbers /\ seq' = seq /\ bingoEvents' = bingoEvents
      /\ now \in Nat /\ now <= now'
  BY DEF SameCards, Numbers, BingoInv, BingoTypeOK
<1>2. ASSUME NEW n \in Numbers
      PROVE  /\ players'[n].fills = players[n].fills /\ players'[n].filledAt = players[n].filledAt
             /\ players'[n].used = players[n].used /\ players'[n].lines = players[n].lines
             /\ players'[n].firstAt = players[n].firstAt /\ players'[n].firstSeq = players[n].firstSeq
             /\ FilledCells(players'[n]) = FilledCells(players[n])
             /\ Held(players'[n]) = Held(players[n])
  BY <1>2 DEF SameCards, Numbers, FilledCells, Held
<1>3. CardsConsistent'
  BY <1>1, <1>2 DEF BingoInv, CardsConsistent
<1>4. NoBingoMissed'
  BY <1>1, <1>2 DEF BingoInv, NoBingoMissed, Complete
<1>5. BingosAreAnnounced'
  <2>1. AnnouncedInOrder'
    BY <1>1 DEF BingoInv, BingosAreAnnounced, AnnouncedInOrder
  <2>2. \A k \in 1..seq' : AnnouncedAsHeld(k)'
    BY <1>1, <1>2 DEF BingoInv, BingosAreAnnounced, AnnouncedAsHeld
  <2>3. \A n \in Numbers' : AnnouncedAll(n)'
    BY <1>1, <1>2 DEF BingoInv, BingosAreAnnounced, AnnouncedAll
  <2> QED BY <2>1, <2>2, <2>3 DEF BingosAreAnnounced
<1>6. TimesPast'
  <2>1. \A k \in 1..seq : bingoEvents[k].at \in Nat
    BY AnnouncementParts
  <2>2. \A n \in Numbers : \A i \in Cells : players[n].filledAt[i] \in Nat \cup {None}
    BY PlayerParts, FieldTypes DEF BingoInv
  <2>3. now' \in Nat
    BY DEF BingoTypeOK
  <2>4. \A n \in Numbers : \A i \in Cells :
           players[n].filledAt[i] # None => players[n].filledAt[i] <= now'
    BY <1>1, <2>2, <2>3 DEF BingoInv, TimesPast
  <2>5. \A k \in 1..seq : bingoEvents[k].at <= now'
    BY <1>1, <2>1, <2>3 DEF BingoInv, TimesPast
  <2> QED BY <1>1, <1>2, <2>4, <2>5 DEF TimesPast
<1> QED BY <1>3, <1>4, <1>5, <1>6 DEF BingoInv

LEMMA JoinKeeps ==
    ASSUME BingoInv, Join
    PROVE  BingoInv'
<1> PICK m : m = Len(players) + 1
  OBVIOUS
<1> DEFINE new == NewPlayer(Nicknames[m])
<1>1. /\ players \in Seq(PlayerRecords) /\ Len(players) \in Nat /\ Numbers = 1..Len(players)
      /\ players' = Append(players, new)
      /\ UNCHANGED <<state, revealStep, bingoEvents, seq, now>> /\ BingoTypeOK
  BY PlayerParts DEF Join, BingoInv, BingoTypeOK
<1>2. m \in DOMAIN Nicknames /\ Nicknames[m] \in Names
  BY <1>1, NicknamesInOrder DEF Join, Names
<1>3. new \in PlayerRecords
  BY <1>2 DEF NewPlayer, PlayerRecords
<1>4. /\ new.fills = [i \in Cells |-> None] /\ new.filledAt = [i \in Cells |-> None]
      /\ new.used = {} /\ new.lines = <<>> /\ new.firstAt = None /\ new.firstSeq = None
  BY DEF NewPlayer
<1> HIDE DEF new
<1>5. /\ players' \in Seq(PlayerRecords) /\ Numbers' = Numbers \cup {m} /\ m \notin Numbers
      /\ players'[m] = new
      /\ \A n \in Numbers : players'[n] = players[n]
  <2>1. /\ players' \in Seq(PlayerRecords) /\ Len(players') = Len(players) + 1
        /\ \A n \in 1..Len(players) : players'[n] = players[n]
        /\ players'[m] = new
    BY <1>1, <1>3, AppendProperties
  <2>2. Numbers' = 1..(Len(players) + 1)
    BY <2>1 DEF Numbers
  <2> QED BY <1>1, <2>1, <2>2
<1>6. BingoTypeOK'
  BY <1>1, <1>5 DEF BingoTypeOK
<1>7. FilledCells(new) = {} /\ Held(new) = {}
  BY <1>4 DEF FilledCells, Held
<1>8. CardsConsistent'
  BY <1>4, <1>5, <1>7 DEF BingoInv, CardsConsistent
<1>9. NoBingoMissed'
  <2>1. \A line \in Lines : ~Complete(line, new.fills)
    BY <1>4, LineHasCell DEF Complete
  <2> QED BY <1>5, <2>1 DEF BingoInv, NoBingoMissed
<1>10. BingosAreAnnounced'
  <2>1. AnnouncedInOrder'
    BY <1>1 DEF BingoInv, BingosAreAnnounced, AnnouncedInOrder
  <2>2. \A k \in 1..seq' : AnnouncedAsHeld(k)'
    BY <1>1, <1>5 DEF BingoInv, BingosAreAnnounced, AnnouncedAsHeld
  <2>3. \A n \in Numbers : AnnouncedAll(n)'
    BY <1>1, <1>5 DEF BingoInv, BingosAreAnnounced, AnnouncedAll
  <2>4. AnnouncedAll(m)'
    BY <1>4, <1>5 DEF AnnouncedAll
  <2> QED BY <1>5, <2>1, <2>2, <2>3, <2>4 DEF BingosAreAnnounced
<1>11. TimesPast'
  BY <1>1, <1>4, <1>5 DEF BingoInv, TimesPast
<1> QED BY <1>6, <1>8, <1>9, <1>10, <1>11 DEF BingoInv

LEMMA ClearKeeps ==
    ASSUME BingoInv, NEW n, NEW i \in Cells, Clear(n, i)
    PROVE  BingoInv'
<1> DEFINE p == players[n]
           q == Cleared(p, i)
<1>1. /\ n \in Numbers /\ p.fills[i] # None /\ players' = [players EXCEPT ![n] = q]
      /\ UNCHANGED <<state, revealStep, bingoEvents, seq, now>> /\ BingoTypeOK
  BY DEF Clear, BingoInv
<1>2. p \in PlayerRecords
  BY <1>1, PlayerParts
<1>3. /\ q.fills = [p.fills EXCEPT ![i] = None] /\ q.filledAt = [p.filledAt EXCEPT ![i] = None]
      /\ q.used = p.used \ {p.fills[i]} /\ q.lines = p.lines
      /\ q.firstAt = p.firstAt /\ q.firstSeq = p.firstSeq /\ q \in PlayerRecords
  BY <1>2 DEF Cleared, PlayerRecords
<1>4. p.fills \in [Cells -> Nat \cup {None}] /\ p.filledAt \in [Cells -> Nat \cup {None}]
  BY <1>2, FieldTypes
<1> HIDE DEF q
<1>5. /\ players' \in Seq(PlayerRecords) /\ Numbers' = Numbers /\ players'[n] = q
      /\ \A m \in Numbers \ {n} : players'[m] = players[m]
  BY <1>1, <1>3, PlayerParts, ExceptSeq DEF BingoTypeOK, Numbers
<1>6. BingoTypeOK'
  BY <1>1, <1>5 DEF BingoTypeOK
<1>7. FilledCells(q) = FilledCells(p) \ {i} /\ Held(q) = Held(p)
  BY <1>3, <1>4 DEF FilledCells, Held
<1>8. CardsConsistent'
  <2>1. /\ p.used = {p.fills[j] : j \in FilledCells(p)}
        /\ \A j, k \in FilledCells(p) : p.fills[j] = p.fills[k] => j = k
        /\ p.used \subseteq Numbers \ {n}
        /\ \A j \in Cells : p.fills[j] = None <=> p.filledAt[j] = None
    BY <1>1 DEF BingoInv, CardsConsistent
  <2>2. i \in FilledCells(p) /\ FilledCells(p) \subseteq Cells
    BY <1>1 DEF FilledCells
  <2>3. \A j \in Cells : /\ q.fills[j] = IF j = i THEN None ELSE p.fills[j]
                         /\ q.filledAt[j] = IF j = i THEN None ELSE p.filledAt[j]
    BY <1>3, <1>4
  <2>4. {q.fills[j] : j \in FilledCells(q)} = {p.fills[j] : j \in FilledCells(p)} \ {p.fills[i]}
    <3>1. \A j \in FilledCells(q) : j \in FilledCells(p) /\ j # i /\ q.fills[j] = p.fills[j]
      BY <1>7, <2>2, <2>3
    <3>2. \A j \in FilledCells(p) : j # i => j \in FilledCells(q) /\ p.fills[j] # p.fills[i]
      BY <1>7, <2>1, <2>2
    <3> QED BY <2>1, <2>2, <3>1, <3>2
  <2>5. /\ q.used = {q.fills[j] : j \in FilledCells(q)}
        /\ \A j, k \in FilledCells(q) : q.fills[j] = q.fills[k] => j = k
        /\ q.used \subseteq Numbers \ {n}
        /\ \A j \in Cells : q.fills[j] = None <=> q.filledAt[j] = None
    BY <1>3, <1>7, <2>1, <2>2, <2>3, <2>4
  <2> QED BY <1>1, <1>5, <2>5 DEF BingoInv, CardsConsistent
<1>9. NoBingoMissed'
  <2>1. \A line \in Lines : Complete(line, q.fills) => Complete(line, p.fills)
    BY <1>3, <1>4 DEF Complete
  <2> QED BY <1>1, <1>5, <1>7, <2>1 DEF BingoInv, NoBingoMissed
<1>10. BingosAreAnnounced'
  <2>1. AnnouncedInOrder'
    BY <1>1 DEF BingoInv, BingosAreAnnounced, AnnouncedInOrder
  <2>2. \A m \in Numbers : /\ players'[m].lines = players[m].lines
                           /\ players'[m].firstAt = players[m].firstAt
                           /\ players'[m].firstSeq = players[m].firstSeq
    BY <1>1, <1>3, <1>5
  <2>3. \A k \in 1..seq' : AnnouncedAsHeld(k)'
    BY <1>1, <1>5, <2>2 DEF BingoInv, BingosAreAnnounced, AnnouncedAsHeld
  <2>4. \A m \in Numbers' : AnnouncedAll(m)'
    BY <1>1, <1>5, <2>2 DEF BingoInv, BingosAreAnnounced, AnnouncedAll
  <2> QED BY <2>1, <2>3, <2>4 DEF BingosAreAnnounced
<1>11. TimesPast'
  <2>1. \A j \in Cells : q.filledAt[j] # None => q.filledAt[j] = p.filledAt[j]
    BY <1>3, <1>4
  <2> QED BY <1>1, <1>5, <2>1 DEF BingoInv, TimesPast
<1> QED BY <1>6, <1>8, <1>9, <1>10, <1>11 DEF BingoInv

(* The announcements of a fill, by their place in the room's list.         *)
LEMMA AnnouncedFacts ==
    ASSUME BingoInv, NEW n \in Nat, NEW p \in PlayerRecords, NEW fresh \in Seq(Lines),
           bingoEvents' = bingoEvents \o Announced(n, p, fresh)
    PROVE  /\ bingoEvents' \in Seq(BingoRecords) /\ Len(bingoEvents') = seq + Len(fresh)
           /\ \A k \in 1..seq : bingoEvents'[k] = bingoEvents[k]
           /\ \A k \in (seq + 1)..(seq + Len(fresh)) :
                 /\ bingoEvents'[k].player = n /\ bingoEvents'[k].at = now
                 /\ bingoEvents'[k].seq = k /\ bingoEvents'[k].line = fresh[k - seq]
                 /\ bingoEvents'[k].count = Len(p.lines) + (k - seq)
<1> DEFINE a == Announced(n, p, fresh)
<1>1. seq \in Nat /\ now \in Nat /\ bingoEvents \in Seq(BingoRecords) /\ seq = Len(bingoEvents)
  BY AnnouncementParts DEF BingoInv, BingoTypeOK
<1>2. Len(p.lines) \in Nat /\ Len(fresh) \in Nat
  BY FieldTypes
<1>3. \A k \in 1..Len(fresh) :
         [player |-> n, line |-> fresh[k], at |-> now, seq |-> seq + k,
          count |-> Len(p.lines) + k] \in BingoRecords
  BY <1>1, <1>2 DEF BingoRecords
<1>4. a \in Seq(BingoRecords) /\ Len(a) = Len(fresh)
  BY <1>2, <1>3 DEF Announced
<1>5. \A k \in 1..Len(fresh) : a[k] =
         [player |-> n, line |-> fresh[k], at |-> now, seq |-> seq + k,
          count |-> Len(p.lines) + k]
  BY DEF Announced
<1> HIDE DEF a
<1>6. bingoEvents' = bingoEvents \o a
  BY DEF a
<1>7. /\ bingoEvents' \in Seq(BingoRecords) /\ Len(bingoEvents') = seq + Len(fresh)
      /\ \A k \in 1..seq : bingoEvents'[k] = bingoEvents[k]
      /\ \A k \in (seq + 1)..(seq + Len(fresh)) :
            k - seq \in 1..Len(fresh) /\ seq + (k - seq) = k /\ bingoEvents'[k] = a[k - seq]
  <2> DEFINE u == bingoEvents'
  <2>1. u = bingoEvents \o a
    BY <1>6
  <2> HIDE DEF u
  <2>2. /\ u \in Seq(BingoRecords) /\ Len(u) = seq + Len(a)
        /\ \A k \in 1..seq : u[k] = bingoEvents[k]
        /\ \A k \in (seq + 1)..(seq + Len(a)) :
              k - seq \in 1..Len(a) /\ seq + (k - seq) = k /\ u[k] = a[k - seq]
    <3>0. bingoEvents \o a \in Seq(BingoRecords) /\ Len(bingoEvents \o a) = Len(bingoEvents) + Len(a)
      BY <1>1, <1>4, ConcatProperties
    <3>1. u \in Seq(BingoRecords) /\ Len(u) = seq + Len(a)
      BY <1>1, <2>1, <3>0
    <3>2. \A k \in 1..seq : u[k] = bingoEvents[k]
      BY <1>1, <1>4, <2>1, ConcatParts
    <3>3. \A k \in (seq + 1)..(seq + Len(a)) : k - seq \in 1..Len(a) /\ seq + (k - seq) = k
      BY <1>1, <1>4, <2>1, ConcatParts
    <3>4. \A k \in (seq + 1)..(seq + Len(a)) : u[k] = a[k - seq]
      BY <1>1, <1>4, <2>1, ConcatParts
    <3> QED BY <3>1, <3>2, <3>3, <3>4
  <2> QED BY <1>4, <2>2 DEF u
<1>8. ASSUME NEW k \in (seq + 1)..(seq + Len(fresh))
      PROVE  /\ bingoEvents'[k].player = n /\ bingoEvents'[k].at = now
             /\ bingoEvents'[k].seq = k /\ bingoEvents'[k].line = fresh[k - seq]
             /\ bingoEvents'[k].count = Len(p.lines) + (k - seq)
  <2>1. bingoEvents'[k] = [player |-> n, line |-> fresh[k - seq], at |-> now, seq |-> seq + (k - seq),
                           count |-> Len(p.lines) + (k - seq)]
    BY <1>5, <1>7
  <2> QED BY <1>7, <2>1
<1> QED BY <1>7, <1>8

LEMMA FillKeeps ==
    ASSUME BingoInv, NEW n, NEW i \in Cells, NEW target, CommitFill(n, i, target)
    PROVE  BingoInv'
<1>0. PICK p, q : p = players[n] /\ q = players'[n]
  OBVIOUS
<1>1. BingoTypeOK /\ now \in Nat /\ seq \in Nat /\ Numbers = 1..Len(players) /\ Len(players) \in Nat
  BY PlayerParts DEF BingoInv, BingoTypeOK
<1>a. PICK fresh \in Seq(Lines) : FilledBy(p, q, n, i, target, fresh) /\ FilledRoom(p, n, fresh)
  BY <1>0, <1>1, FillFacts
<1>2. /\ n \in Numbers /\ target \in Numbers \ {n} /\ target \notin p.used
      /\ p.fills[i] = None /\ state = "RUNNING"
      /\ Distinct(fresh) /\ Elements(fresh) \cap Held(p) = {}
      /\ q \in PlayerRecords
      /\ q.fills = [p.fills EXCEPT ![i] = target]
      /\ q.filledAt = [p.filledAt EXCEPT ![i] = now]
      /\ q.used = p.used \cup {target}
      /\ q.lines = p.lines \o fresh
      /\ q.firstAt  = IF fresh = <<>> THEN p.firstAt ELSE FirstOf(p.firstAt, now)
      /\ q.firstSeq = IF fresh = <<>> THEN p.firstSeq ELSE FirstOf(p.firstSeq, seq + 1)
      /\ \A line \in Lines : OnLine(line, i) /\ Complete(line, q.fills) =>
            line \in Held(p) \cup Elements(fresh)
      /\ players' \in Seq(PlayerRecords) /\ DOMAIN players' = DOMAIN players
      /\ \A m \in Numbers \ {n} : players'[m] = players[m]
      /\ UNCHANGED <<state, revealStep, now>>
  BY <1>a DEF FilledBy, FilledRoom
<1>b. bingoEvents' = bingoEvents \o Announced(n, p, fresh)
  BY <1>a DEF FilledRoom
<1>c. PICK held, added : held = Len(p.lines) /\ added = Len(fresh)
  OBVIOUS
<1>3. /\ p \in PlayerRecords /\ p.fills \in [Cells -> Nat \cup {None}]
      /\ p.filledAt \in [Cells -> Nat \cup {None}] /\ p.lines \in Seq(Lines) /\ held \in Nat
      /\ added \in Nat /\ n \in Nat /\ Numbers' = Numbers
  BY <1>0, <1>1, <1>2, <1>c, PlayerParts, FieldTypes DEF Numbers
<1>d. seq' = seq + added
  BY <1>a, <1>c DEF FilledRoom
<1>4. /\ bingoEvents' \in Seq(BingoRecords) /\ Len(bingoEvents') = seq + added
      /\ \A k \in 1..seq : bingoEvents'[k] = bingoEvents[k]
      /\ \A k \in (seq + 1)..(seq + added) :
            /\ bingoEvents'[k].player = n /\ bingoEvents'[k].at = now
            /\ bingoEvents'[k].seq = k /\ bingoEvents'[k].line = fresh[k - seq]
            /\ bingoEvents'[k].count = held + (k - seq)
  <2>1. /\ bingoEvents' \in Seq(BingoRecords) /\ Len(bingoEvents') = seq + Len(fresh)
        /\ \A k \in 1..seq : bingoEvents'[k] = bingoEvents[k]
        /\ \A k \in (seq + 1)..(seq + Len(fresh)) :
              /\ bingoEvents'[k].player = n /\ bingoEvents'[k].at = now
              /\ bingoEvents'[k].seq = k /\ bingoEvents'[k].line = fresh[k - seq]
              /\ bingoEvents'[k].count = Len(p.lines) + (k - seq)
    BY <1>b, <1>3, AnnouncedFacts
  <2> QED BY <1>c, <2>1
<1>5. /\ DOMAIN q.lines = 1..(held + added) /\ DOMAIN p.lines = 1..held
      /\ \A c \in 1..held : q.lines[c] = p.lines[c]
      /\ \A k \in 1..added : q.lines[held + k] = fresh[k]
  BY <1>2, <1>3, <1>c, ConcatFacts
<1>6. Held(q) = Held(p) \cup Elements(fresh) /\ Distinct(q.lines)
  <2>1. Elements(p.lines) = Held(p) /\ Elements(q.lines) = Held(q)
    BY DEF Elements, Held
  <2>2. Distinct(p.lines)
    BY <1>0, <1>2 DEF BingoInv, BingosAreAnnounced, AnnouncedAll, Distinct
  <2> QED BY <1>2, <1>3, <2>1, <2>2, ConcatDistinct
<1>7. BingoTypeOK'
  BY <1>1, <1>2, <1>d, <1>3, <1>4 DEF BingoTypeOK
<1>8. \A j \in Cells : /\ q.fills[j] = IF j = i THEN target ELSE p.fills[j]
                       /\ q.filledAt[j] = IF j = i THEN now ELSE p.filledAt[j]
  BY <1>2, <1>3
<1>9. target # None /\ now # None
  BY <1>1, <1>2, BingoNone
<1>10. CardsConsistent'
  <2>1. /\ p.used = {p.fills[j] : j \in FilledCells(p)}
        /\ \A j, k \in FilledCells(p) : p.fills[j] = p.fills[k] => j = k
        /\ p.used \subseteq Numbers \ {n}
        /\ \A j \in Cells : p.fills[j] = None <=> p.filledAt[j] = None
    BY <1>0, <1>2 DEF BingoInv, CardsConsistent
  <2>2. FilledCells(q) = FilledCells(p) \cup {i} /\ i \notin FilledCells(p)
    BY <1>2, <1>8, <1>9 DEF FilledCells
  <2>3. FilledCells(p) \subseteq Cells
    BY DEF FilledCells
  <2>4. {q.fills[j] : j \in FilledCells(q)} = {p.fills[j] : j \in FilledCells(p)} \cup {target}
    <3>1. \A j \in FilledCells(p) : q.fills[j] = p.fills[j]
      BY <1>8, <2>2, <2>3
    <3>2. q.fills[i] = target
      BY <1>8
    <3> QED BY <2>2, <3>1, <3>2
  <2>5. /\ q.used = {q.fills[j] : j \in FilledCells(q)}
        /\ \A j, k \in FilledCells(q) : q.fills[j] = q.fills[k] => j = k
        /\ q.used \subseteq Numbers \ {n}
        /\ \A j \in Cells : q.fills[j] = None <=> q.filledAt[j] = None
    <3>1. \A j \in FilledCells(p) : p.fills[j] \in p.used
      BY <2>1
    <3>2. \A j, k \in FilledCells(q) : q.fills[j] = q.fills[k] => j = k
      BY <1>2, <1>8, <2>1, <2>2, <2>3, <3>1
    <3> QED BY <1>2, <1>8, <1>9, <2>1, <2>4, <3>2
  <2>6. ASSUME NEW m \in Numbers, m # n
        PROVE  LET r == players'[m] IN
               /\ r.used = {r.fills[j] : j \in FilledCells(r)}
               /\ \A j, k \in FilledCells(r) : r.fills[j] = r.fills[k] => j = k
               /\ r.used \subseteq Numbers \ {m}
               /\ \A j \in Cells : r.fills[j] = None <=> r.filledAt[j] = None
    <3>1. players'[m] = players[m]
      BY <1>2, <2>6
    <3> QED BY <3>1 DEF BingoInv, CardsConsistent
  <2> QED BY <1>0, <1>3, <2>5, <2>6 DEF CardsConsistent
<1>11. NoBingoMissed'
  <2>1. ASSUME NEW line \in Lines, Complete(line, q.fills)
        PROVE  line \in Held(q)
    <3>1. CASE OnLine(line, i)
      BY <1>2, <1>6, <2>1, <3>1
    <3>2. CASE ~OnLine(line, i)
      <4>1. Complete(line, p.fills)
        BY <1>8, <2>1, <3>2 DEF Complete
      <4> QED BY <1>0, <1>2, <1>6, <4>1 DEF BingoInv, NoBingoMissed
    <3> QED BY <3>1, <3>2
  <2> QED BY <1>0, <1>2, <1>3, <2>1 DEF BingoInv, NoBingoMissed
<1>12. TimesPast'
  <2>1. \A k \in 1..seq' : bingoEvents'[k].at <= now'
    <3> SUFFICES ASSUME NEW k \in 1..seq' PROVE bingoEvents'[k].at <= now'
      OBVIOUS
    <3>1. CASE k \in 1..seq
      BY <1>1, <1>2, <1>4, <3>1 DEF BingoInv, TimesPast
    <3>2. CASE k \notin 1..seq
      <4>1. k \in (seq + 1)..(seq + added)
        BY <1>1, <1>d, <1>3, <3>2
      <4>2. bingoEvents'[k].at = now
        BY <1>4, <4>1
      <4> QED BY <1>1, <1>2, <4>2
    <3> QED BY <3>1, <3>2
  <2>2. \A j \in Cells : q.filledAt[j] # None => q.filledAt[j] <= now
    BY <1>0, <1>1, <1>2, <1>8 DEF BingoInv, TimesPast
  <2> QED BY <1>0, <1>2, <1>3, <2>1, <2>2 DEF BingoInv, TimesPast
<1>13. BingosAreAnnounced'
  <2>1. \A k \in 1..seq' : \/ k \in 1..seq /\ bingoEvents'[k] = bingoEvents[k]
                           \/ /\ k - seq \in 1..added /\ k > seq
                              /\ bingoEvents'[k].player = n /\ bingoEvents'[k].at = now
                              /\ bingoEvents'[k].seq = k
                              /\ bingoEvents'[k].line = fresh[k - seq]
                              /\ bingoEvents'[k].count = held + (k - seq)
    BY <1>1, <1>2, <1>d, <1>3, <1>4
  <2>2. \A k \in 1..seq : /\ bingoEvents[k].seq = k /\ bingoEvents[k].at <= now
                          /\ bingoEvents[k].at \in Nat /\ bingoEvents[k].count \in Nat
                          /\ bingoEvents[k].player \in Numbers
                          /\ bingoEvents[k].player = n =>
                               bingoEvents[k].count \in DOMAIN p.lines
    BY <1>0, AnnouncementParts DEF BingoInv, BingosAreAnnounced, AnnouncedInOrder, AnnouncedAsHeld, TimesPast
  <2>3. \A j, k \in 1..seq :
          j < k => /\ bingoEvents[j].at <= bingoEvents[k].at
                   /\ bingoEvents[j].player = bingoEvents[k].player =>
                        bingoEvents[j].count < bingoEvents[k].count
    BY DEF BingoInv, BingosAreAnnounced, AnnouncedInOrder
  <2>4. AnnouncedInOrder'
    <3>1. seq' = Len(bingoEvents')
      BY <1>d, <1>4
    <3>2. \A k \in 1..seq' : bingoEvents'[k].seq = k
      BY <2>1, <2>2
    <3>3. ASSUME NEW j \in 1..seq', NEW k \in 1..seq', j < k
          PROVE  /\ bingoEvents'[j].at <= bingoEvents'[k].at
                 /\ bingoEvents'[j].player = bingoEvents'[k].player =>
                      bingoEvents'[j].count < bingoEvents'[k].count
      <4>1. CASE k \in 1..seq
        BY <1>1, <2>1, <2>3, <3>3, <4>1
      <4>2. CASE j \in 1..seq /\ k \notin 1..seq
        <5>1. /\ bingoEvents'[j] = bingoEvents[j] /\ bingoEvents[j].at <= now
              /\ bingoEvents[j].player = n => bingoEvents[j].count \in 1..held
          <6>1. bingoEvents'[j] = bingoEvents[j]
            BY <1>4, <4>2
          <6> QED BY <1>5, <2>2, <4>2, <6>1
        <5>2. /\ bingoEvents'[k].player = n /\ bingoEvents'[k].at = now /\ k - seq \in 1..added
              /\ bingoEvents'[k].count = held + (k - seq)
          BY <2>1, <4>2
        <5>3. bingoEvents[j].player = n => bingoEvents[j].count < held + (k - seq)
          BY <1>3, <5>1, <5>2
        <5> QED BY <5>1, <5>2, <5>3
      <4>3. CASE j \notin 1..seq /\ k \notin 1..seq
        <5>1. /\ bingoEvents'[j].at = now /\ bingoEvents'[j].count = held + (j - seq)
              /\ bingoEvents'[k].at = now /\ bingoEvents'[k].count = held + (k - seq)
          BY <2>1, <4>3
        <5>2. held + (j - seq) < held + (k - seq) /\ now <= now
          BY <1>1, <1>3, <3>3
        <5> QED BY <5>1, <5>2
      <4> QED BY <1>1, <3>3, <4>1, <4>2, <4>3
    <3> QED BY <3>1, <3>2, <3>3 DEF AnnouncedInOrder
  <2>5. AnnouncedAll(n) /\ n \in Numbers
    BY <1>2 DEF BingoInv, BingosAreAnnounced
  <2>6. \A k \in 1..seq' : AnnouncedAsHeld(k)'
    <3> SUFFICES ASSUME NEW k \in 1..seq' PROVE AnnouncedAsHeld(k)'
      OBVIOUS
    <3>1. CASE k \in 1..seq /\ bingoEvents[k].player # n
      <4>1. AnnouncedAsHeld(k)
        BY <3>1 DEF BingoInv, BingosAreAnnounced
      <4>2. bingoEvents'[k] = bingoEvents[k] /\ bingoEvents[k].player \in Numbers
        BY <1>4, <2>2, <3>1
      <4>3. players'[bingoEvents[k].player] = players[bingoEvents[k].player]
        BY <1>2, <3>1, <4>2
      <4> QED BY <1>3, <4>1, <4>2, <4>3 DEF AnnouncedAsHeld
    <3>2. CASE k \in 1..seq /\ bingoEvents[k].player = n
      <4>1. /\ bingoEvents[k].count \in DOMAIN p.lines /\ p.lines[bingoEvents[k].count] = bingoEvents[k].line
            /\ bingoEvents[k].count = 1 => p.firstSeq = bingoEvents[k].seq /\ p.firstAt = bingoEvents[k].at
        BY <1>0, <3>2 DEF BingoInv, BingosAreAnnounced, AnnouncedAsHeld
      <4>2. bingoEvents[k].seq # None /\ bingoEvents[k].at # None
        BY <1>1, <2>2, <3>2, BingoNone
      <4>3. bingoEvents[k].count = 1 => q.firstSeq = p.firstSeq /\ q.firstAt = p.firstAt
        BY <1>2, <4>1, <4>2 DEF FirstOf
      <4>4. bingoEvents[k].count \in DOMAIN q.lines /\ q.lines[bingoEvents[k].count] = p.lines[bingoEvents[k].count]
        BY <1>3, <1>5, <4>1
      <4>5. bingoEvents'[k] = bingoEvents[k] /\ players'[bingoEvents[k].player] = q /\ n \in Numbers
        BY <1>0, <1>2, <1>4, <3>2
      <4> QED BY <1>3, <3>2, <4>1, <4>3, <4>4, <4>5 DEF AnnouncedAsHeld
    <3>3. CASE k \notin 1..seq
      <4>1. /\ k - seq \in 1..added /\ bingoEvents'[k].player = n /\ bingoEvents'[k].at = now
            /\ bingoEvents'[k].seq = k /\ bingoEvents'[k].line = fresh[k - seq]
            /\ bingoEvents'[k].count = held + (k - seq)
        BY <2>1, <3>3
      <4>2. /\ held + (k - seq) \in DOMAIN q.lines
            /\ q.lines[held + (k - seq)] = fresh[k - seq]
        BY <1>1, <1>3, <1>5, <4>1
      <4>3. bingoEvents'[k].count = 1 => q.firstSeq = k /\ q.firstAt = now
        <5> SUFFICES ASSUME bingoEvents'[k].count = 1 PROVE q.firstSeq = k /\ q.firstAt = now
          OBVIOUS
        <5>1. held = 0 /\ k = seq + 1
          BY <1>1, <1>3, <4>1
        <5>2. p.lines = <<>> /\ p.firstSeq = None /\ p.firstAt = None
          <6>1. p.lines = <<>>
            BY <1>3, <1>c, <5>1, EmptySeq
          <6> QED BY <1>0, <2>5, <6>1 DEF AnnouncedAll
        <5>3. fresh # <<>>
          <6>1. added # 0
            BY <1>3, <4>1
          <6> QED BY <1>c, <6>1
        <5> QED BY <1>2, <5>1, <5>2, <5>3 DEF FirstOf
      <4> QED BY <1>0, <1>2, <1>3, <4>1, <4>2, <4>3 DEF AnnouncedAsHeld
    <3> QED BY <3>1, <3>2, <3>3
  <2>7. ASSUME NEW m \in Numbers, m # n PROVE AnnouncedAll(m)'
    <3>1. AnnouncedAll(m) /\ players'[m] = players[m]
      BY <1>2, <2>7 DEF BingoInv, BingosAreAnnounced
    <3>2. 1..seq \subseteq 1..seq'
      BY <1>1, <1>d, <1>3
    <3> QED BY <1>4, <3>1, <3>2 DEF AnnouncedAll
  <2>8. AnnouncedAll(n)'
    <3>1. ASSUME NEW c \in DOMAIN q.lines
          PROVE  \E k \in 1..seq' : bingoEvents'[k].player = n /\ bingoEvents'[k].count = c
      <4>1. CASE c \in 1..held
        <5>1. PICK k \in 1..seq : bingoEvents[k].player = n /\ bingoEvents[k].count = c
          BY <1>0, <1>5, <2>5, <4>1 DEF AnnouncedAll
        <5>2. k \in 1..seq' /\ bingoEvents'[k] = bingoEvents[k]
          BY <1>1, <1>d, <1>3, <1>4
        <5> QED BY <5>1, <5>2
      <4>2. CASE c \notin 1..held
        <5>1. PICK k \in (seq + 1)..(seq + added) : held + (k - seq) = c
          <6>1. c \in Nat /\ c > held /\ c <= held + added
            BY <1>3, <1>5, <3>1, <4>2
          <6>2. /\ seq + (c - held) \in (seq + 1)..(seq + added)
                /\ held + ((seq + (c - held)) - seq) = c
            BY <1>1, <1>3, <6>1
          <6> QED BY <6>2
        <5>2. k \in 1..seq'
          BY <1>1, <1>d, <1>3
        <5>3. bingoEvents'[k].player = n /\ bingoEvents'[k].count = c
          BY <1>4, <5>1
        <5> QED BY <5>2, <5>3
      <4> QED BY <4>1, <4>2
    <3>2. \A c, d \in DOMAIN q.lines : q.lines[c] = q.lines[d] => c = d
      BY <1>6 DEF Distinct
    <3>3. q.lines = <<>> => q.firstSeq = None /\ q.firstAt = None
      <4> SUFFICES ASSUME q.lines = <<>> PROVE q.firstSeq = None /\ q.firstAt = None
        OBVIOUS
      <4>1. held = 0 /\ added = 0
        <5>1. DOMAIN q.lines = {}
          OBVIOUS
        <5>2. 1 \notin 1..(held + added)
          BY <1>5, <5>1
        <5> QED BY <1>3, <5>2
      <4>2. p.lines = <<>> /\ fresh = <<>>
        BY <1>3, <1>c, <4>1, EmptySeq
      <4> QED BY <1>0, <1>2, <2>5, <4>2 DEF AnnouncedAll
    <3> QED BY <1>0, <1>2, <3>1, <3>2, <3>3 DEF AnnouncedAll
  <2> QED BY <1>3, <2>4, <2>6, <2>7, <2>8 DEF BingosAreAnnounced
<1> QED BY <1>7, <1>10, <1>11, <1>12, <1>13 DEF BingoInv
LEMMA BingoInvInit == Init => BingoInv
<1> SUFFICES ASSUME Init PROVE BingoInv
  OBVIOUS
<1>1. Numbers = {} /\ seq = 0 /\ now = 0
  BY DEF Init, Numbers
<1>2. BingoTypeOK
  BY DEF Init, BingoTypeOK, MAX_REVEAL_STEP
<1> QED BY <1>1, <1>2 DEF Init, BingoInv, CardsConsistent, NoBingoMissed, BingosAreAnnounced,
                          AnnouncedInOrder, TimesPast

(* Who is connected and who is dealt a card is no matter to the cards.     *)
LEMMA OthersKeepCards ==
    ASSUME BingoInv,
           \/ SetTraits \/ Start \/ End \/ Clock
           \/ \E step \in 0..MAX_REVEAL_STEP : Reveal(step)
           \/ \E n \in Flaky : Rejoin(n) \/ Disconnect(n)
           \/ UNCHANGED bvars
    PROVE  BingoTypeOK' /\ SameCards
<1>1. /\ BingoTypeOK /\ Len(players) \in Nat /\ Numbers = 1..Len(players) /\ players \in Seq(PlayerRecords)
      /\ \A n \in Numbers : players[n] \in PlayerRecords
  BY PlayerParts DEF BingoInv, BingoTypeOK
<1>2. CASE SetTraits \/ End \/ Clock \/ (\E step \in 0..MAX_REVEAL_STEP : Reveal(step)) \/ UNCHANGED bvars
  <2>1. players' = players /\ bingoEvents' = bingoEvents /\ seq' = seq /\ now' \in {now, now + 1}
    BY <1>2 DEF SetTraits, End, Clock, Reveal, Become, room, bvars
  <2>2. state' \in {"SETUP", "LOBBY", "RUNNING", "ENDED", "REVEAL"} /\ revealStep' \in 0..MAX_REVEAL_STEP
    BY <1>1, <1>2 DEF SetTraits, End, Clock, Reveal, Become, bvars, BingoTypeOK
  <2> QED BY <1>1, <2>1, <2>2 DEF SameCards, BingoTypeOK, Numbers
<1>3. CASE Start
  <2>1. /\ players' = [n \in Numbers |-> [players[n] EXCEPT !.dealt = TRUE]]
        /\ bingoEvents' = bingoEvents /\ seq' = seq /\ now' = now
        /\ state' = "RUNNING" /\ revealStep' = revealStep
    BY <1>3 DEF Start, Become
  <2>2. \A n \in Numbers : /\ [players[n] EXCEPT !.dealt = TRUE] \in PlayerRecords
                           /\ players'[n] = [players[n] EXCEPT !.dealt = TRUE]
    BY <1>1, <2>1 DEF PlayerRecords
  <2>3. players' \in Seq(PlayerRecords)
    BY <1>1, <2>1, <2>2
  <2>4. \A n \in Numbers :
          /\ players'[n].fills = players[n].fills /\ players'[n].filledAt = players[n].filledAt
          /\ players'[n].used = players[n].used /\ players'[n].lines = players[n].lines
          /\ players'[n].firstAt = players[n].firstAt /\ players'[n].firstSeq = players[n].firstSeq
    <3> SUFFICES ASSUME NEW p \in PlayerRecords, NEW q, q = [p EXCEPT !.dealt = TRUE]
                 PROVE  /\ q.fills = p.fills /\ q.filledAt = p.filledAt
                        /\ q.used = p.used /\ q.lines = p.lines
                        /\ q.firstAt = p.firstAt /\ q.firstSeq = p.firstSeq
      BY <1>1, <2>2
    <3> QED BY DEF PlayerRecords
  <2> QED BY <1>1, <2>1, <2>3, <2>4 DEF SameCards, BingoTypeOK, Numbers
<1>4. ASSUME NEW m \in Flaky, NEW isOn \in BOOLEAN, Connected(m, isOn)
      PROVE  BingoTypeOK' /\ SameCards
  <2>1. /\ m \in Numbers /\ players' = [players EXCEPT ![m].connected = isOn]
        /\ UNCHANGED <<state, revealStep, bingoEvents, seq, now>>
    BY <1>4 DEF Connected
  <2> DEFINE q == [players[m] EXCEPT !.connected = isOn]
  <2>2. /\ q \in PlayerRecords
        /\ q.fills = players[m].fills /\ q.filledAt = players[m].filledAt
        /\ q.used = players[m].used /\ q.lines = players[m].lines
        /\ q.firstAt = players[m].firstAt /\ q.firstSeq = players[m].firstSeq
    BY <1>1, <2>1 DEF PlayerRecords
  <2>3. players' = [players EXCEPT ![m] = q]
    BY <2>1
  <2> HIDE DEF q
  <2>4. /\ players' \in Seq(PlayerRecords) /\ DOMAIN players' = DOMAIN players /\ players'[m] = q
        /\ \A n \in Numbers \ {m} : players'[n] = players[n]
    BY <1>1, <2>1, <2>2, <2>3, ExceptSeq DEF Numbers
  <2>5. BingoTypeOK'
    BY <1>1, <2>1, <2>4 DEF BingoTypeOK
  <2>6. SameCards
    BY <2>1, <2>2, <2>4 DEF SameCards, Numbers
  <2> QED BY <2>5, <2>6
<1> QED BY <1>2, <1>3, <1>4 DEF Rejoin, Disconnect

LEMMA HandParts ==
    ASSUME NEW h \in Hands
    PROVE  h[2] \in Cells
BY CellsOnCard DEF Cells

LEMMA BingoInvNext == BingoInv /\ [Next]_bvars => BingoInv'
<1> SUFFICES ASSUME BingoInv, [Next]_bvars PROVE BingoInv'
  OBVIOUS
<1>1. CASE Join
  BY <1>1, JoinKeeps
<1>2. ASSUME NEW h \in Hands, NEW target, CommitFill(h[1], h[2], target)
      PROVE  BingoInv'
  BY <1>2, HandParts, FillKeeps
<1>3. ASSUME NEW h \in Hands, Clear(h[1], h[2])
      PROVE  BingoInv'
  BY <1>3, HandParts, ClearKeeps
<1>4. CASE \/ SetTraits \/ Start \/ End \/ Clock
           \/ \E step \in 0..MAX_REVEAL_STEP : Reveal(step)
           \/ \E n \in Flaky : Rejoin(n) \/ Disconnect(n)
           \/ UNCHANGED bvars
  BY <1>4, OthersKeepCards, SameCardsKeep
<1> QED BY <1>1, <1>2, <1>3, <1>4 DEF Next, Fill, FillPick

(* The properties of every state, each a conjunct of the invariant.        *)
THEOREM BingoInvariance == Spec => []BingoInv
BY BingoInvInit, BingoInvNext, PTL DEF Spec

(* Every variable keeps its type.                                          *)
THEOREM BingoTypesHold == Spec => []BingoTypeOK
<1>1. BingoInv => BingoTypeOK
  BY DEF BingoInv
<1> QED BY <1>1, BingoInvariance, PTL

(* The people used and the cells of a card are one fact, kept twice.       *)
THEOREM CardsAgree == Spec => []CardsConsistent
<1>1. BingoInv => CardsConsistent
  BY DEF BingoInv
<1> QED BY <1>1, BingoInvariance, PTL

(* The incremental detection misses no full line, whatever was cleared and
   filled again, on a card of any size.                                    *)
THEOREM EveryBingoIsHeld == Spec => []NoBingoMissed
<1>1. BingoInv => NoBingoMissed
  BY DEF BingoInv
<1> QED BY <1>1, BingoInvariance, PTL

(* The announcements are the bingos held, each once, in order.             *)
THEOREM EveryBingoIsAnnounced == Spec => []BingosAreAnnounced
<1>1. BingoInv => BingosAreAnnounced
  BY DEF BingoInv
<1> QED BY <1>1, BingoInvariance, PTL
-----------------------------------------------------------------------------
(* The action properties *)

(* A bingo, once earned, is permanent, whatever is cleared afterwards.     *)
THEOREM BingosStay == Spec => BingosArePermanent
<1>1. BingoInv /\ [Next]_bvars => \A n \in Numbers : Held(players[n]) \subseteq Held(players'[n])
  <2> SUFFICES ASSUME BingoInv, [Next]_bvars, NEW n \in Numbers
               PROVE  Held(players[n]) \subseteq Held(players'[n])
    OBVIOUS
  <2>1. BingoTypeOK /\ players \in Seq(PlayerRecords) /\ Numbers = 1..Len(players)
        /\ players[n] \in PlayerRecords
    BY PlayerParts DEF BingoInv, BingoTypeOK
  <2>2. CASE Join
    <3>1. players'[n] = players[n]
      BY <2>1, <2>2 DEF Join
    <3> QED BY <3>1
  <2>3. ASSUME NEW h \in Hands, NEW target, CommitFill(h[1], h[2], target)
        PROVE  Held(players[n]) \subseteq Held(players'[n])
    <3>1. PICK fresh \in Seq(Lines) :
             /\ FilledBy(players[h[1]], players'[h[1]], h[1], h[2], target, fresh)
             /\ FilledRoom(players[h[1]], h[1], fresh)
      BY <2>1, <2>3, HandParts, FillFacts
    <3>2. CASE n = h[1]
      <4>1. players'[n].lines = players[n].lines \o fresh
        BY <3>1, <3>2 DEF FilledBy
      <4>2. players[n].lines \in Seq(Lines)
        BY <2>1, FieldTypes
      <4>3. Elements(players[n].lines) \subseteq Elements(players[n].lines \o fresh)
        BY <4>2, ConcatDistinct
      <4> QED BY <4>1, <4>3 DEF Elements, Held
    <3>3. CASE n # h[1]
      <4>1. players'[n] = players[n]
        BY <3>1, <3>3 DEF FilledRoom
      <4> QED BY <4>1
    <3> QED BY <3>2, <3>3
  <2>4. ASSUME NEW h \in Hands, Clear(h[1], h[2])
        PROVE  Held(players[n]) \subseteq Held(players'[n])
    <3>1. players' = [players EXCEPT ![h[1]] = Cleared(@, h[2])]
      BY <2>4 DEF Clear
    <3>2. players'[n] = IF n = h[1] THEN Cleared(players[n], h[2]) ELSE players[n]
      BY <2>1, <3>1
    <3>3. Cleared(players[n], h[2]).lines = players[n].lines
      BY <2>1 DEF Cleared, PlayerRecords
    <3> QED BY <3>2, <3>3 DEF Held
  <2>5. CASE \/ SetTraits \/ Start \/ End \/ Clock
             \/ \E step \in 0..MAX_REVEAL_STEP : Reveal(step)
             \/ \E m \in Flaky : Rejoin(m) \/ Disconnect(m)
             \/ UNCHANGED bvars
    BY <2>5, OthersKeepCards DEF SameCards, Held
  <2> QED BY <2>2, <2>3, <2>4, <2>5 DEF Next, Fill, FillPick
<1> QED BY <1>1, BingoInvariance, PTL DEF Spec, BingosArePermanent

(* The room implements the lifecycle of the host, without a way back from an
   ending: a refinement, step by step.                                     *)
THEOREM BingoImplementsLifecycle == Spec => BingoFollowsLifecycle
<1>1. Init => L!Init
  BY DEF Init, L!Init
<1>2. BingoInv /\ [Next]_bvars => [L!Next]_<<state, revealStep>>
  <2> SUFFICES ASSUME BingoInv, [Next]_bvars
               PROVE  L!Next \/ (state' = state /\ revealStep' = revealStep)
    OBVIOUS
  <2>1. revealStep \in 0..MAX_REVEAL_STEP
    BY DEF BingoInv, BingoTypeOK
  <2>2. CASE SetTraits \/ Start \/ End
    BY <2>2 DEF SetTraits, Start, End, Become, L!Next, L!Become
  <2>3. ASSUME NEW step \in 0..MAX_REVEAL_STEP, Reveal(step)
        PROVE  L!Next
    BY <2>1, <2>3 DEF Reveal, L!Next, L!Last, MAX_REVEAL_STEP
  <2>4. CASE Join \/ Clock \/ (\E n \in Flaky : Rejoin(n) \/ Disconnect(n)) \/ UNCHANGED bvars
    BY <2>4 DEF Join, Clock, Rejoin, Disconnect, Connected, bvars
  <2>5. ASSUME NEW h \in Hands,
               (\E target : CommitFill(h[1], h[2], target)) \/ Clear(h[1], h[2])
        PROVE  state' = state /\ revealStep' = revealStep
    BY <2>5 DEF CommitFill, Clear
  <2> QED BY <2>2, <2>3, <2>4, <2>5 DEF Next, Fill, FillPick
<1> QED BY <1>1, <1>2, BingoInvariance, PTL DEF Spec, BingoFollowsLifecycle, L!Spec
-----------------------------------------------------------------------------
(* The ranking *)

LEMMA GreatestOfTimes ==
    ASSUME NEW S, S \subseteq Nat, S # {}, NEW top \in Nat, \A t \in S : t <= top
    PROVE  \E t \in S : \A u \in S : u <= t
<1> DEFINE bounds == {b \in Nat : \A t \in S : t <= b}
<1>1. bounds \subseteq Nat /\ top \in bounds
  OBVIOUS
<1>2. IsWellFoundedOn(OpToRel(<, Nat), Nat)
  BY NatLessThanWellFounded
<1>3. PICK b \in bounds : \A c \in bounds : ~(<<c, b>> \in OpToRel(<, Nat))
  BY <1>1, <1>2, WFMin
<1>4. \A c \in bounds : ~(c < b)
  BY <1>1, <1>3 DEF OpToRel
<1>5. b \in S
  <2> SUFFICES ASSUME b \notin S PROVE FALSE
    OBVIOUS
  <2>1. \A t \in S : t < b
    OBVIOUS
  <2>2. PICK t \in S : t \in Nat
    OBVIOUS
  <2>3. b - 1 \in bounds /\ b - 1 < b
    BY <2>1, <2>2
  <2> QED BY <1>4, <2>3
<1> QED BY <1>5

LEMMA PointsAndTime ==
    ASSUME BingoInv, NEW n \in Numbers
    PROVE  /\ IsFiniteSet(FilledCells(players[n])) /\ PointsOf(players[n]) \in Nat
           /\ LastFillAt(players[n]) \in Nat /\ n \in Nat
<1> DEFINE p == players[n]
<1>1. /\ p \in PlayerRecords /\ n \in Nat /\ now \in Nat
      /\ p.filledAt \in [Cells -> Nat \cup {None}] /\ Len(p.lines) \in Nat
  BY PlayerParts, FieldTypes DEF BingoInv, BingoTypeOK
<1>2. IsFiniteSet(FilledCells(p))
  <2>1. IsFiniteSet(Cells)
    BY FS_Interval, GridIsACard DEF Cells
  <2> QED BY <2>1, FS_Subset DEF FilledCells
<1>3. PointsOf(p) \in Nat
  <2>1. Cardinality(FilledCells(p)) \in Nat
    BY <1>2, FS_CardinalityType
  <2> QED BY <1>1, <2>1 DEF PointsOf, LINE_BONUS
<1>4. LastFillAt(p) \in Nat
  <2> DEFINE times == {p.filledAt[i] : i \in FilledCells(p)}
  <2>1. times \subseteq Nat /\ \A t \in times : t <= now
    <3> SUFFICES ASSUME NEW i \in FilledCells(p) PROVE p.filledAt[i] \in Nat /\ p.filledAt[i] <= now
      OBVIOUS
    <3>1. i \in Cells /\ p.fills[i] # None
      BY DEF FilledCells
    <3>2. p.filledAt[i] # None
      BY <3>1 DEF BingoInv, CardsConsistent
    <3> QED BY <1>1, <3>1, <3>2 DEF BingoInv, TimesPast
  <2>2. CASE times = {}
    BY <2>2, BingoBounds DEF LastFillAt
  <2>3. CASE times # {}
    <3>1. \E t \in times : \A u \in times : u <= t
      BY <1>1, <2>1, <2>3, GreatestOfTimes
    <3>2. (CHOOSE t \in times : \A u \in times : u <= t) \in times
      BY <3>1
    <3> QED BY <2>1, <2>3, <3>2 DEF LastFillAt
  <2> QED BY <2>2, <2>3
<1> QED BY <1>1, <1>2, <1>3, <1>4

PointsAreNumbers == \A n \in Numbers : PointsOf(players[n]) \in Nat

(* The ranking of two players is read off their cards.                     *)
LEMMA RankOfCards ==
    ASSUME NEW ps, NEW qs, NEW m, NEW n,
           \A k \in {m, n} : /\ ps[k].fills = qs[k].fills /\ ps[k].filledAt = qs[k].filledAt
                             /\ ps[k].lines = qs[k].lines
    PROVE  RanksAbove(ps, m, n) <=> RanksAbove(qs, m, n)
<1>1. ASSUME NEW p, NEW q, p.fills = q.fills, p.filledAt = q.filledAt, p.lines = q.lines
      PROVE  PointsOf(p) = PointsOf(q) /\ LastFillAt(p) = LastFillAt(q)
  <2>1. FilledCells(p) = FilledCells(q)
    BY <1>1 DEF FilledCells
  <2>2. PointsOf(p) = PointsOf(q)
    BY <1>1, <2>1 DEF PointsOf
  <2>3. {p.filledAt[i] : i \in FilledCells(p)} = {q.filledAt[i] : i \in FilledCells(q)}
    BY <1>1, <2>1
  <2>4. LastFillAt(p) = LastFillAt(q)
    <3> DEFINE Latest(times) ==
          IF times = {} THEN MaxTime + 1 ELSE CHOOSE t \in times : \A u \in times : u <= t
    <3>1. LastFillAt(p) = Latest({p.filledAt[i] : i \in FilledCells(p)})
      BY Zenon DEF LastFillAt
    <3>2. LastFillAt(q) = Latest({q.filledAt[i] : i \in FilledCells(q)})
      BY Zenon DEF LastFillAt
    <3> HIDE DEF Latest
    <3> QED BY <2>3, <3>1, <3>2
  <2> QED BY <2>2, <2>4
<1>2. /\ PointsOf(ps[m]) = PointsOf(qs[m]) /\ LastFillAt(ps[m]) = LastFillAt(qs[m])
      /\ PointsOf(ps[n]) = PointsOf(qs[n]) /\ LastFillAt(ps[n]) = LastFillAt(qs[n])
  BY <1>1
<1> QED BY <1>2 DEF RanksAbove

(* Nobody is above and below the same person.                              *)
LEMMA RankIsAnOrder ==
    ASSUME BingoInv, NEW m \in Numbers, NEW n \in Numbers, RanksAbove(players, m, n)
    PROVE  ~RanksAbove(players, n, m) /\ PointsOf(players[m]) >= PointsOf(players[n])
BY PointsAndTime DEF RanksAbove

LEMMA FillScores ==
    ASSUME BingoInv, NEW n, NEW i \in Cells, NEW target, NEW fresh \in Seq(Lines),
           FilledBy(players[n], players'[n], n, i, target, fresh)
    PROVE  PointsOf(players'[n]) > PointsOf(players[n])
<1>0. PICK p, q : p = players[n] /\ q = players'[n]
  OBVIOUS
<1>1. /\ n \in Numbers /\ target \in Numbers /\ p.fills[i] = None
      /\ q.fills = [p.fills EXCEPT ![i] = target] /\ q.lines = p.lines \o fresh
  BY <1>0 DEF FilledBy
<1>2. /\ p \in PlayerRecords /\ p.fills \in [Cells -> Nat \cup {None}] /\ p.lines \in Seq(Lines)
      /\ target \in Nat /\ target # None
  BY <1>0, <1>1, PlayerParts, FieldTypes, BingoNone DEF BingoInv
<1>3. FilledCells(q) = FilledCells(p) \cup {i} /\ i \notin FilledCells(p)
  BY <1>1, <1>2 DEF FilledCells
<1>4. IsFiniteSet(FilledCells(p)) /\ Cardinality(FilledCells(p)) \in Nat
  BY <1>0, <1>1, PointsAndTime, FS_CardinalityType
<1>5. Cardinality(FilledCells(q)) = Cardinality(FilledCells(p)) + 1
  BY <1>3, <1>4, FS_AddElement
<1>6. Len(q.lines) = Len(p.lines) + Len(fresh) /\ Len(p.lines) \in Nat /\ Len(fresh) \in Nat
  BY <1>1, <1>2, ConcatProperties
<1> QED BY <1>0, <1>4, <1>5, <1>6 DEF PointsOf, LINE_BONUS

LEMMA ClearScores ==
    ASSUME BingoInv, NEW n, NEW i \in Cells, Clear(n, i)
    PROVE  /\ n \in Numbers /\ state = "RUNNING"
           /\ \A m \in Numbers \ {n} : players'[m] = players[m]
           /\ PointsOf(players'[n]) < PointsOf(players[n])
           /\ players[n].used \ players'[n].used # {}
<1>0. PICK p, q : p = players[n] /\ q = Cleared(players[n], i)
  OBVIOUS
<1>1. /\ n \in Numbers /\ state = "RUNNING" /\ p.fills[i] # None
      /\ players' = [players EXCEPT ![n] = q] /\ players \in Seq(PlayerRecords)
  BY <1>0 DEF Clear, BingoInv, BingoTypeOK
<1>2. /\ p \in PlayerRecords /\ p.fills \in [Cells -> Nat \cup {None}] /\ Len(p.lines) \in Nat
  BY <1>0, <1>1, PlayerParts, FieldTypes DEF BingoInv
<1>3. players'[n] = q /\ \A m \in Numbers \ {n} : players'[m] = players[m]
  BY <1>1 DEF Numbers
<1>4. /\ q.fills = [p.fills EXCEPT ![i] = None] /\ q.lines = p.lines
      /\ q.used = p.used \ {p.fills[i]}
  BY <1>0, <1>2 DEF Cleared, PlayerRecords
<1>5. FilledCells(q) = FilledCells(p) \ {i} /\ i \in FilledCells(p)
  BY <1>1, <1>2, <1>4 DEF FilledCells
<1>6. IsFiniteSet(FilledCells(p)) /\ Cardinality(FilledCells(p)) \in Nat
  BY <1>0, <1>1, PointsAndTime, FS_CardinalityType
<1>7. Cardinality(FilledCells(q)) = Cardinality(FilledCells(p)) - 1
  BY <1>5, <1>6, FS_RemoveElement
<1>8. p.fills[i] \in p.used
  BY <1>0, <1>1, <1>5 DEF BingoInv, CardsConsistent
<1> QED BY <1>0, <1>1, <1>2, <1>3, <1>4, <1>6, <1>7, <1>8 DEF PointsOf, LINE_BONUS

(* Two players change places only by a fill of the one behind or a clear of
   the one ahead, while the game runs.                                     *)
THEOREM PlacesEarned == Spec => PlacesAreEarned
<1> DEFINE Earned(m, n) ==
        <<players[m], players[n]>> # <<players'[m], players'[n]>>
        /\ RanksAbove(players, m, n) /\ RanksAbove(players', n, m) =>
             /\ state = "RUNNING"
             /\ \/ players'[n].used \ players[n].used # {}
                \/ players[m].used \ players'[m].used # {}
<1>1. ASSUME BingoInv, PointsAreNumbers', [Next]_bvars, NEW m \in Numbers, NEW n \in Numbers
      PROVE  Earned(m, n)
  <2> SUFFICES ASSUME <<players[m], players[n]>> # <<players'[m], players'[n]>>,
                      RanksAbove(players, m, n), RanksAbove(players', n, m)
               PROVE  /\ state = "RUNNING"
                      /\ \/ players'[n].used \ players[n].used # {}
                         \/ players[m].used \ players'[m].used # {}
    OBVIOUS
  <2>1. /\ ~RanksAbove(players, n, m) /\ m # n
        /\ PointsOf(players[m]) >= PointsOf(players[n])
        /\ PointsOf(players[m]) \in Nat /\ PointsOf(players[n]) \in Nat
    BY <1>1, RankIsAnOrder, PointsAndTime
  <2>2. BingoTypeOK /\ \A k \in Numbers' : PointsOf(players'[k]) \in Nat
    BY <1>1 DEF BingoInv, PointsAreNumbers
  <2>3. CASE Join
    <3>1. players'[m] = players[m] /\ players'[n] = players[n]
      BY <1>1, <2>2, <2>3, PlayerParts DEF Join, BingoTypeOK
    <3> QED BY <3>1
  <2>4. ASSUME NEW h \in Hands, NEW target, CommitFill(h[1], h[2], target)
        PROVE  /\ state = "RUNNING"
               /\ \/ players'[n].used \ players[n].used # {}
                  \/ players[m].used \ players'[m].used # {}
    <3>1. PICK fresh \in Seq(Lines) :
             /\ FilledBy(players[h[1]], players'[h[1]], h[1], h[2], target, fresh)
             /\ FilledRoom(players[h[1]], h[1], fresh)
      BY <2>2, <2>4, HandParts, FillFacts
    <3>2. Numbers' = Numbers /\ \A k \in Numbers \ {h[1]} : players'[k] = players[k]
      BY <3>1 DEF FilledRoom, Numbers
    <3>3. CASE h[1] = n
      <4>1. state = "RUNNING" /\ players'[n].used = players[n].used \cup {target}
            /\ target \notin players[n].used
        BY <3>1, <3>3 DEF FilledBy
      <4> QED BY <4>1
    <3>4. CASE h[1] = m
      <4>1. PointsOf(players'[m]) > PointsOf(players[m]) /\ players'[n] = players[n]
        BY <1>1, <2>1, <3>1, <3>2, <3>4, HandParts, FillScores
      <4>2. PointsOf(players'[n]) >= PointsOf(players'[m])
        BY <1>1, <2>2, <3>2 DEF RanksAbove
      <4> QED BY <1>1, <2>1, <2>2, <3>2, <4>1, <4>2
    <3>5. CASE h[1] # m /\ h[1] # n
      BY <1>1, <3>2, <3>5
    <3> QED BY <3>3, <3>4, <3>5
  <2>5. ASSUME NEW h \in Hands, Clear(h[1], h[2])
        PROVE  /\ state = "RUNNING"
               /\ \/ players'[n].used \ players[n].used # {}
                  \/ players[m].used \ players'[m].used # {}
    <3>1. /\ state = "RUNNING" /\ \A k \in Numbers \ {h[1]} : players'[k] = players[k]
          /\ PointsOf(players'[h[1]]) < PointsOf(players[h[1]])
          /\ players[h[1]].used \ players'[h[1]].used # {}
      BY <1>1, <2>5, HandParts, ClearScores
    <3>2. Numbers' = Numbers
      BY <2>5 DEF Clear, Numbers
    <3>3. CASE h[1] = m
      BY <3>1, <3>3
    <3>4. CASE h[1] = n
      <4>1. PointsOf(players'[n]) < PointsOf(players[n]) /\ players'[m] = players[m]
        BY <1>1, <2>1, <3>1, <3>4
      <4>2. PointsOf(players'[n]) >= PointsOf(players'[m])
        BY <1>1, <2>2, <3>2 DEF RanksAbove
      <4> QED BY <1>1, <2>1, <2>2, <3>2, <4>1, <4>2
    <3>5. CASE h[1] # m /\ h[1] # n
      BY <1>1, <3>1, <3>5
    <3> QED BY <3>3, <3>4, <3>5
  <2>6. CASE \/ SetTraits \/ Start \/ End \/ Clock
             \/ \E step \in 0..MAX_REVEAL_STEP : Reveal(step)
             \/ \E k \in Flaky : Rejoin(k) \/ Disconnect(k)
             \/ UNCHANGED bvars
    <3>1. \A k \in {n, m} : /\ players'[k].fills = players[k].fills
                            /\ players'[k].filledAt = players[k].filledAt
                            /\ players'[k].lines = players[k].lines
      BY <1>1, <2>6, OthersKeepCards DEF SameCards
    <3>2. RanksAbove(players', n, m) <=> RanksAbove(players, n, m)
      BY <3>1, RankOfCards
    <3> QED BY <2>1, <3>2
  <2> QED BY <1>1, <2>3, <2>4, <2>5, <2>6 DEF Next, Fill, FillPick
<1>2. BingoInv /\ PointsAreNumbers' /\ [Next]_bvars => \A m, n \in Numbers : Earned(m, n)
  BY <1>1
<1>3. BingoInv => PointsAreNumbers
  BY PointsAndTime DEF PointsAreNumbers
<1> QED BY <1>2, <1>3, BingoInvariance, PTL DEF Spec, PlacesAreEarned
=============================================================================
