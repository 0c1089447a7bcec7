---------------------------- MODULE Screens_proofs ----------------------------
(***************************************************************************)
(* What holds of the two screens and of what the host sends them, for any  *)
(* winners, any evening to begin with and any number of operations.        *)
(***************************************************************************)
EXTENDS Screens, SequenceTheorems, TLAPS

-----------------------------------------------------------------------------
(* What there is *)

Parts  == UNION {[gs -> Views] : gs \in SUBSET Games}    \* views of some games
Bursts == [said : BOOLEAN, event : Summaries \cup {None}, views : Parts,
           callout : Callouts \cup {None}, late : BOOLEAN]
Requests == [t : {"reveal"}, g : Games, step : 0..LastStep]
            \cup [t : {"spotlight"}, n : Winners \cup {None}, of : Nat]
            \cup [t : {"prize"}, open : BOOLEAN]

Consoles   == [on : BOOLEAN, event : Summaries \cup {None}, views : Parts,
               drum : [Games -> {"idle", "armed", "spent"}]]
Projectors == [on : BOOLEAN, event : Summaries \cup {None}, views : Parts, auto : Games,
               active : SUBSET Games, fx : Callouts \cup {"judged", None}, waited : BOOLEAN,
               late : BOOLEAN, roulette : {"off", "timed", "shown"}]

-----------------------------------------------------------------------------
(* What a page that had `old' knows when it has read the first n bursts of q *)

SaidBy(q, n, old, x) ==
    \/ \E i \in 1..n : q[i].said /\ q[i].event = x /\ \A j \in i+1..n : ~q[j].said
    \/ old = x /\ \A i \in 1..n : ~q[i].said

ViewBy(q, n, g, old, v) ==
    \/ \E i \in 1..n : /\ g \in DOMAIN q[i].views /\ q[i].views[g] = v
                       /\ \A j \in i+1..n : g \notin DOMAIN q[j].views
    \/ old = v /\ \A i \in 1..n : g \notin DOMAIN q[i].views

LEMMA SaidByNone == ASSUME NEW q, NEW old, NEW x PROVE SaidBy(q, 0, old, x) <=> x = old
BY DEF SaidBy

LEMMA ViewByNone == ASSUME NEW q, NEW g, NEW old, NEW v PROVE ViewBy(q, 0, g, old, v) <=> v = old
BY DEF ViewBy

LEMMA SaidByNext ==
    ASSUME NEW q, NEW n \in Nat, NEW old, NEW x
    PROVE  /\ q[n+1].said => (SaidBy(q, n + 1, old, x) <=> x = q[n+1].event)
           /\ ~q[n+1].said => (SaidBy(q, n + 1, old, x) <=> SaidBy(q, n, old, x))
<1>1. CASE q[n+1].said
  BY <1>1 DEF SaidBy
<1>2. CASE ~q[n+1].said
  <2>1. 1..n+1 = 1..n \cup {n+1} /\ \A i \in 1..n : i+1..n+1 = i+1..n \cup {n+1}
    OBVIOUS
  <2> QED BY <1>2, <2>1 DEF SaidBy
<1> QED BY <1>1, <1>2

LEMMA ViewByNext ==
    ASSUME NEW q, NEW n \in Nat, NEW g, NEW old, NEW v
    PROVE  /\ g \in DOMAIN q[n+1].views => (ViewBy(q, n + 1, g, old, v) <=> v = q[n+1].views[g])
           /\ g \notin DOMAIN q[n+1].views => (ViewBy(q, n + 1, g, old, v) <=> ViewBy(q, n, g, old, v))
<1>1. CASE g \in DOMAIN q[n+1].views
  BY <1>1 DEF ViewBy
<1>2. CASE g \notin DOMAIN q[n+1].views
  <2>1. 1..n+1 = 1..n \cup {n+1} /\ \A i \in 1..n : i+1..n+1 = i+1..n \cup {n+1}
    OBVIOUS
  <2> QED BY <1>2, <2>1 DEF ViewBy
<1> QED BY <1>1, <1>2

(* Of two lists that begin alike the same is known.                        *)
LEMMA SaidByAlike ==
    ASSUME NEW q, NEW r, NEW n \in Nat, NEW old, NEW x, \A i \in 1..n : q[i] = r[i]
    PROVE  SaidBy(q, n, old, x) <=> SaidBy(r, n, old, x)
<1>1. \A i \in 1..n : i+1..n \subseteq 1..n
  OBVIOUS
<1> QED BY <1>1 DEF SaidBy

LEMMA ViewByAlike ==
    ASSUME NEW q, NEW r, NEW n \in Nat, NEW g, NEW old, NEW v, \A i \in 1..n : q[i] = r[i]
    PROVE  ViewBy(q, n, g, old, v) <=> ViewBy(r, n, g, old, v)
<1>1. \A i \in 1..n : i+1..n \subseteq 1..n
  OBVIOUS
<1> QED BY <1>1 DEF ViewBy

(* The page that has read the first burst goes on from there.              *)
LEMMA SaidByTail ==
    ASSUME NEW q, NEW r, NEW n \in Nat, NEW old, NEW new, NEW x,
           \A i \in 1..n : r[i] = q[i+1],
           q[1].said => new = q[1].event, ~q[1].said => new = old
    PROVE  SaidBy(r, n, new, x) <=> SaidBy(q, n + 1, old, x)
<1>1. ASSUME SaidBy(r, n, new, x) PROVE SaidBy(q, n + 1, old, x)
  <2>1. CASE \E i \in 1..n : r[i].said /\ r[i].event = x /\ \A j \in i+1..n : ~r[j].said
    <3>1. PICK i \in 1..n : r[i].said /\ r[i].event = x /\ \A j \in i+1..n : ~r[j].said
      BY <2>1
    <3>2. \A j \in i+2..n+1 : j-1 \in i+1..n /\ j-1 \in 1..n /\ q[j] = r[j-1]
      OBVIOUS
    <3>3. i+1 \in 1..n+1 /\ (i+1)+1 = i+2
      OBVIOUS
    <3> QED BY <3>1, <3>2, <3>3 DEF SaidBy
  <2>2. CASE new = x /\ \A i \in 1..n : ~r[i].said
    <3>1. \A j \in 2..n+1 : j-1 \in 1..n /\ q[j] = r[j-1]
      OBVIOUS
    <3>2. 1 \in 1..n+1 /\ 1+1 = 2 /\ \A j \in 1..n+1 : j = 1 \/ j \in 2..n+1
      OBVIOUS
    <3> QED BY <2>2, <3>1, <3>2 DEF SaidBy
  <2> QED BY <1>1, <2>1, <2>2 DEF SaidBy
<1>2. ASSUME SaidBy(q, n + 1, old, x) PROVE SaidBy(r, n, new, x)
  <2>1. CASE \E i \in 1..n+1 : q[i].said /\ q[i].event = x /\ \A j \in i+1..n+1 : ~q[j].said
    <3>1. PICK i \in 1..n+1 : q[i].said /\ q[i].event = x /\ \A j \in i+1..n+1 : ~q[j].said
      BY <2>1
    <3>2. \A j \in 1..n : j >= i => j+1 \in i+1..n+1
      OBVIOUS
    <3>3. CASE i = 1
      BY <3>1, <3>2, <3>3 DEF SaidBy
    <3>4. CASE i # 1
      <4>1. i-1 \in 1..n /\ r[i-1] = q[i] /\ \A j \in (i-1)+1..n : j \in 1..n /\ j >= i
        BY <3>4
      <4> QED BY <3>1, <3>2, <4>1 DEF SaidBy
    <3> QED BY <3>3, <3>4
  <2>2. CASE old = x /\ \A i \in 1..n+1 : ~q[i].said
    <3>1. 1 \in 1..n+1 /\ \A i \in 1..n : i+1 \in 1..n+1
      OBVIOUS
    <3> QED BY <2>2, <3>1 DEF SaidBy
  <2> QED BY <1>2, <2>1, <2>2 DEF SaidBy
<1> QED BY <1>1, <1>2

LEMMA ViewByTail ==
    ASSUME NEW q, NEW r, NEW n \in Nat, NEW g, NEW old, NEW new, NEW v,
           \A i \in 1..n : r[i] = q[i+1],
           new = IF g \in DOMAIN q[1].views THEN q[1].views[g] ELSE old
    PROVE  ViewBy(r, n, g, new, v) <=> ViewBy(q, n + 1, g, old, v)
<1>1. ASSUME ViewBy(r, n, g, new, v) PROVE ViewBy(q, n + 1, g, old, v)
  <2>1. CASE \E i \in 1..n : /\ g \in DOMAIN r[i].views /\ r[i].views[g] = v
                             /\ \A j \in i+1..n : g \notin DOMAIN r[j].views
    <3>1. PICK i \in 1..n : /\ g \in DOMAIN r[i].views /\ r[i].views[g] = v
                            /\ \A j \in i+1..n : g \notin DOMAIN r[j].views
      BY <2>1
    <3>2. \A j \in i+2..n+1 : j-1 \in i+1..n /\ j-1 \in 1..n /\ q[j] = r[j-1]
      OBVIOUS
    <3>3. i+1 \in 1..n+1 /\ (i+1)+1 = i+2
      OBVIOUS
    <3> QED BY <3>1, <3>2, <3>3 DEF ViewBy
  <2>2. CASE new = v /\ \A i \in 1..n : g \notin DOMAIN r[i].views
    <3>1. \A j \in 2..n+1 : j-1 \in 1..n /\ q[j] = r[j-1]
      OBVIOUS
    <3>2. 1 \in 1..n+1 /\ 1+1 = 2 /\ \A j \in 1..n+1 : j = 1 \/ j \in 2..n+1
      OBVIOUS
    <3> QED BY <2>2, <3>1, <3>2 DEF ViewBy
  <2> QED BY <1>1, <2>1, <2>2 DEF ViewBy
<1>2. ASSUME ViewBy(q, n + 1, g, old, v) PROVE ViewBy(r, n, g, new, v)
  <2>1. CASE \E i \in 1..n+1 : /\ g \in DOMAIN q[i].views /\ q[i].views[g] = v
                               /\ \A j \in i+1..n+1 : g \notin DOMAIN q[j].views
    <3>1. PICK i \in 1..n+1 : /\ g \in DOMAIN q[i].views /\ q[i].views[g] = v
                              /\ \A j \in i+1..n+1 : g \notin DOMAIN q[j].views
      BY <2>1
    <3>2. \A j \in 1..n : j >= i => j+1 \in i+1..n+1
      OBVIOUS
    <3>3. CASE i = 1
      BY <3>1, <3>2, <3>3 DEF ViewBy
    <3>4. CASE i # 1
      <4>1. i-1 \in 1..n /\ r[i-1] = q[i] /\ \A j \in (i-1)+1..n : j \in 1..n /\ j >= i
        BY <3>4
      <4> QED BY <3>1, <3>2, <4>1 DEF ViewBy
    <3> QED BY <3>3, <3>4
  <2>2. CASE old = v /\ \A i \in 1..n+1 : g \notin DOMAIN q[i].views
    <3>1. 1 \in 1..n+1 /\ \A i \in 1..n : i+1 \in 1..n+1
      OBVIOUS
    <3> QED BY <2>2, <3>1 DEF ViewBy
  <2> QED BY <1>2, <2>1, <2>2 DEF ViewBy
<1> QED BY <1>1, <1>2

(* It is one thing that is known.                                          *)
LEMMA SaidByOnce ==
    ASSUME NEW q, NEW n \in Nat, NEW old, NEW x, NEW y, SaidBy(q, n, old, x), SaidBy(q, n, old, y)
    PROVE  x = y
BY DEF SaidBy

LEMMA ViewByOnce ==
    ASSUME NEW q, NEW n \in Nat, NEW g, NEW old, NEW v, NEW w,
           ViewBy(q, n, g, old, v), ViewBy(q, n, g, old, w)
    PROVE  v = w
BY DEF ViewBy
-----------------------------------------------------------------------------
(* Views, summaries, bursts and pages *)

LEMMA NullApart ==
    /\ None \notin Nat /\ None \notin Winners /\ None \notin Games /\ None \notin Callouts
    /\ None # "judged" /\ None \notin Views /\ None \notin Events /\ None \notin Summaries
BY ScreensNone

LEMMA PartFacts ==
    ASSUME NEW vs
    PROVE  vs \in Parts <=> DOMAIN vs \subseteq Games /\ vs \in [DOMAIN vs -> Views]
<1>1. ASSUME vs \in Parts PROVE DOMAIN vs \subseteq Games /\ vs \in [DOMAIN vs -> Views]
  BY <1>1 DEF Parts
<1>2. ASSUME DOMAIN vs \subseteq Games, vs \in [DOMAIN vs -> Views] PROVE vs \in Parts
  BY <1>2 DEF Parts
<1> QED BY <1>1, <1>2

LEMMA NoParts == <<>> \in Parts /\ DOMAIN <<>> = {}
<1>1. DOMAIN <<>> = {} /\ <<>> \in [{} -> Views]
  OBVIOUS
<1> QED BY <1>1, PartFacts

LEMMA OverFacts ==
    ASSUME NEW new \in Parts, NEW old \in Parts, NEW vs, vs = Over(new, old)
    PROVE  /\ vs \in Parts
           /\ DOMAIN vs = DOMAIN new \cup DOMAIN old
           /\ \A g \in DOMAIN vs : vs[g] = IF g \in DOMAIN new THEN new[g] ELSE old[g]
<1>1. /\ DOMAIN new \subseteq Games /\ new \in [DOMAIN new -> Views]
      /\ DOMAIN old \subseteq Games /\ old \in [DOMAIN old -> Views]
  BY PartFacts
<1>2. /\ DOMAIN vs = DOMAIN new \cup DOMAIN old
      /\ \A g \in DOMAIN vs : vs[g] = IF g \in DOMAIN new THEN new[g] ELSE old[g]
  BY DEF Over
<1>3. vs \in [DOMAIN vs -> Views] /\ DOMAIN vs \subseteq Games
  <2>1. \A g \in DOMAIN new \cup DOMAIN old : (IF g \in DOMAIN new THEN new[g] ELSE old[g]) \in Views
    BY <1>1
  <2>2. Over(new, old) \in [DOMAIN new \cup DOMAIN old -> Views]
    BY <2>1 DEF Over
  <2> QED BY <1>1, <1>2, <2>2
<1> QED BY <1>2, <1>3, PartFacts

LEMMA ViewOfFacts ==
    ASSUME NEW page, page.views \in Parts, NEW g
    PROVE  /\ ViewOf(page, g) \in Views \cup {None}
           /\ ViewOf(page, g) # None <=> g \in DOMAIN page.views
           /\ g \in DOMAIN page.views => ViewOf(page, g) = page.views[g]
<1>1. page.views \in [DOMAIN page.views -> Views]
  BY PartFacts
<1> QED BY <1>1, NullApart DEF ViewOf

LEMMA ToldFacts ==
    ASSUME NEW page \in Consoles \cup Projectors, NEW b \in Bursts, NEW t, t = Told(page, b)
    PROVE  /\ page \in Consoles => t \in Consoles /\ t.drum = page.drum
           /\ page \in Projectors =>
                 /\ t \in Projectors /\ t.auto = page.auto /\ t.active = page.active /\ t.fx = page.fx
                 /\ t.waited = page.waited /\ t.late = page.late /\ t.roulette = page.roulette
           /\ t.on = page.on
           /\ t.event = IF b.said THEN b.event ELSE page.event
           /\ t.views = Over(b.views, page.views)
           /\ \A g : ViewOf(t, g) = IF g \in DOMAIN b.views THEN b.views[g] ELSE ViewOf(page, g)
<1>1. PICK x : x = IF b.said THEN b.event ELSE page.event
  OBVIOUS
<1>2. PICK vs : vs = Over(b.views, page.views)
  OBVIOUS
<1>3. t = [page EXCEPT !.event = x, !.views = vs]
  BY <1>1, <1>2 DEF Told
<1>4. b.views \in Parts /\ page.views \in Parts /\ x \in Summaries \cup {None}
  BY <1>1 DEF Bursts, Consoles, Projectors
<1>5. /\ vs \in Parts /\ DOMAIN vs = DOMAIN b.views \cup DOMAIN page.views
      /\ \A g \in DOMAIN vs : vs[g] = IF g \in DOMAIN b.views THEN b.views[g] ELSE page.views[g]
  BY <1>2, <1>4, OverFacts
<1>6. page \in Consoles => t \in Consoles /\ t.drum = page.drum /\ t.on = page.on
                           /\ t.event = x /\ t.views = vs
  BY <1>3, <1>4, <1>5 DEF Consoles
<1>7. page \in Projectors =>
          /\ t \in Projectors /\ t.auto = page.auto /\ t.active = page.active /\ t.fx = page.fx
          /\ t.waited = page.waited /\ t.late = page.late /\ t.roulette = page.roulette
          /\ t.on = page.on /\ t.event = x /\ t.views = vs
  BY <1>3, <1>4, <1>5 DEF Projectors
<1>8. t.on = page.on /\ t.event = x /\ t.views = vs
  BY <1>6, <1>7
<1>9. \A g : ViewOf(t, g) = IF g \in DOMAIN b.views THEN b.views[g] ELSE ViewOf(page, g)
  BY <1>5, <1>8 DEF ViewOf
<1> QED BY <1>1, <1>2, <1>6, <1>7, <1>8, <1>9

(* What one handler sends.                                                 *)
LEMMA SummaryFacts ==
    ASSUME NEW e \in Events \cup {None}
    PROVE  /\ Summary(e) \in Summaries \cup {None}
           /\ Summary(e) = None <=> e = None
           /\ e # None =>
                 /\ Summary(e).setting = e.setting /\ Summary(e).lock = e.lock
                 /\ Summary(e).spot = e.spot /\ Summary(e).spotOf = e.spotOf
                 /\ Summary(e).prize = e.prize
                 /\ Summary(e).label = [g \in Games |-> e.rooms[g].state]
<1>1. CASE e = None
  BY <1>1 DEF Summary
<1>2. CASE e # None
  <2>1. PICK s : s = [setting |-> e.setting, lock |-> e.lock, spot |-> e.spot, spotOf |-> e.spotOf,
                      prize |-> e.prize, label |-> [g \in Games |-> e.rooms[g].state]]
    OBVIOUS
  <2>2. \A g \in Games : e.rooms[g].state \in States
    BY <1>2 DEF Events, Views
  <2>3. [g \in Games |-> e.rooms[g].state] \in [Games -> States]
    BY <2>2
  <2>4. s \in Summaries
    BY <1>2, <2>1, <2>3 DEF Events, Summaries
  <2>5. Summary(e) = s /\ s # None
    BY <1>2, <2>1, <2>4, NullApart DEF Summary
  <2> QED BY <1>2, <2>1, <2>4, <2>5
<1> QED BY <1>1, <1>2

Sends(b, e, said, games, callout, late) ==
    /\ b \in Bursts /\ b.said = said /\ b.callout = callout /\ b.late = late
    /\ said => b.event = Summary(e)
    /\ e = None => DOMAIN b.views = {}
    /\ e # None => DOMAIN b.views = games /\ \A g \in games : b.views[g] = e.rooms[g]

LEMMA BurstFacts ==
    ASSUME NEW e \in Events \cup {None}, NEW said \in BOOLEAN, NEW games \in SUBSET Games,
           NEW callout \in Callouts \cup {None}, NEW late \in BOOLEAN,
           NEW b, b = Burst(e, said, games, callout, late)
    PROVE  Sends(b, e, said, games, callout, late)
<1>1. PICK x : x = IF said THEN Summary(e) ELSE None
  OBVIOUS
<1>2. PICK vs : vs = IF e = None THEN <<>> ELSE [g \in games |-> e.rooms[g]]
  OBVIOUS
<1>3. b = [said |-> said, event |-> x, views |-> vs, callout |-> callout, late |-> late]
  BY <1>1, <1>2 DEF Burst
<1>4. x \in Summaries \cup {None}
  BY <1>1, SummaryFacts
<1>5. /\ vs \in Parts /\ (e = None => DOMAIN vs = {})
      /\ e # None => DOMAIN vs = games /\ \A g \in games : vs[g] = e.rooms[g]
  <2>1. CASE e = None
    BY <1>2, <2>1, NoParts
  <2>2. CASE e # None
    <3>1. DOMAIN vs = games /\ \A g \in games : vs[g] = e.rooms[g]
      BY <1>2, <2>2
    <3>2. \A g \in games : e.rooms[g] \in Views
      BY <2>2 DEF Events
    <3>3. [g \in games |-> e.rooms[g]] \in [games -> Views]
      BY <3>2
    <3>4. vs \in [games -> Views]
      BY <1>2, <2>2, <3>3
    <3> QED BY <2>2, <3>1, <3>4, PartFacts
  <2> QED BY <2>1, <2>2
<1>6. b \in Bursts
  BY <1>3, <1>4, <1>5 DEF Bursts
<1> QED BY <1>1, <1>3, <1>5, <1>6 DEF Sends

LEMMA ErrorFacts ==
    Error \in Bursts /\ ~Error.said /\ DOMAIN Error.views = {} /\ Error.callout = None /\ ~Error.late
<1>1. PICK b : b = Burst(None, FALSE, {}, None, FALSE)
  OBVIOUS
<1>2. Sends(b, None, FALSE, {}, None, FALSE)
  BY <1>1, BurstFacts
<1> QED BY <1>1, <1>2 DEF Error, Sends

-----------------------------------------------------------------------------
(* What a screen is about to show *)

(* The summary x is of the event e, but for what u says nobody was told.   *)
Agrees(x, e, u) ==
    /\ x = None <=> e = None
    /\ e # None =>
         /\ x.setting = e.setting /\ x.spot = e.spot /\ x.spotOf = e.spotOf /\ x.prize = e.prize
         /\ "lock" \notin u => x.lock = e.lock
         /\ "label" \notin u => x.label = [g \in Games |-> e.rooms[g].state]

(* The view v is of the room, but for who is online.                       *)
Alike(v, room, g, u) ==
    /\ v # None /\ v.mini = room.mini /\ v.round = room.round
    /\ (g = "bingo" /\ "online" \in u) \/ v = room

(* Once it has read all of q the page shows the event.                     *)
Shows(page, q, e, u) ==
    /\ \E x : SaidBy(q, Len(q), page.event, x) /\ Agrees(x, e, u)
    /\ e # None => \A g \in Games : \E v :
          ViewBy(q, Len(q), g, ViewOf(page, g), v) /\ Alike(v, e.rooms[g], g, u)

(* What a burst must bring when the event becomes e2, and u2 untold.       *)
Tells(b, e, u, e2, u2) ==
    /\ b.said => Agrees(b.event, e2, u2)
    /\ ~b.said => \A x : Agrees(x, e, u) => Agrees(x, e2, u2)
    /\ e2 # None => \A g \in Games :
          /\ g \in DOMAIN b.views => Alike(b.views[g], e2.rooms[g], g, u2)
          /\ g \notin DOMAIN b.views =>
                e # None /\ \A v : Alike(v, e.rooms[g], g, u) => Alike(v, e2.rooms[g], g, u2)

LEMMA AppendFacts ==
    ASSUME NEW S, NEW q \in Seq(S), NEW b \in S, NEW r, r = Append(q, b)
    PROVE  /\ r \in Seq(S) /\ Len(r) = Len(q) + 1 /\ Len(q) \in Nat
           /\ r[Len(q) + 1] = b /\ \A i \in 1..Len(q) : r[i] = q[i]
OBVIOUS

LEMMA TailFacts ==
    ASSUME NEW S, NEW q \in Seq(S), q # <<>>, NEW r, r = Tail(q)
    PROVE  /\ r \in Seq(S) /\ Len(q) = Len(r) + 1 /\ Len(r) \in Nat
           /\ Head(q) = q[1] /\ Head(q) \in S /\ \A i \in 1..Len(r) : r[i] = q[i + 1]
OBVIOUS

LEMMA ShowsAppend ==
    ASSUME NEW page, NEW q \in Seq(Bursts), NEW b \in Bursts, NEW r, r = Append(q, b),
           NEW e, NEW u, NEW e2, NEW u2, Shows(page, q, e, u), Tells(b, e, u, e2, u2)
    PROVE  Shows(page, r, e2, u2)
<1>1. /\ Len(r) = Len(q) + 1 /\ Len(q) \in Nat /\ r[Len(q) + 1] = b
      /\ \A i \in 1..Len(q) : r[i] = q[i]
  BY AppendFacts
<1>2. \E x : SaidBy(r, Len(r), page.event, x) /\ Agrees(x, e2, u2)
  <2>1. CASE b.said
    <3>1. PICK x, old, n : x = b.event /\ old = page.event /\ n = Len(q)
      OBVIOUS
    <3>2. n \in Nat /\ r[n + 1].said /\ r[n + 1].event = x
      BY <1>1, <2>1, <3>1
    <3>3. SaidBy(r, n + 1, old, x)
      BY <3>2, SaidByNext
    <3> QED BY <1>1, <2>1, <3>1, <3>3 DEF Tells
  <2>2. CASE ~b.said
    <3>1. PICK x : SaidBy(q, Len(q), page.event, x) /\ Agrees(x, e, u)
      BY DEF Shows
    <3>2. SaidBy(r, Len(q), page.event, x)
      BY <1>1, <3>1, SaidByAlike
    <3>3. SaidBy(r, Len(q) + 1, page.event, x)
      <4>1. PICK old, n : old = page.event /\ n = Len(q)
        OBVIOUS
      <4>2. n \in Nat /\ ~r[n + 1].said /\ SaidBy(r, n, old, x)
        BY <1>1, <2>2, <3>2, <4>1
      <4>3. SaidBy(r, n + 1, old, x)
        BY <4>2, SaidByNext
      <4> QED BY <4>1, <4>3
    <3> QED BY <1>1, <2>2, <3>1, <3>3 DEF Tells
  <2> QED BY <2>1, <2>2
<1>3. ASSUME e2 # None, NEW g \in Games
      PROVE  \E v : ViewBy(r, Len(r), g, ViewOf(page, g), v) /\ Alike(v, e2.rooms[g], g, u2)
  <2>1. CASE g \in DOMAIN b.views
    <3>1. PICK v, old : v = b.views[g] /\ old = ViewOf(page, g)
      OBVIOUS
    <3>2. ViewBy(r, Len(q) + 1, g, old, v)
      BY <1>1, <2>1, <3>1, ViewByNext
    <3> QED BY <1>1, <1>3, <2>1, <3>1, <3>2 DEF Tells
  <2>2. CASE g \notin DOMAIN b.views
    <3>1. e # None
      BY <1>3, <2>2 DEF Tells
    <3>2. PICK v : ViewBy(q, Len(q), g, ViewOf(page, g), v) /\ Alike(v, e.rooms[g], g, u)
      BY <1>3, <3>1 DEF Shows
    <3>3. ViewBy(r, Len(q), g, ViewOf(page, g), v)
      BY <1>1, <3>2, ViewByAlike
    <3>4. ViewBy(r, Len(r), g, ViewOf(page, g), v)
      <4>1. PICK old : old = ViewOf(page, g)
        OBVIOUS
      <4>2. ViewBy(r, Len(q) + 1, g, old, v)
        BY <1>1, <2>2, <3>3, <4>1, ViewByNext
      <4> QED BY <1>1, <4>1, <4>2
    <3>5. Alike(v, e2.rooms[g], g, u2)
      BY <1>3, <2>2, <3>2 DEF Tells
    <3> QED BY <3>4, <3>5
  <2> QED BY <2>1, <2>2
<1> QED BY <1>2, <1>3 DEF Shows

(* Nothing is sent, and nothing a screen shows has changed.                *)
Untold(e, u, e2, u2) ==
    /\ \A x : Agrees(x, e, u) => Agrees(x, e2, u2)
    /\ e2 # None => e # None /\ \A g \in Games : \A v :
          Alike(v, e.rooms[g], g, u) => Alike(v, e2.rooms[g], g, u2)

LEMMA ShowsStill ==
    ASSUME NEW page, NEW q, NEW e, NEW u, NEW e2, NEW u2, Shows(page, q, e, u), Untold(e, u, e2, u2)
    PROVE  Shows(page, q, e2, u2)
BY DEF Shows, Untold

LEMMA ErrorTells ==
    ASSUME NEW e, NEW u, NEW e2, NEW u2, Untold(e, u, e2, u2)
    PROVE  Tells(Error, e, u, e2, u2)
BY ErrorFacts DEF Tells, Untold

(* A page that reads a burst is as far as it was with one burst less to come. *)
Reads(new, page, b) ==
    /\ new.event = IF b.said THEN b.event ELSE page.event
    /\ \A g : ViewOf(new, g) = IF g \in DOMAIN b.views THEN b.views[g] ELSE ViewOf(page, g)

LEMMA ShowsTail ==
    ASSUME NEW page, NEW new, NEW q \in Seq(Bursts), q # <<>>, NEW r, r = Tail(q),
           Reads(new, page, Head(q)), NEW e, NEW u, Shows(page, q, e, u)
    PROVE  Shows(new, r, e, u)
<1>1. /\ Len(q) = Len(r) + 1 /\ Len(r) \in Nat /\ Head(q) = q[1]
      /\ \A i \in 1..Len(r) : r[i] = q[i + 1]
  BY TailFacts
<1>2. PICK n \in Nat : n = Len(r)
  BY <1>1
<1>3. ASSUME NEW x PROVE SaidBy(r, n, new.event, x) <=> SaidBy(q, n + 1, page.event, x)
  <2>1. PICK old, now : old = page.event /\ now = new.event
    OBVIOUS
  <2>2. (q[1].said => now = q[1].event) /\ (~q[1].said => now = old)
    BY <1>1, <2>1 DEF Reads
  <2>3. SaidBy(r, n, now, x) <=> SaidBy(q, n + 1, old, x)
    BY <1>1, <1>2, <2>2, SaidByTail
  <2> QED BY <2>1, <2>3
<1>4. ASSUME NEW g, NEW v
      PROVE  ViewBy(r, n, g, ViewOf(new, g), v) <=> ViewBy(q, n + 1, g, ViewOf(page, g), v)
  <2>1. PICK old, now : old = ViewOf(page, g) /\ now = ViewOf(new, g)
    OBVIOUS
  <2>2. now = IF g \in DOMAIN q[1].views THEN q[1].views[g] ELSE old
    BY <1>1, <2>1 DEF Reads
  <2>3. ViewBy(r, n, g, now, v) <=> ViewBy(q, n + 1, g, old, v)
    BY <1>1, <1>2, <2>2, ViewByTail
  <2> QED BY <2>1, <2>3
<1> QED BY <1>1, <1>2, <1>3, <1>4 DEF Shows
-----------------------------------------------------------------------------
(* What a screen shows together is of one round *)

OfRound(x, v) == x # None /\ x.spot # None /\ x.spotOf # None => v # None /\ v.round = x.spotOf

RoundOf(e) == e # None /\ e.spot # None /\ e.spotOf # None => e.spotOf = e.rooms["bingo"].round

(* However far it has read, the page's card is of the round it shows.      *)
Rounds(page, q) ==
    \A n \in 0..Len(q) : \A x, v :
        SaidBy(q, n, page.event, x) /\ ViewBy(q, n, "bingo", ViewOf(page, "bingo"), v)
        => OfRound(x, v)

LEMMA RoundsAppend ==
    ASSUME NEW page, NEW q \in Seq(Bursts), NEW b \in Bursts, NEW r, r = Append(q, b),
           NEW e, NEW u, Rounds(page, q), Shows(page, r, e, u), RoundOf(e)
    PROVE  Rounds(page, r)
<1>1. /\ Len(r) = Len(q) + 1 /\ Len(q) \in Nat /\ \A i \in 1..Len(q) : r[i] = q[i]
  BY AppendFacts
<1>2. PICK os, ov : os = page.event /\ ov = ViewOf(page, "bingo")
  OBVIOUS
<1> SUFFICES ASSUME NEW n \in 0..Len(r), NEW x, NEW v,
                    SaidBy(r, n, os, x), ViewBy(r, n, "bingo", ov, v)
             PROVE  OfRound(x, v)
  BY <1>2 DEF Rounds
<1>3. CASE n \in 0..Len(q)
  <2>1. n \in Nat /\ \A i \in 1..n : q[i] = r[i]
    BY <1>1, <1>3
  <2>2. SaidBy(q, n, os, x) /\ ViewBy(q, n, "bingo", ov, v)
    BY <1>1, <1>3, <2>1, SaidByAlike, ViewByAlike
  <2> QED BY <1>2, <1>3, <2>2 DEF Rounds
<1>4. CASE n = Len(r)
  <2>1. PICK y : SaidBy(r, n, os, y) /\ Agrees(y, e, u)
    BY <1>2, <1>4 DEF Shows
  <2>2. x = y
    BY <2>1, <1>1, <1>4, SaidByOnce
  <2>3. CASE e = None
    BY <2>1, <2>2, <2>3 DEF Agrees, OfRound
  <2>4. CASE e # None
    <3>1. PICK w : ViewBy(r, n, "bingo", ov, w) /\ Alike(w, e.rooms["bingo"], "bingo", u)
      BY <1>2, <1>4, <2>4 DEF Shows, Games
    <3>2. v = w
      BY <3>1, <1>1, <1>4, ViewByOnce
    <3> QED BY <2>1, <2>2, <2>4, <3>1, <3>2 DEF Agrees, Alike, OfRound, RoundOf
  <2> QED BY <2>3, <2>4
<1>5. n \in 0..Len(q) \/ n = Len(r)
  BY <1>1
<1> QED BY <1>3, <1>4, <1>5

(* What it shows now is together, whatever is to come.                     *)
LEMMA RoundsNow ==
    ASSUME NEW page, NEW q \in Seq(Bursts), Rounds(page, q)
    PROVE  Rounds(page, <<>>)
<1>1. PICK os, ov : os = page.event /\ ov = ViewOf(page, "bingo")
  OBVIOUS
<1>2. 0 \in 0..Len(q) /\ \A n \in 0..Len(<<>>) : n = 0
  OBVIOUS
<1>3. \A x : SaidBy(q, 0, os, x) <=> x = os
  BY SaidByNone
<1>4. \A v : ViewBy(q, 0, "bingo", ov, v) <=> v = ov
  BY ViewByNone
<1>5. \A x : SaidBy(<<>>, 0, os, x) <=> x = os
  BY SaidByNone
<1>6. \A v : ViewBy(<<>>, 0, "bingo", ov, v) <=> v = ov
  BY ViewByNone
<1>7. OfRound(os, ov)
  BY <1>1, <1>2, <1>3, <1>4 DEF Rounds
<1> QED BY <1>1, <1>2, <1>5, <1>6, <1>7 DEF Rounds

LEMMA RoundsTail ==
    ASSUME NEW page, NEW new, NEW q \in Seq(Bursts), q # <<>>, NEW r, r = Tail(q),
           Reads(new, page, Head(q)), Rounds(page, q)
    PROVE  Rounds(new, r)
<1>1. /\ Len(q) = Len(r) + 1 /\ Len(r) \in Nat /\ Head(q) = q[1]
      /\ \A i \in 1..Len(r) : r[i] = q[i + 1]
  BY TailFacts
<1>2. PICK os, ov : os = page.event /\ ov = ViewOf(page, "bingo")
  OBVIOUS
<1>3. PICK ns, nv : ns = new.event /\ nv = ViewOf(new, "bingo")
  OBVIOUS
<1> SUFFICES ASSUME NEW n \in 0..Len(r), NEW x, NEW v,
                    SaidBy(r, n, ns, x), ViewBy(r, n, "bingo", nv, v)
             PROVE  OfRound(x, v)
  BY <1>3 DEF Rounds
<1>4. n \in Nat /\ n + 1 \in 0..Len(q) /\ \A i \in 1..n : r[i] = q[i + 1]
  BY <1>1
<1>5. /\ (q[1].said => ns = q[1].event) /\ (~q[1].said => ns = os)
      /\ nv = IF "bingo" \in DOMAIN q[1].views THEN q[1].views["bingo"] ELSE ov
  BY <1>1, <1>2, <1>3 DEF Reads
<1>6. SaidBy(q, n + 1, os, x)
  BY <1>4, <1>5, SaidByTail
<1>7. ViewBy(q, n + 1, "bingo", ov, v)
  BY <1>4, <1>5, ViewByTail
<1> QED BY <1>2, <1>4, <1>6, <1>7 DEF Rounds

-----------------------------------------------------------------------------
(* What a burst does to the board *)

Minis(v) == v # None /\ v.mini

(* A callout comes with the view of yutnori, and one that comes with a
   mini-game is about its beginning; after a judgment there is none.       *)
Heralds(page, q) ==
    \A n \in 1..Len(q) :
        /\ q[n].callout # None \/ q[n].late => "yutnori" \in DOMAIN q[n].views
        /\ q[n].late => ~q[n].views["yutnori"].mini
        /\ q[n].callout # None /\ q[n].views["yutnori"].mini =>
              \A v : ViewBy(q, n - 1, "yutnori", ViewOf(page, "yutnori"), v) => ~Minis(v)

(* The same of a burst that is sent when the event is e.                   *)
Herald(b, e) ==
    /\ b.callout # None \/ b.late => "yutnori" \in DOMAIN b.views
    /\ b.late => ~b.views["yutnori"].mini
    /\ b.callout # None /\ b.views["yutnori"].mini => e # None /\ ~e.rooms["yutnori"].mini

LEMMA HeraldsAppend ==
    ASSUME NEW page, NEW q \in Seq(Bursts), NEW b \in Bursts, NEW r, r = Append(q, b),
           NEW e, NEW u, Heralds(page, q), Shows(page, q, e, u), Herald(b, e)
    PROVE  Heralds(page, r)
<1>1. /\ Len(r) = Len(q) + 1 /\ Len(q) \in Nat /\ r[Len(q) + 1] = b
      /\ \A i \in 1..Len(q) : r[i] = q[i]
  BY AppendFacts
<1>2. PICK old : old = ViewOf(page, "yutnori")
  OBVIOUS
<1> SUFFICES ASSUME NEW n \in 1..Len(r)
             PROVE  /\ r[n].callout # None \/ r[n].late => "yutnori" \in DOMAIN r[n].views
                    /\ r[n].late => ~r[n].views["yutnori"].mini
                    /\ r[n].callout # None /\ r[n].views["yutnori"].mini =>
                          \A v : ViewBy(r, n - 1, "yutnori", old, v) => ~Minis(v)
  BY <1>2 DEF Heralds
<1>3. n - 1 \in Nat /\ \A i \in 1..(n - 1) : r[i] = q[i]
  BY <1>1
<1>4. \A v : ViewBy(r, n - 1, "yutnori", old, v) => ViewBy(q, n - 1, "yutnori", old, v)
  BY <1>3, ViewByAlike
<1>5. CASE n \in 1..Len(q)
  <2>1. r[n] = q[n]
    BY <1>1, <1>5
  <2> QED BY <1>2, <1>4, <1>5, <2>1 DEF Heralds
<1>6. CASE n = Len(q) + 1
  <2>1. r[n] = b /\ n - 1 = Len(q)
    BY <1>1, <1>6
  <2>2. ASSUME b.callout # None, b.views["yutnori"].mini, NEW v, ViewBy(q, n - 1, "yutnori", old, v)
        PROVE  ~Minis(v)
    <3>1. e # None /\ ~e.rooms["yutnori"].mini
      BY <2>2 DEF Herald
    <3>2. PICK w : ViewBy(q, n - 1, "yutnori", old, w)
                   /\ Alike(w, e.rooms["yutnori"], "yutnori", u)
      BY <1>2, <2>1, <3>1 DEF Shows, Games
    <3>3. v = w
      BY <2>2, <3>2, <1>3, ViewByOnce
    <3> QED BY <3>1, <3>2, <3>3 DEF Alike, Minis
  <2> QED BY <1>4, <2>1, <2>2 DEF Herald
<1> QED BY <1>1, <1>5, <1>6

LEMMA HeraldsTail ==
    ASSUME NEW page, NEW new, NEW q \in Seq(Bursts), q # <<>>, NEW r, r = Tail(q),
           Reads(new, page, Head(q)), Heralds(page, q)
    PROVE  Heralds(new, r)
<1>1. /\ Len(q) = Len(r) + 1 /\ Len(r) \in Nat /\ Head(q) = q[1]
      /\ \A i \in 1..Len(r) : r[i] = q[i + 1]
  BY TailFacts
<1>2. PICK old, now : old = ViewOf(page, "yutnori") /\ now = ViewOf(new, "yutnori")
  OBVIOUS
<1>3. now = IF "yutnori" \in DOMAIN q[1].views THEN q[1].views["yutnori"] ELSE old
  BY <1>1, <1>2 DEF Reads
<1> SUFFICES ASSUME NEW n \in 1..Len(r)
             PROVE  /\ r[n].callout # None \/ r[n].late => "yutnori" \in DOMAIN r[n].views
                    /\ r[n].late => ~r[n].views["yutnori"].mini
                    /\ r[n].callout # None /\ r[n].views["yutnori"].mini =>
                          \A v : ViewBy(r, n - 1, "yutnori", now, v) => ~Minis(v)
  BY <1>2 DEF Heralds
<1>4. PICK m \in Nat : m = n - 1
  OBVIOUS
<1>5. r[n] = q[n + 1] /\ n + 1 \in 1..Len(q) /\ \A i \in 1..m : r[i] = q[i + 1]
  BY <1>1, <1>4
<1>6. \A v : ViewBy(r, m, "yutnori", now, v) => ViewBy(q, m + 1, "yutnori", old, v)
  BY <1>3, <1>5, ViewByTail
<1>7. m + 1 = (n + 1) - 1
  BY <1>4
<1> QED BY <1>2, <1>4, <1>5, <1>6, <1>7 DEF Heralds
-----------------------------------------------------------------------------
(* The projector reads a burst *)

LEMMA BumpFacts ==
    ASSUME NEW page \in Projectors, NEW g \in Games, NEW quiet, NEW t, t = Bump(page, g, quiet)
    PROVE  /\ t \in Projectors /\ t.on = page.on /\ t.event = page.event /\ t.views = page.views
           /\ t.fx = page.fx /\ t.waited = page.waited /\ t.late = page.late
           /\ t.roulette = page.roulette
<1>1. PICK a, act : /\ a = IF Other(g) \in page.active \ quiet THEN page.auto ELSE g
                    /\ act = page.active \cup {g}
  OBVIOUS
<1>2. t = [page EXCEPT !.auto = a, !.active = act]
  BY <1>1 DEF Bump
<1>3. a \in Games /\ act \in SUBSET Games
  BY <1>1 DEF Projectors
<1> QED BY <1>2, <1>3 DEF Projectors

LEMMA BumpAllFacts ==
    ASSUME NEW page \in Projectors, NEW games, NEW quiet, NEW t, t = BumpAll(page, games, quiet)
    PROVE  /\ t \in Projectors /\ t.on = page.on /\ t.event = page.event /\ t.views = page.views
           /\ t.fx = page.fx /\ t.waited = page.waited /\ t.late = page.late
           /\ t.roulette = page.roulette
<1>1. PICK b : b = IF "bingo" \in games THEN Bump(page, "bingo", quiet) ELSE page
  OBVIOUS
<1>2. /\ b \in Projectors /\ b.on = page.on /\ b.event = page.event /\ b.views = page.views
      /\ b.fx = page.fx /\ b.waited = page.waited /\ b.late = page.late
      /\ b.roulette = page.roulette
  BY <1>1, BumpFacts DEF Games
<1>3. PICK qs : qs = quiet \ games
  OBVIOUS
<1>4. t = IF "yutnori" \in games THEN Bump(b, "yutnori", qs) ELSE b
  BY <1>1, <1>3 DEF BumpAll
<1> QED BY <1>2, <1>4, BumpFacts DEF Games

(* Only what decides the screen counts for what is drawn.                  *)
LEMMA ActiveAlike ==
    ASSUME NEW p, NEW t, t.event = p.event, t.auto = p.auto
    PROVE  Active(t) = Active(p)
BY DEF Active

LEMMA DrawnFacts ==
    ASSUME NEW page \in Projectors, NEW t, t = Drawn(page)
    PROVE  /\ t \in Projectors /\ t.on = page.on /\ t.event = page.event /\ t.views = page.views
           /\ t.fx = page.fx /\ t.late = page.late /\ t.roulette = page.roulette
           /\ t.waited => page.fx # None /\ (page.waited \/ ~Playing(page))
           /\ page.fx # None /\ (page.waited \/ ~Playing(page)) => t.waited
           /\ Playing(t) <=> Playing(page)
<1>1. PICK w \in BOOLEAN : w <=> page.fx # None /\ (page.waited \/ ~Playing(page))
  OBVIOUS
<1>2. t = [page EXCEPT !.waited = w]
  BY <1>1 DEF Drawn
<1>3. /\ t \in Projectors /\ t.on = page.on /\ t.event = page.event /\ t.views = page.views
      /\ t.fx = page.fx /\ t.late = page.late /\ t.roulette = page.roulette /\ t.waited = w
      /\ t.auto = page.auto
  BY <1>2 DEF Projectors
<1>4. Playing(t) <=> Playing(page)
  BY <1>3, ActiveAlike DEF Playing
<1> QED BY <1>1, <1>3, <1>4

LEMMA RouletteFacts ==
    ASSUME NEW before, NEW page \in Projectors, NEW t, t = Roulette(before, page)
    PROVE  /\ t \in Projectors /\ t.on = page.on /\ t.event = page.event /\ t.views = page.views
           /\ t.auto = page.auto /\ t.fx = page.fx /\ t.waited = page.waited /\ t.late = page.late
           /\ (Pending(before) <=> Pending(page)) => t.roulette = page.roulette
           /\ ~Pending(before) /\ Pending(page) => t.roulette = "timed"
           /\ Pending(before) /\ ~Pending(page) => t.roulette = "off"
<1>1. PICK x : x = IF Pending(before) = Pending(page) THEN page.roulette
                   ELSE IF Pending(page) THEN "timed" ELSE "off"
  OBVIOUS
<1>2. t = [page EXCEPT !.roulette = x]
  BY <1>1 DEF Roulette
<1>3. /\ (Pending(before) <=> Pending(page)) => x = page.roulette
      /\ ~Pending(before) /\ Pending(page) => x = "timed"
      /\ Pending(before) /\ ~Pending(page) => x = "off"
  <2>1. (Pending(before) = Pending(page)) <=> (Pending(before) <=> Pending(page))
    BY Zenon DEF Pending
  <2> QED BY <1>1, <2>1
<1>4. x \in {"off", "timed", "shown"}
  BY <1>3 DEF Projectors
<1> QED BY <1>2, <1>3, <1>4 DEF Projectors

LEMMA ShowFxFacts ==
    ASSUME NEW page \in Projectors, NEW fx \in Callouts \cup {"judged", None}, NEW t,
           t = ShowFx(page, fx)
    PROVE  /\ t \in Projectors /\ t.on = page.on /\ t.event = page.event /\ t.views = page.views
           /\ t.auto = page.auto /\ t.late = page.late /\ t.roulette = page.roulette
           /\ fx = None => t.fx = page.fx /\ t.waited = page.waited
           /\ fx # None => t.fx = fx /\ ~t.waited
<1>1. CASE fx = None
  BY <1>1 DEF ShowFx
<1>2. CASE fx # None
  <2>1. t = [page EXCEPT !.fx = fx, !.waited = FALSE]
    BY <1>2 DEF ShowFx
  <2> QED BY <1>2, <2>1 DEF Projectors
<1> QED BY <1>1, <1>2

LEMMA PendingFacts ==
    ASSUME NEW p \in Projectors, NEW t, t.views = p.views
    PROVE  Pending(t) <=> Pending(p)
BY DEF Pending, ViewOf

LEMMA OnBurstFacts ==
    ASSUME NEW page \in Projectors, NEW b \in Bursts, NEW quiet, NEW t, t = OnBurst(page, b, quiet)
    PROVE  /\ t \in Projectors /\ t.on = page.on /\ Reads(t, page, b)
           /\ t.late <=> page.late \/ b.late
           /\ b.callout = None => t.fx = page.fx
           /\ b.callout # None => t.fx = b.callout
           /\ b.callout = None /\ page.waited /\ t.fx # None => t.waited
           /\ t.fx # None /\ ~t.waited => Playing(t)
           /\ (Pending(page) <=> Pending(t)) => t.roulette = page.roulette
           /\ ~Pending(page) /\ Pending(t) => t.roulette = "timed"
           /\ Pending(page) /\ ~Pending(t) => t.roulette = "off"
<1>1. PICK p1 : p1 = Told(page, b)
  OBVIOUS
<1>2. /\ p1 \in Projectors /\ p1.on = page.on /\ Reads(p1, page, b) /\ p1.fx = page.fx
      /\ p1.waited = page.waited /\ p1.late = page.late /\ p1.roulette = page.roulette
  BY <1>1, ToldFacts DEF Reads
<1>3. PICK p2 : p2 = BumpAll(p1, DOMAIN b.views, quiet)
  OBVIOUS
<1>4. /\ p2 \in Projectors /\ p2.on = p1.on /\ p2.event = p1.event /\ p2.views = p1.views
      /\ p2.fx = p1.fx /\ p2.waited = p1.waited /\ p2.late = p1.late
      /\ p2.roulette = p1.roulette
  BY <1>2, <1>3, BumpAllFacts
<1>5. PICK l \in BOOLEAN : l <=> page.late \/ b.late
  OBVIOUS
<1>6. PICK p3 : p3 = [p2 EXCEPT !.late = l]
  OBVIOUS
<1>7. /\ p3 \in Projectors /\ p3.on = p2.on /\ p3.event = p2.event /\ p3.views = p2.views
      /\ p3.fx = p2.fx /\ p3.waited = p2.waited /\ p3.late = l
      /\ p3.roulette = p2.roulette
  BY <1>4, <1>6 DEF Projectors
<1>8. p3 = [BumpAll(Told(page, b), DOMAIN b.views, quiet) EXCEPT !.late = @ \/ b.late]
  <2>1. l = (p2.late \/ b.late)
    <3>1. p2.late = page.late /\ page.late \in BOOLEAN /\ b.late \in BOOLEAN
      BY <1>2, <1>4 DEF Projectors, Bursts
    <3> QED BY <1>5, <3>1
  <2> QED BY <1>1, <1>3, <1>6, <2>1
<1>9. b.callout \in Callouts \cup {"judged", None}
  BY DEF Bursts
<1>10. PICK p4 : p4 = ShowFx(p3, b.callout)
  OBVIOUS
<1>11. /\ p4 \in Projectors /\ p4.on = p3.on /\ p4.event = p3.event /\ p4.views = p3.views
       /\ p4.late = p3.late /\ p4.roulette = p3.roulette
       /\ b.callout = None => p4.fx = p3.fx /\ p4.waited = p3.waited
       /\ b.callout # None => p4.fx = b.callout /\ ~p4.waited
  BY <1>7, <1>9, <1>10, ShowFxFacts
<1>12. PICK p5 : p5 = Roulette(page, p4)
  OBVIOUS
<1>13. /\ p5 \in Projectors /\ p5.on = p4.on /\ p5.event = p4.event /\ p5.views = p4.views
       /\ p5.fx = p4.fx /\ p5.waited = p4.waited /\ p5.late = p4.late
       /\ (Pending(page) <=> Pending(p4)) => p5.roulette = p4.roulette
       /\ ~Pending(page) /\ Pending(p4) => p5.roulette = "timed"
       /\ Pending(page) /\ ~Pending(p4) => p5.roulette = "off"
  BY <1>11, <1>12, RouletteFacts
<1>14. t = Drawn(p5)
  BY <1>8, <1>10, <1>12 DEF OnBurst
<1>15. /\ t \in Projectors /\ t.on = p5.on /\ t.event = p5.event /\ t.views = p5.views
       /\ t.fx = p5.fx /\ t.late = p5.late /\ t.roulette = p5.roulette
       /\ p5.fx # None /\ (p5.waited \/ ~Playing(p5)) => t.waited
       /\ Playing(t) <=> Playing(p5)
  BY <1>13, <1>14, DrawnFacts
<1>16. Pending(t) <=> Pending(p4)
  BY <1>11, <1>13, <1>15, PendingFacts
<1>17. t.event = p1.event /\ t.views = p1.views
  BY <1>4, <1>7, <1>11, <1>13, <1>15
<1>18. Reads(t, page, b)
  BY <1>2, <1>17 DEF Reads, ViewOf
<1>19. t.on = page.on /\ (t.late <=> page.late \/ b.late)
  BY <1>2, <1>4, <1>5, <1>7, <1>11, <1>13, <1>15
<1>20. /\ b.callout = None => t.fx = page.fx
       /\ b.callout # None => t.fx = b.callout
       /\ b.callout = None /\ page.waited /\ t.fx # None => t.waited
  BY <1>2, <1>4, <1>7, <1>11, <1>13, <1>15
<1>21. t.fx # None /\ ~t.waited => Playing(t)
  BY <1>15
<1>22. /\ (Pending(page) <=> Pending(t)) => t.roulette = page.roulette
       /\ ~Pending(page) /\ Pending(t) => t.roulette = "timed"
       /\ Pending(page) /\ ~Pending(t) => t.roulette = "off"
  BY <1>2, <1>4, <1>7, <1>11, <1>13, <1>15, <1>16
<1> QED BY <1>15, <1>18, <1>19, <1>20, <1>21, <1>22
-----------------------------------------------------------------------------
(* The inductive invariant, in parts *)

(* The steps of a reveal that were reached past the drumroll's are asked for. *)
StepsAsked(e, by) ==
    e # None => \A g \in Games : \A step \in 2..LastStep :
        e.rooms[g].state = "REVEAL" /\ e.rooms[g].step >= step => <<g, step>> \in by

HostInv == event \in Events \cup {None} /\ RoundOf(event) /\ StepsAsked(event, asked)

RequestsAsked(q, by) ==
    \A i \in 1..Len(q) :
        q[i].t = "reveal" /\ q[i].step \in 2..LastStep => <<q[i].g, q[i].step>> \in by

UpInv == up \in Seq(Requests) /\ RequestsAsked(up, asked)

(* The roulette is not drawn with a callout still to come or at play.      *)
OneAtATime(p) ==
    /\ ~Pending(p) => p.roulette = "off"
    /\ p.late => p.roulette # "shown"
    /\ p.fx # None /\ ~p.waited => Playing(p)
    /\ p.roulette = "shown" /\ p.fx # None => p.waited

PageInv == con \in Consoles /\ pj \in Projectors /\ OneAtATime(pj)

WireInv ==
    /\ down \in [Screens -> Seq(Bursts)]
    /\ ~con.on => down["console"] = <<>>
    /\ ~pj.on => down["projector"] = <<>>
    /\ con.on => Shows(con, down["console"], event, unsaid)
    /\ pj.on => Shows(pj, down["projector"], event, unsaid)
    /\ Rounds(pj, down["projector"]) /\ Heralds(pj, down["projector"])

CountInv == unsaid \subseteq {"lock", "label", "online"} /\ ops \in Nat

ScreensInv == HostInv /\ UpInv /\ PageInv /\ WireInv /\ CountInv

-----------------------------------------------------------------------------
(* What is sent arrives in the queues *)

LEMMA ScreenFacts == "console" \in Screens /\ "projector" \in Screens
BY DEF Screens

LEMMA PushKeeps ==
    ASSUME WireInv, RoundOf(event'), NEW b \in Bursts, Push(b), con' = con, pj' = pj,
           Tells(b, event, unsaid, event', unsaid'), Herald(b, event)
    PROVE  WireInv'
<1>1. PICK qc, qp : qc = down["console"] /\ qp = down["projector"]
  OBVIOUS
<1>2. qc \in Seq(Bursts) /\ qp \in Seq(Bursts)
  BY <1>1, ScreenFacts DEF WireInv
<1>3. PICK rc, rp : rc = Append(qc, b) /\ rp = Append(qp, b)
  OBVIOUS
<1>4. rc \in Seq(Bursts) /\ rp \in Seq(Bursts)
  BY <1>2, <1>3, AppendFacts
<1>5. /\ down'["console"] = IF con.on THEN rc ELSE qc
      /\ down'["projector"] = IF pj.on THEN rp ELSE qp
      /\ down' \in [Screens -> Seq(Bursts)]
  BY <1>1, <1>2, <1>3, <1>4 DEF Push, Screens
<1>6. PICK e2, u2 : e2 = event' /\ u2 = unsaid'
  OBVIOUS
<1>7. ASSUME con.on PROVE Shows(con, rc, e2, u2)
  <2>1. Shows(con, qc, event, unsaid)
    BY <1>1, <1>7 DEF WireInv
  <2> QED BY <2>1, <1>2, <1>3, <1>6, ShowsAppend
<1>8. ASSUME pj.on PROVE Shows(pj, rp, e2, u2) /\ Rounds(pj, rp) /\ Heralds(pj, rp)
  <2>1. Shows(pj, qp, event, unsaid) /\ Rounds(pj, qp) /\ Heralds(pj, qp)
    BY <1>1, <1>8 DEF WireInv
  <2>2. Shows(pj, rp, e2, u2)
    BY <2>1, <1>2, <1>3, <1>6, ShowsAppend
  <2>3. Rounds(pj, rp)
    BY <2>1, <2>2, <1>2, <1>3, <1>6, RoundsAppend
  <2>4. Heralds(pj, rp)
    BY <2>1, <1>2, <1>3, HeraldsAppend
  <2> QED BY <2>2, <2>3, <2>4
<1>9. /\ ~con.on => qc = <<>>
      /\ ~pj.on => qp = <<>>
      /\ Rounds(pj, qp) /\ Heralds(pj, qp)
  BY <1>1 DEF WireInv
<1>10. CASE con.on /\ pj.on
  BY <1>5, <1>6, <1>7, <1>8, <1>10 DEF WireInv
<1>11. CASE con.on /\ ~pj.on
  BY <1>5, <1>6, <1>7, <1>9, <1>11 DEF WireInv
<1>12. CASE ~con.on /\ pj.on
  BY <1>5, <1>6, <1>8, <1>9, <1>12 DEF WireInv
<1>13. CASE ~con.on /\ ~pj.on
  BY <1>5, <1>6, <1>9, <1>13 DEF WireInv
<1> QED BY <1>10, <1>11, <1>12, <1>13

LEMMA StillKeeps ==
    ASSUME WireInv, down' = down, con' = con, pj' = pj, Untold(event, unsaid, event', unsaid')
    PROVE  WireInv'
<1>1. PICK e2, u2 : e2 = event' /\ u2 = unsaid'
  OBVIOUS
<1>2. con.on => Shows(con, down["console"], e2, u2)
  BY <1>1, ShowsStill DEF WireInv
<1>3. pj.on => Shows(pj, down["projector"], e2, u2)
  BY <1>1, ShowsStill DEF WireInv
<1> QED BY <1>1, <1>2, <1>3 DEF WireInv

LEMMA ErrorKeeps ==
    ASSUME WireInv, con.on, ToConsole(Error), con' = con, pj' = pj,
           Untold(event, unsaid, event', unsaid')
    PROVE  WireInv'
<1>1. PICK e2, u2 : e2 = event' /\ u2 = unsaid'
  OBVIOUS
<1>2. PICK qc : qc = down["console"]
  OBVIOUS
<1>3. PICK rc : rc = Append(qc, Error)
  OBVIOUS
<1>4. qc \in Seq(Bursts) /\ down["projector"] \in Seq(Bursts) /\ rc \in Seq(Bursts)
  BY <1>2, <1>3, ErrorFacts, AppendFacts, ScreenFacts DEF WireInv
<1>5. /\ down'["console"] = rc /\ down'["projector"] = down["projector"]
      /\ down' \in [Screens -> Seq(Bursts)]
  BY <1>2, <1>3, <1>4, ScreenFacts DEF ToConsole, WireInv
<1>6. Shows(con, rc, e2, u2)
  <2>1. Tells(Error, event, unsaid, e2, u2)
    BY <1>1, ErrorTells
  <2>2. Shows(con, qc, event, unsaid)
    BY <1>2 DEF WireInv
  <2> QED BY <2>1, <2>2, <1>3, <1>4, ErrorFacts, ShowsAppend
<1>7. pj.on => Shows(pj, down["projector"], e2, u2)
  BY <1>1, ShowsStill DEF WireInv
<1> QED BY <1>1, <1>5, <1>6, <1>7 DEF WireInv

-----------------------------------------------------------------------------
(* The pages *)

LEMMA RenderedFacts ==
    ASSUME NEW page \in Consoles, NEW t, t = Rendered(page)
    PROVE  t \in Consoles /\ t.on = page.on /\ t.event = page.event /\ t.views = page.views
<1>1. PICK d : d = [g \in Games |-> IF page.event = None THEN "idle"
                                    ELSE DrumAfter(page.drum[g], ViewOf(page, g))]
  OBVIOUS
<1>2. t = [page EXCEPT !.drum = d]
  BY <1>1 DEF Rendered
<1>3. \A x, v : DrumAfter(x, v) \in {"idle", "armed", "spent"}
  <2> SUFFICES ASSUME NEW x, NEW v PROVE DrumAfter(x, v) \in {"idle", "armed", "spent"}
    OBVIOUS
  <2>1. CASE v = None \/ v.state # "REVEAL"
    BY <2>1 DEF DrumAfter
  <2>2. CASE v # None /\ v.state = "REVEAL"
    <3>1. CASE x = "idle" /\ v.step = 0
      BY <2>2, <3>1 DEF DrumAfter
    <3>2. CASE x = "idle" /\ v.step # 0
      BY <2>2, <3>2 DEF DrumAfter
    <3>3. CASE x # "idle"
      BY <2>2, <3>3 DEF DrumAfter
    <3> QED BY <3>1, <3>2, <3>3
  <2> QED BY <2>1, <2>2
<1>4. d \in [Games -> {"idle", "armed", "spent"}]
  BY <1>1, <1>3
<1> QED BY <1>2, <1>4 DEF Consoles

LEMMA ReadsViews ==
    ASSUME NEW p, NEW t, NEW b, Reads(t, p, b), NEW s, s.event = t.event, s.views = t.views
    PROVE  Reads(s, p, b)
BY DEF Reads, ViewOf

(* The same page, connected or drawn otherwise, is about to show the same. *)
LEMMA SamePage ==
    ASSUME NEW p, NEW t, t.event = p.event, t.views = p.views, NEW q, NEW e, NEW u
    PROVE  /\ Shows(p, q, e, u) => Shows(t, q, e, u)
           /\ Rounds(p, q) => Rounds(t, q)
           /\ Heralds(p, q) => Heralds(t, q)
<1>1. \A g : ViewOf(t, g) = ViewOf(p, g)
  BY DEF ViewOf
<1> QED BY <1>1 DEF Shows, Rounds, Heralds

LEMMA ConReadKeeps ==
    ASSUME ScreensInv, ConRead
    PROVE  ScreensInv'
<1>1. PICK q, b, r : q = down["console"] /\ b = Head(q) /\ r = Tail(q)
  OBVIOUS
<1>2. /\ con.on /\ q # <<>> /\ con' = Rendered(Told(con, b))
      /\ down' = [down EXCEPT !["console"] = r]
      /\ event' = event /\ up' = up /\ pj' = pj /\ unsaid' = unsaid /\ asked' = asked /\ ops' = ops
  BY <1>1 DEF ConRead, bounds
<1>3. q \in Seq(Bursts) /\ down["projector"] \in Seq(Bursts) /\ con \in Consoles
  BY <1>1, ScreenFacts DEF ScreensInv, WireInv, PageInv
<1>4. r \in Seq(Bursts) /\ b \in Bursts
  BY <1>1, <1>2, <1>3, TailFacts
<1>5. PICK t : t = Told(con, b)
  OBVIOUS
<1>6. t \in Consoles /\ t.on = con.on /\ Reads(t, con, b)
  BY <1>3, <1>4, <1>5, ToldFacts DEF Reads
<1>7. con' \in Consoles /\ con'.on /\ con'.event = t.event /\ con'.views = t.views
  BY <1>2, <1>5, <1>6, RenderedFacts
<1>8. Reads(con', con, b)
  BY <1>6, <1>7, ReadsViews
<1>9. Shows(con', r, event, unsaid)
  <2>1. Shows(con, q, event, unsaid)
    BY <1>1, <1>2 DEF ScreensInv, WireInv
  <2> QED BY <2>1, <1>1, <1>2, <1>3, <1>8, ShowsTail
<1>10. /\ down'["console"] = r /\ down'["projector"] = down["projector"]
       /\ down' \in [Screens -> Seq(Bursts)]
  BY <1>2, <1>4, ScreenFacts DEF ScreensInv, WireInv
<1>11. WireInv'
  BY <1>2, <1>7, <1>9, <1>10 DEF ScreensInv, WireInv
<1> QED BY <1>2, <1>7, <1>11 DEF ScreensInv, HostInv, UpInv, PageInv, CountInv

LEMMA TouchKeeps ==
    ASSUME ScreensInv, Touch
    PROVE  ScreensInv'
<1>1. con' \in Consoles /\ con'.on = con.on /\ con'.event = con.event /\ con'.views = con.views
  BY RenderedFacts DEF Touch, ScreensInv, PageInv
<1>2. /\ event' = event /\ up' = up /\ pj' = pj /\ unsaid' = unsaid /\ asked' = asked /\ ops' = ops
      /\ down' = down
  BY DEF Touch, bounds
<1>3. PICK t : t = con'
  OBVIOUS
<1>4. con.on => Shows(t, down["console"], event, unsaid)
  BY <1>1, <1>3, SamePage DEF ScreensInv, WireInv
<1>5. WireInv'
  BY <1>1, <1>2, <1>3, <1>4 DEF ScreensInv, WireInv
<1> QED BY <1>1, <1>2, <1>5 DEF ScreensInv, HostInv, UpInv, PageInv, CountInv

(* A mini-game and its callout: which of them the page draws after a burst. *)
LEMMA OneAtATimeRead ==
    ASSUME NEW p \in Projectors, OneAtATime(p), NEW q \in Seq(Bursts), q # <<>>, Heralds(p, q),
           NEW quiet, NEW t, t = OnBurst(p, Head(q), quiet)
    PROVE  OneAtATime(t)
<1>1. PICK b : b = Head(q)
  OBVIOUS
<1>2. b \in Bursts /\ b = q[1] /\ 1 \in 1..Len(q) /\ 1 - 1 = 0
  BY <1>1, TailFacts
<1>3. /\ t \in Projectors /\ t.on = p.on /\ Reads(t, p, b)
      /\ t.late <=> p.late \/ b.late
      /\ b.callout = None => t.fx = p.fx
      /\ b.callout # None => t.fx = b.callout
      /\ b.callout = None /\ p.waited /\ t.fx # None => t.waited
      /\ t.fx # None /\ ~t.waited => Playing(t)
      /\ (Pending(p) <=> Pending(t)) => t.roulette = p.roulette
      /\ ~Pending(p) /\ Pending(t) => t.roulette = "timed"
      /\ Pending(p) /\ ~Pending(t) => t.roulette = "off"
  BY <1>1, <1>2, OnBurstFacts
<1>4. /\ b.callout # None \/ b.late => "yutnori" \in DOMAIN b.views
      /\ b.late => ~b.views["yutnori"].mini
      /\ b.callout # None /\ b.views["yutnori"].mini =>
            \A v : ViewBy(q, 0, "yutnori", ViewOf(p, "yutnori"), v) => ~Minis(v)
  BY <1>2 DEF Heralds
<1>5. b.callout # None /\ b.views["yutnori"].mini => ~Pending(p)
  BY <1>4, ViewByNone DEF Minis, Pending
<1>6. "yutnori" \in DOMAIN b.views => ViewOf(t, "yutnori") = b.views["yutnori"]
  BY <1>3 DEF Reads
<1>7. b.late => ~Pending(t)
  BY <1>4, <1>6 DEF Pending
<1>8. b.callout # None /\ Pending(t) => ~Pending(p)
  BY <1>4, <1>5, <1>6 DEF Pending
<1>9. ~Pending(t) => t.roulette = "off"
  BY <1>3 DEF OneAtATime
<1>10. t.late => t.roulette # "shown"
  BY <1>3, <1>7, <1>9 DEF OneAtATime
<1>11. t.roulette = "shown" /\ t.fx # None => t.waited
  BY <1>3, <1>8, <1>9 DEF OneAtATime
<1> QED BY <1>3, <1>9, <1>10, <1>11 DEF OneAtATime

LEMMA PjReadKeeps ==
    ASSUME ScreensInv, PjRead
    PROVE  ScreensInv'
<1>1. PICK q, b, r : q = down["projector"] /\ b = Head(q) /\ r = Tail(q)
  OBVIOUS
<1>2. /\ pj.on /\ q # <<>> /\ down' = [down EXCEPT !["projector"] = r]
      /\ event' = event /\ up' = up /\ con' = con /\ unsaid' = unsaid /\ asked' = asked /\ ops' = ops
  BY <1>1 DEF PjRead, bounds
<1>3. PICK quiet : pj' = OnBurst(pj, b, quiet)
  BY <1>1 DEF PjRead
<1>4. PICK t : t = pj'
  OBVIOUS
<1>5. /\ q \in Seq(Bursts) /\ down["console"] \in Seq(Bursts) /\ pj \in Projectors /\ OneAtATime(pj)
      /\ Shows(pj, q, event, unsaid) /\ Rounds(pj, q) /\ Heralds(pj, q)
  BY <1>1, <1>2, ScreenFacts DEF ScreensInv, WireInv, PageInv
<1>6. r \in Seq(Bursts) /\ b \in Bursts
  BY <1>1, <1>2, <1>5, TailFacts
<1>7. t \in Projectors /\ t.on = pj.on /\ Reads(t, pj, b)
  BY <1>3, <1>4, <1>5, <1>6, OnBurstFacts
<1>8. OneAtATime(t)
  BY <1>1, <1>2, <1>3, <1>4, <1>5, OneAtATimeRead
<1>9. Shows(t, r, event, unsaid)
  BY <1>1, <1>2, <1>5, <1>7, ShowsTail
<1>10. Rounds(t, r)
  BY <1>1, <1>2, <1>5, <1>7, RoundsTail
<1>11. Heralds(t, r)
  BY <1>1, <1>2, <1>5, <1>7, HeraldsTail
<1>12. /\ down'["projector"] = r /\ down'["console"] = down["console"]
       /\ down' \in [Screens -> Seq(Bursts)]
  BY <1>2, <1>6, ScreenFacts DEF ScreensInv, WireInv
<1>13. WireInv'
  BY <1>2, <1>4, <1>7, <1>9, <1>10, <1>11, <1>12 DEF ScreensInv, WireInv
<1> QED BY <1>2, <1>4, <1>7, <1>8, <1>13 DEF ScreensInv, HostInv, UpInv, PageInv, CountInv

(* The projector draws otherwise what it knows.                            *)
LEMMA PjDrawsKeeps ==
    ASSUME ScreensInv, UNCHANGED <<event, down, up, con, unsaid, asked, bounds>>,
           pj' \in Projectors, pj'.on = pj.on, pj'.event = pj.event, pj'.views = pj.views,
           NEW t, t = pj', OneAtATime(t)
    PROVE  ScreensInv'
<1>1. pj.on => Shows(t, down["projector"], event, unsaid)
  BY SamePage DEF ScreensInv, WireInv
<1>2. Rounds(t, down["projector"]) /\ Heralds(t, down["projector"])
  BY SamePage DEF ScreensInv, WireInv
<1>3. WireInv'
  BY <1>1, <1>2 DEF ScreensInv, WireInv
<1> QED BY <1>3 DEF ScreensInv, HostInv, UpInv, PageInv, CountInv, bounds

LEMMA PjTimerKeeps ==
    ASSUME ScreensInv, PjTimer
    PROVE  ScreensInv'
<1>1. PICK p, t : p = pj /\ t = pj'
  OBVIOUS
<1>2. p \in Projectors /\ OneAtATime(p)
  BY <1>1 DEF ScreensInv, PageInv
<1>3. CASE FxEnds
  <2>1. t = [p EXCEPT !.fx = None, !.waited = FALSE]
    BY <1>1, <1>3 DEF FxEnds
  <2>2. /\ t \in Projectors /\ t.on = p.on /\ t.event = p.event /\ t.views = p.views
        /\ t.fx = None /\ t.late = p.late /\ t.roulette = p.roulette
    BY <1>2, <2>1 DEF Projectors
  <2>3. OneAtATime(t)
    BY <1>2, <2>2, PendingFacts DEF OneAtATime
  <2> QED BY <1>1, <2>2, <2>3, PjDrawsKeeps DEF PjTimer
<1>4. CASE LateFx
  <2>1. PICK p1 : p1 = [p EXCEPT !.late = FALSE]
    OBVIOUS
  <2>2. /\ p1 \in Projectors /\ p1.on = p.on /\ p1.event = p.event /\ p1.views = p.views
        /\ ~p1.late /\ p1.roulette = p.roulette
    BY <1>2, <2>1 DEF Projectors
  <2>3. PICK p2 : p2 = ShowFx(p1, "judged")
    OBVIOUS
  <2>4. /\ p2 \in Projectors /\ p2.on = p1.on /\ p2.event = p1.event /\ p2.views = p1.views
        /\ p2.late = p1.late /\ p2.roulette = p1.roulette
    BY <2>2, <2>3, ShowFxFacts
  <2>5. p.late /\ t = Drawn(p2)
    BY <1>1, <1>4, <2>1, <2>3 DEF LateFx
  <2>6. /\ t \in Projectors /\ t.on = p2.on /\ t.event = p2.event /\ t.views = p2.views
        /\ t.fx = p2.fx /\ t.late = p2.late /\ t.roulette = p2.roulette
        /\ p2.fx # None /\ (p2.waited \/ ~Playing(p2)) => t.waited
        /\ Playing(t) <=> Playing(p2)
    BY <2>4, <2>5, DrawnFacts
  <2>7. OneAtATime(t)
    <3>1. t.views = p.views
      BY <2>2, <2>4, <2>6
    <3>2. Pending(t) <=> Pending(p)
      BY <1>2, <3>1, PendingFacts
    <3>3. ~t.late /\ t.roulette = p.roulette /\ p.roulette # "shown"
      BY <1>2, <2>2, <2>4, <2>5, <2>6 DEF OneAtATime
    <3> QED BY <1>2, <2>6, <3>2, <3>3 DEF OneAtATime
  <2> QED BY <1>1, <2>2, <2>4, <2>6, <2>7, PjDrawsKeeps DEF PjTimer
<1>5. CASE RouletteShows
  <2>1. t = [p EXCEPT !.roulette = "shown"] /\ p.roulette = "timed" /\ ~p.late
        /\ ~(Playing(p) /\ ~p.waited)
    BY <1>1, <1>5 DEF RouletteShows
  <2>2. /\ t \in Projectors /\ t.on = p.on /\ t.event = p.event /\ t.views = p.views
        /\ t.fx = p.fx /\ t.waited = p.waited /\ t.late = p.late /\ t.auto = p.auto
    BY <1>2, <2>1 DEF Projectors
  <2>3. (Pending(t) <=> Pending(p)) /\ (Playing(t) <=> Playing(p))
    <3>1. Pending(t) <=> Pending(p)
      BY <1>2, <2>2, PendingFacts
    <3>2. Active(t) = Active(p)
      BY <2>2, ActiveAlike
    <3> QED BY <2>2, <3>1, <3>2 DEF Playing
  <2>4. OneAtATime(t)
    BY <1>2, <2>1, <2>2, <2>3 DEF OneAtATime
  <2> QED BY <1>1, <2>2, <2>4, PjDrawsKeeps DEF PjTimer
<1> QED BY <1>3, <1>4, <1>5 DEF PjTimer
-----------------------------------------------------------------------------
(* Connections *)

LEMMA WelcomeFacts ==
    ASSUME event \in Events \cup {None}
    PROVE  /\ Welcome \in Bursts /\ Welcome.said /\ Welcome.callout = None /\ ~Welcome.late
           /\ Welcome.event = Summary(event)
           /\ event = None => DOMAIN Welcome.views = {}
           /\ event # None =>
                 DOMAIN Welcome.views = Games /\ \A g \in Games : Welcome.views[g] = event.rooms[g]
<1>1. PICK games \in SUBSET Games : games = IF event = None THEN {} ELSE Games
  OBVIOUS
<1>2. PICK b : b = Burst(event, TRUE, games, None, FALSE)
  OBVIOUS
<1>3. Sends(b, event, TRUE, games, None, FALSE)
  BY <1>2, BurstFacts
<1>4. Welcome = b
  BY <1>1, <1>2 DEF Welcome
<1> QED BY <1>1, <1>3, <1>4 DEF Sends

(* What is true is agreed with.                                            *)
LEMMA SummaryAgrees ==
    ASSUME NEW e \in Events \cup {None}, NEW u
    PROVE  /\ Agrees(Summary(e), e, u)
           /\ e # None => \A g \in Games : Alike(e.rooms[g], e.rooms[g], g, u)
<1>1. e # None => \A g \in Games : e.rooms[g] \in Views
  BY DEF Events
<1> QED BY <1>1, SummaryFacts, NullApart DEF Agrees, Alike

LEMMA WelcomeShows ==
    ASSUME event \in Events \cup {None}, NEW page, NEW q, q = <<Welcome>>, NEW u
    PROVE  q \in Seq(Bursts) /\ Shows(page, q, event, u)
<1>1. PICK b : b = Welcome
  OBVIOUS
<1>2. /\ b \in Bursts /\ b.said /\ b.event = Summary(event)
      /\ event # None => DOMAIN b.views = Games /\ \A g \in Games : b.views[g] = event.rooms[g]
  BY <1>1, WelcomeFacts
<1>3. q = <<b>> /\ q \in Seq(Bursts) /\ Len(q) = 1 /\ q[1] = b
  BY <1>1, <1>2
<1>4. 0 \in Nat /\ 0 + 1 = 1
  OBVIOUS
<1>5. ASSUME NEW old, NEW x, x = b.event PROVE SaidBy(q, 1, old, x)
  BY <1>2, <1>3, <1>4, <1>5, SaidByNext
<1>6. ASSUME NEW old, NEW g, g \in DOMAIN b.views, NEW v, v = b.views[g] PROVE ViewBy(q, 1, g, old, v)
  BY <1>2, <1>3, <1>4, <1>6, ViewByNext
<1>7. \E x : SaidBy(q, Len(q), page.event, x) /\ Agrees(x, event, u)
  BY <1>2, <1>3, <1>5, SummaryAgrees
<1>8. ASSUME event # None, NEW g \in Games
      PROVE  \E v : ViewBy(q, Len(q), g, ViewOf(page, g), v) /\ Alike(v, event.rooms[g], g, u)
  BY <1>2, <1>3, <1>6, <1>8, SummaryAgrees
<1> QED BY <1>3, <1>7, <1>8 DEF Shows

LEMMA WelcomeTogether ==
    ASSUME event \in Events \cup {None}, RoundOf(event), NEW page, Rounds(page, <<>>),
           NEW q, q = <<Welcome>>
    PROVE  Rounds(page, q) /\ Heralds(page, q)
<1>1. PICK b : b = Welcome
  OBVIOUS
<1>2. b \in Bursts /\ b.callout = None /\ ~b.late
  BY <1>1, WelcomeFacts
<1>3. q = <<b>> /\ Len(q) = 1 /\ q[1] = b /\ <<>> \in Seq(Bursts) /\ q = Append(<<>>, b)
  BY <1>1, <1>2
<1>4. PICK u, e : u = {} /\ e = event
  OBVIOUS
<1>5. Shows(page, q, e, u)
  BY <1>4, WelcomeShows
<1>6. Rounds(page, q)
  BY <1>2, <1>3, <1>4, <1>5, RoundsAppend
<1>7. Heralds(page, q)
  BY <1>2, <1>3 DEF Heralds
<1> QED BY <1>6, <1>7

LEMMA ConnectKeeps ==
    ASSUME ScreensInv, Connect
    PROVE  ScreensInv'
<1>1. /\ event' = event /\ up' = up /\ unsaid' = unsaid /\ asked' = asked /\ ops' = ops
      /\ event \in Events \cup {None} /\ RoundOf(event) /\ down \in [Screens -> Seq(Bursts)]
      /\ con \in Consoles /\ pj \in Projectors /\ OneAtATime(pj)
  BY DEF Connect, bounds, ScreensInv, HostInv, PageInv, WireInv
<1>2. PICK q : q = <<Welcome>>
  OBVIOUS
<1>3. q \in Seq(Bursts)
  BY <1>1, <1>2, WelcomeShows
<1>4. CASE ~con.on /\ con' = Rendered([con EXCEPT !.on = TRUE]) /\ UNCHANGED pj
           /\ down' = [down EXCEPT !["console"] = <<Welcome>>]
  <2>1. PICK t : t = [con EXCEPT !.on = TRUE]
    OBVIOUS
  <2>2. t \in Consoles /\ t.on
    BY <1>1, <2>1 DEF Consoles
  <2>3. con' \in Consoles /\ con'.on
    BY <1>4, <2>1, <2>2, RenderedFacts
  <2>4. /\ down'["console"] = q /\ down'["projector"] = down["projector"]
        /\ down' \in [Screens -> Seq(Bursts)]
    BY <1>1, <1>2, <1>3, <1>4, ScreenFacts
  <2>5. Shows(con', q, event, unsaid)
    BY <1>1, <1>2, WelcomeShows
  <2>6. WireInv'
    BY <1>1, <1>4, <2>3, <2>4, <2>5 DEF ScreensInv, WireInv
  <2> QED BY <1>1, <1>4, <2>3, <2>6 DEF ScreensInv, HostInv, UpInv, PageInv, CountInv
<1>5. CASE ~pj.on /\ pj' = [pj EXCEPT !.on = TRUE] /\ UNCHANGED con
           /\ down' = [down EXCEPT !["projector"] = <<Welcome>>]
  <2>1. PICK p, t : p = pj /\ t = pj'
    OBVIOUS
  <2>2. /\ t \in Projectors /\ t.on /\ t.event = p.event /\ t.views = p.views /\ t.auto = p.auto
        /\ t.fx = p.fx /\ t.waited = p.waited /\ t.late = p.late /\ t.roulette = p.roulette
    BY <1>1, <1>5, <2>1 DEF Projectors
  <2>3. OneAtATime(t)
    <3>1. Pending(t) <=> Pending(p)
      BY <1>1, <2>1, <2>2, PendingFacts
    <3>2. Active(t) = Active(p)
      BY <2>2, ActiveAlike
    <3> QED BY <1>1, <2>1, <2>2, <3>1, <3>2 DEF OneAtATime, Playing
  <2>4. /\ down'["projector"] = q /\ down'["console"] = down["console"]
        /\ down' \in [Screens -> Seq(Bursts)]
    BY <1>1, <1>2, <1>3, <1>5, ScreenFacts
  <2>5. Shows(t, q, event, unsaid)
    BY <1>1, <1>2, WelcomeShows
  <2>6. Rounds(t, <<>>)
    <3>1. Rounds(p, <<>>)
      BY <1>5, <2>1 DEF ScreensInv, WireInv
    <3> QED BY <2>2, <3>1, SamePage
  <2>7. Rounds(t, q) /\ Heralds(t, q)
    BY <1>1, <1>2, <2>6, WelcomeTogether
  <2>8. WireInv'
    BY <1>1, <1>5, <2>1, <2>2, <2>4, <2>5, <2>7 DEF ScreensInv, WireInv
  <2> QED BY <1>1, <1>5, <2>1, <2>2, <2>3, <2>8 DEF ScreensInv, HostInv, UpInv, PageInv, CountInv
<1> QED BY <1>4, <1>5 DEF Connect

(* A page that was loaded anew shows nothing, and says nothing wrong.      *)
LEMMA NewPages ==
    /\ NewConsole \in Consoles /\ ~NewConsole.on
    /\ NewProjector \in Projectors /\ ~NewProjector.on /\ NewProjector.event = None
    /\ NewProjector.views = <<>> /\ NewProjector.roulette = "off" /\ ~NewProjector.late
    /\ NewProjector.fx = None /\ ~NewProjector.waited
<1>1. <<>> \in Parts
  BY NoParts
<1>2. "yutnori" \in Games /\ {} \subseteq Games
  BY DEF Games
<1>3. NewConsole \in Consoles /\ ~NewConsole.on
  BY <1>1 DEF NewConsole, Consoles
<1> QED BY <1>1, <1>2, <1>3 DEF NewProjector, Projectors

LEMMA NothingTogether ==
    ASSUME NEW page, page.event = None
    PROVE  Rounds(page, <<>>) /\ Heralds(page, <<>>)
<1>1. Heralds(page, <<>>)
  BY DEF Heralds
<1>2. \A n \in 0..Len(<<>>) : n = 0
  OBVIOUS
<1>3. PICK old : old = page.event
  OBVIOUS
<1>4. \A x : SaidBy(<<>>, 0, old, x) => x = None
  BY <1>3, SaidByNone
<1>5. Rounds(page, <<>>)
  BY <1>2, <1>3, <1>4 DEF Rounds, OfRound
<1> QED BY <1>1, <1>5
LEMMA LoseKeeps ==
    ASSUME ScreensInv, Lose
    PROVE  ScreensInv'
<1>1. /\ event' = event /\ unsaid' = unsaid /\ asked' = asked /\ ops' = ops
      /\ down \in [Screens -> Seq(Bursts)]
      /\ con \in Consoles /\ pj \in Projectors /\ OneAtATime(pj)
  BY DEF Lose, ScreensInv, HostInv, PageInv, WireInv
<1>2. <<>> \in Seq(Bursts)
  OBVIOUS
<1>3. CASE /\ con' \in {Rendered([con EXCEPT !.on = FALSE]), NewConsole}
           /\ down' = [down EXCEPT !["console"] = <<>>]
           /\ up' = <<>>
           /\ UNCHANGED pj
  <2>1. PICK t : t = [con EXCEPT !.on = FALSE]
    OBVIOUS
  <2>2. t \in Consoles /\ ~t.on
    BY <1>1, <2>1 DEF Consoles
  <2>3. con' \in Consoles /\ ~con'.on
    BY <1>3, <2>1, <2>2, RenderedFacts, NewPages
  <2>4. /\ down'["console"] = <<>> /\ down'["projector"] = down["projector"]
        /\ down' \in [Screens -> Seq(Bursts)]
    BY <1>1, <1>2, <1>3, ScreenFacts
  <2>5. WireInv'
    BY <1>1, <1>3, <2>3, <2>4 DEF ScreensInv, WireInv
  <2>6. UpInv'
    BY <1>3 DEF UpInv, RequestsAsked
  <2> QED BY <1>1, <1>3, <2>3, <2>5, <2>6 DEF ScreensInv, HostInv, PageInv, CountInv
<1>4. CASE /\ pj' \in {[pj EXCEPT !.on = FALSE], NewProjector}
           /\ down' = [down EXCEPT !["projector"] = <<>>]
           /\ UNCHANGED <<up, con>>
  <2>1. PICK p, t : p = pj /\ t = pj'
    OBVIOUS
  <2>2. t \in Projectors /\ ~t.on /\ OneAtATime(t) /\ Rounds(t, <<>>) /\ Heralds(t, <<>>)
    <3>1. CASE t = [p EXCEPT !.on = FALSE]
      <4>1. /\ t \in Projectors /\ ~t.on /\ t.event = p.event /\ t.views = p.views /\ t.auto = p.auto
            /\ t.fx = p.fx /\ t.waited = p.waited /\ t.late = p.late /\ t.roulette = p.roulette
        BY <1>1, <2>1, <3>1 DEF Projectors
      <4>2. Pending(t) <=> Pending(p)
        BY <1>1, <2>1, <4>1, PendingFacts
      <4>3. Active(t) = Active(p)
        BY <4>1, ActiveAlike
      <4>4. OneAtATime(t)
        BY <1>1, <2>1, <4>1, <4>2, <4>3 DEF OneAtATime, Playing
      <4>5. Rounds(p, <<>>)
        <5>1. PICK q0 : q0 = down["projector"]
          OBVIOUS
        <5>2. Rounds(p, q0) /\ q0 \in Seq(Bursts)
          BY <1>1, <2>1, <5>1, ScreenFacts DEF ScreensInv, WireInv
        <5> QED BY <5>2, RoundsNow
      <4>6. Rounds(t, <<>>)
        BY <4>1, <4>5, SamePage
      <4>7. Heralds(t, <<>>)
        BY DEF Heralds
      <4> QED BY <4>1, <4>4, <4>6, <4>7
    <3>2. CASE t = NewProjector
      <4>1. ~Pending(t)
        BY <3>2, NewPages, NoParts DEF Pending, ViewOf
      <4> QED BY <3>2, <4>1, NewPages, NothingTogether DEF OneAtATime
    <3> QED BY <1>4, <2>1, <3>1, <3>2
  <2>3. /\ down'["projector"] = <<>> /\ down'["console"] = down["console"]
        /\ down' \in [Screens -> Seq(Bursts)]
    BY <1>1, <1>2, <1>4, ScreenFacts
  <2>4. WireInv'
    BY <1>1, <1>4, <2>1, <2>2, <2>3 DEF ScreensInv, WireInv
  <2> QED BY <1>1, <1>4, <2>1, <2>2, <2>4 DEF ScreensInv, HostInv, UpInv, PageInv, CountInv
<1> QED BY <1>3, <1>4 DEF Lose

-----------------------------------------------------------------------------
(* What the operator clicks *)

LEMMA RequestsAskedAppend ==
    ASSUME NEW q \in Seq(Requests), NEW m \in Requests, NEW r, r = Append(q, m), NEW by, NEW by2,
           RequestsAsked(q, by), by \subseteq by2,
           m.t = "reveal" /\ m.step \in 2..LastStep => <<m.g, m.step>> \in by2
    PROVE  r \in Seq(Requests) /\ RequestsAsked(r, by2)
<1>1. /\ r \in Seq(Requests) /\ Len(r) = Len(q) + 1 /\ Len(q) \in Nat
      /\ r[Len(q) + 1] = m /\ \A i \in 1..Len(q) : r[i] = q[i]
  BY AppendFacts
<1>2. \A i \in 1..Len(r) : i \in 1..Len(q) \/ i = Len(q) + 1
  BY <1>1
<1> QED BY <1>1, <1>2 DEF RequestsAsked

(* A request is sent, and the button's step noted: neither the host nor what
   is on its way to the screens changes.                                   *)
LEMMA SendKeeps ==
    ASSUME ScreensInv, NEW m \in Requests, Send(m), asked \subseteq asked',
           m.t = "reveal" /\ m.step \in 2..LastStep => <<m.g, m.step>> \in asked',
           con' \in Consoles, con'.on = con.on, con'.event = con.event, con'.views = con.views
    PROVE  ScreensInv'
<1>1. event' = event /\ down' = down /\ pj' = pj /\ unsaid' = unsaid /\ ops' = ops
      /\ up' = Append(up, m)
  BY DEF Send
<1>2. PICK t, as : t = con' /\ as = asked'
  OBVIOUS
<1>3. con.on => Shows(t, down["console"], event, unsaid)
  BY <1>2, SamePage DEF ScreensInv, WireInv
<1>4. WireInv'
  BY <1>1, <1>2, <1>3 DEF ScreensInv, WireInv
<1>5. UpInv'
  <2>1. PICK q, r : q = up /\ r = up'
    OBVIOUS
  <2>2. r \in Seq(Requests) /\ RequestsAsked(r, as)
    BY <1>1, <1>2, <2>1, RequestsAskedAppend DEF ScreensInv, UpInv
  <2> QED BY <1>2, <2>1, <2>2 DEF UpInv
<1>6. HostInv'
  BY <1>1 DEF ScreensInv, HostInv, StepsAsked
<1> QED BY <1>1, <1>4, <1>5, <1>6 DEF ScreensInv, PageInv, CountInv

LEMMA DrumEndsKeeps ==
    ASSUME ScreensInv, NEW g \in Games, DrumEnds(g)
    PROVE  ScreensInv'
<1>1. PICK m : m = [t |-> "reveal", g |-> g, step |-> 1]
  OBVIOUS
<1>2. m \in Requests /\ m.t = "reveal" /\ m.step = 1
  BY <1>1 DEF Requests, LastStep
<1>3. con' = [con EXCEPT !.drum[g] = "spent"] /\ con \in Consoles /\ Send(m) /\ asked' = asked
  BY <1>1 DEF DrumEnds, ScreensInv, PageInv
<1>4. con' \in Consoles /\ con'.on = con.on /\ con'.event = con.event /\ con'.views = con.views
  BY <1>3 DEF Consoles
<1>5. ~(m.step \in 2..LastStep)
  BY <1>2
<1> QED BY <1>2, <1>3, <1>4, <1>5, SendKeeps

LEMMA ClickRevealKeeps ==
    ASSUME ScreensInv, NEW g \in Games, ClickReveal(g)
    PROVE  ScreensInv'
<1>1. PICK view : view = ViewOf(con, g)
  OBVIOUS
<1>2. PICK step : step = IF view.state = "ENDED" THEN 0 ELSE view.step + 1
  OBVIOUS
<1>3. PICK m : m = [t |-> "reveal", g |-> g, step |-> step]
  OBVIOUS
<1>4. /\ view # None /\ step <= LastStep /\ Send(m) /\ asked' = asked \cup {<<g, step>>}
      /\ con' = con
  BY <1>1, <1>2, <1>3 DEF ClickReveal, Clicked
<1>5. con \in Consoles /\ view \in Views
  BY <1>1, <1>4, ViewOfFacts DEF ScreensInv, PageInv, Consoles
<1>6. view.step \in 0..LastStep
  BY <1>5 DEF Views
<1>7. step \in 0..LastStep
  BY <1>2, <1>4, <1>6 DEF LastStep
<1>8. m \in Requests /\ m.g = g /\ m.step = step
  BY <1>3, <1>7 DEF Requests
<1> QED BY <1>4, <1>5, <1>8, SendKeeps

LEMMA ClickSpotlightKeeps ==
    ASSUME ScreensInv, NEW n \in Winners \cup {None}, ClickSpotlight(n)
    PROVE  ScreensInv'
<1>1. PICK view : view = ViewOf(con, "bingo")
  OBVIOUS
<1>2. PICK m : m = [t |-> "spotlight", n |-> n, of |-> view.round]
  OBVIOUS
<1>3. view # None /\ Send(m) /\ asked' = asked /\ con' = con
  BY <1>1, <1>2 DEF ClickSpotlight, Clicked
<1>4. con \in Consoles /\ view \in Views
  BY <1>1, <1>3, ViewOfFacts DEF ScreensInv, PageInv, Consoles
<1>5. m \in Requests /\ m.t = "spotlight"
  BY <1>2, <1>4 DEF Requests, Views
<1> QED BY <1>3, <1>4, <1>5, SendKeeps

LEMMA ClickPrizeKeeps ==
    ASSUME ScreensInv, ClickPrize
    PROVE  ScreensInv'
<1>1. PICK m : m = [t |-> "prize", open |-> ~con.event.prize]
  OBVIOUS
<1>2. Send(m) /\ asked' = asked /\ con' = con
  BY <1>1 DEF ClickPrize, Clicked
<1>3. con \in Consoles
  BY DEF ScreensInv, PageInv
<1>4. (~con.event.prize) \in BOOLEAN
  OBVIOUS
<1>5. m \in Requests /\ m.t = "prize"
  BY <1>1, <1>4 DEF Requests
<1> QED BY <1>2, <1>3, <1>5, SendKeeps
-----------------------------------------------------------------------------
(* What the host sends of a change *)

LEMMA BurstTells ==
    ASSUME NEW e0 \in Events \cup {None}, NEW e \in Events \cup {None}, NEW u, NEW u2,
           NEW said \in BOOLEAN, NEW games \in SUBSET Games, NEW callout, NEW late,
           NEW b, Sends(b, e, said, games, callout, late),
           e # None => \A g \in Games \ games : e0 # None /\ e.rooms[g] = e0.rooms[g],
           ~said => /\ e0 # None /\ e # None
                    /\ e.setting = e0.setting /\ e.spot = e0.spot /\ e.spotOf = e0.spotOf
                    /\ e.prize = e0.prize
                    /\ "lock" \notin u2 => "lock" \notin u /\ e.lock = e0.lock
                    /\ "label" \notin u2 =>
                          "label" \notin u /\ \A g \in Games : e.rooms[g].state = e0.rooms[g].state,
           "bingo" \notin games /\ "online" \in u => "online" \in u2
    PROVE  Tells(b, e0, u, e, u2)
<1>1. /\ b.said <=> said
      /\ said => b.event = Summary(e)
      /\ e # None => DOMAIN b.views = games /\ \A g \in games : b.views[g] = e.rooms[g]
  BY DEF Sends, Bursts
<1>2. b.said => Agrees(b.event, e, u2)
  BY <1>1, SummaryAgrees
<1>3. ASSUME ~b.said, NEW x, Agrees(x, e0, u) PROVE Agrees(x, e, u2)
  <2>1. PICK l0, l : l0 = [g \in Games |-> e0.rooms[g].state] /\ l = [g \in Games |-> e.rooms[g].state]
    OBVIOUS
  <2>2. "label" \notin u2 => l = l0
    BY <1>1, <1>3, <2>1
  <2>3. /\ x # None /\ x.setting = e0.setting /\ x.spot = e0.spot /\ x.spotOf = e0.spotOf
        /\ x.prize = e0.prize
        /\ "lock" \notin u => x.lock = e0.lock
        /\ "label" \notin u => x.label = l0
    BY <1>1, <1>3, <2>1 DEF Agrees
  <2> QED BY <1>1, <1>3, <2>1, <2>2, <2>3 DEF Agrees
<1>4. ASSUME e # None, NEW g \in Games
      PROVE  /\ g \in DOMAIN b.views => Alike(b.views[g], e.rooms[g], g, u2)
             /\ g \notin DOMAIN b.views =>
                   e0 # None /\ \A v : Alike(v, e0.rooms[g], g, u) => Alike(v, e.rooms[g], g, u2)
  <2>1. CASE g \in games
    BY <1>1, <1>4, <2>1, SummaryAgrees
  <2>2. CASE g \notin games
    <3>1. e0 # None /\ e.rooms[g] = e0.rooms[g]
      BY <1>4, <2>2
    <3>2. g = "bingo" /\ "online" \in u => "online" \in u2
      BY <2>2
    <3> QED BY <1>1, <1>4, <2>2, <3>1, <3>2 DEF Alike
  <2> QED BY <2>1, <2>2
<1> QED BY <1>2, <1>3, <1>4 DEF Tells

(* A callout and what it is about: what has to be true of the views.       *)
LEMMA BurstHerald ==
    ASSUME NEW e0, NEW e, NEW said, NEW games, NEW callout, NEW late,
           NEW b, Sends(b, e, said, games, callout, late),
           callout # None \/ late => "yutnori" \in games /\ e # None,
           late => ~e.rooms["yutnori"].mini,
           callout # None /\ e.rooms["yutnori"].mini => e0 # None /\ ~e0.rooms["yutnori"].mini
    PROVE  Herald(b, e0)
<1>1. b.callout = callout /\ b.late = late
  BY DEF Sends
<1>2. e # None => DOMAIN b.views = games /\ \A g \in games : b.views[g] = e.rooms[g]
  BY DEF Sends
<1> QED BY <1>1, <1>2 DEF Herald

LEMMA LeavesKeeps ==
    ASSUME HostInv, WireInv, CountInv, con' = con, pj' = pj,
           NEW e \in Events \cup {None}, NEW said \in BOOLEAN, NEW games \in SUBSET Games,
           NEW callout \in Callouts \cup {None}, NEW late \in BOOLEAN,
           Leaves(e, said, games, callout, late), RoundOf(e),
           e # None => \A g \in Games \ games : event # None /\ e.rooms[g] = event.rooms[g],
           ~said => /\ event # None /\ e # None
                    /\ e.setting = event.setting /\ e.spot = event.spot /\ e.spotOf = event.spotOf
                    /\ e.prize = event.prize
                    /\ \A g \in Games : e.rooms[g].state = event.rooms[g].state,
           callout # None \/ late => "yutnori" \in games /\ e # None,
           late => ~e.rooms["yutnori"].mini,
           callout # None /\ e.rooms["yutnori"].mini => event # None /\ ~event.rooms["yutnori"].mini
    PROVE  WireInv' /\ unsaid' \subseteq {"lock", "label", "online"}
<1>1. PICK b : b = Burst(e, said, games, callout, late)
  OBVIOUS
<1>2. Sends(b, e, said, games, callout, late)
  BY <1>1, BurstFacts
<1>3. b \in Bursts /\ Push(b) /\ event' = e
  BY <1>1, <1>2 DEF Leaves, Sends
<1>4. PICK e0, u, u2 : e0 = event /\ u = unsaid /\ u2 = unsaid' /\ e0 \in Events \cup {None}
  BY DEF HostInv
<1>5. u2 = (IF said THEN u \ {"lock", "label"}
            ELSE u \cup (IF e0 # None /\ e.lock # e0.lock THEN {"lock"} ELSE {}))
           \ (IF "bingo" \in games THEN {"online"} ELSE {})
  BY <1>4 DEF Leaves
<1>6. /\ ~said => /\ "lock" \notin u2 => "lock" \notin u /\ e.lock = e0.lock
                  /\ "label" \notin u2 => "label" \notin u
      /\ "bingo" \notin games /\ "online" \in u => "online" \in u2
      /\ u2 \subseteq u \cup {"lock"}
  BY <1>4, <1>5
<1>7. Tells(b, e0, u, e, u2)
  <2>1. ~said => /\ e0 # None /\ e # None
                 /\ e.setting = e0.setting /\ e.spot = e0.spot /\ e.spotOf = e0.spotOf
                 /\ e.prize = e0.prize
                 /\ "lock" \notin u2 => "lock" \notin u /\ e.lock = e0.lock
                 /\ "label" \notin u2 =>
                       "label" \notin u /\ \A g \in Games : e.rooms[g].state = e0.rooms[g].state
    BY <1>4, <1>6
  <2>2. e # None => \A g \in Games \ games : e0 # None /\ e.rooms[g] = e0.rooms[g]
    BY <1>4
  <2> QED BY <1>2, <1>4, <1>6, <2>1, <2>2, BurstTells
<1>8. Herald(b, e0)
  <2>1. callout # None /\ e.rooms["yutnori"].mini => e0 # None /\ ~e0.rooms["yutnori"].mini
    BY <1>4
  <2> QED BY <1>2, <2>1, BurstHerald
<1>9. WireInv'
  BY <1>3, <1>4, <1>7, <1>8, PushKeeps
<1> QED BY <1>4, <1>6, <1>9 DEF CountInv

(* A room of the event is replaced, and who has the screen.                *)
WithRoom(e, g, room, l) == [e EXCEPT !.rooms[g] = room, !.lock = l]

Placed(n, e, g, room, l) ==
    /\ n \in Events /\ n # None
    /\ n.setting = e.setting /\ n.lock = l /\ n.spot = e.spot /\ n.spotOf = e.spotOf
    /\ n.prize = e.prize /\ n.rooms[g] = room
    /\ \A h \in Games \ {g} : n.rooms[h] = e.rooms[h]

LEMMA RoomFacts ==
    ASSUME NEW e \in Events, NEW g \in Games, NEW room \in Views, NEW l \in Games \cup {None},
           NEW n, n = WithRoom(e, g, room, l)
    PROVE  Placed(n, e, g, room, l)
<1>1. PICK rs : rs = [e.rooms EXCEPT ![g] = room]
  OBVIOUS
<1>2. e.rooms \in [Games -> Views]
  BY DEF Events
<1>3. rs \in [Games -> Views] /\ rs[g] = room /\ \A h \in Games \ {g} : rs[h] = e.rooms[h]
  BY <1>1, <1>2
<1>4. n = [e EXCEPT !.rooms = rs, !.lock = l]
  BY <1>1 DEF WithRoom
<1>5. /\ n \in Events /\ n.setting = e.setting /\ n.lock = l /\ n.spot = e.spot
      /\ n.spotOf = e.spotOf /\ n.prize = e.prize /\ n.rooms = rs
  BY <1>3, <1>4 DEF Events
<1> QED BY <1>3, <1>5, NullApart DEF Placed

LEMMA ReleasedFacts ==
    ASSUME NEW lock \in Games \cup {None}, NEW g, NEW room
    PROVE  Released(lock, g, room) \in Games \cup {None}
BY DEF Released

LEMMA AcceptedKeeps ==
    ASSUME HostInv, WireInv, CountInv, con' = con, pj' = pj, asked \subseteq asked', event # None,
           NEW e \in Events, e.rooms = event.rooms, e.spot = event.spot, e.spotOf = event.spotOf,
           NEW g \in Games, NEW room \in Views, room.round = event.rooms[g].round,
           NEW callout \in Callouts \cup {None}, NEW late \in BOOLEAN,
           Accepted(e, g, room, callout, late),
           \A step \in 2..LastStep :
               room.state = "REVEAL" /\ room.step >= step => <<g, step>> \in asked',
           callout # None \/ late => g = "yutnori",
           late => ~room.mini,
           callout # None /\ room.mini => ~event.rooms[g].mini
    PROVE  HostInv' /\ WireInv' /\ unsaid' \subseteq {"lock", "label", "online"}
<1>1. PICK l : l = Released(e.lock, g, room)
  OBVIOUS
<1>2. l \in Games \cup {None}
  BY <1>1, ReleasedFacts DEF Events
<1>3. PICK n : n = WithRoom(e, g, room, l)
  OBVIOUS
<1>4. /\ n \in Events /\ n # None /\ n.spot = e.spot /\ n.spotOf = e.spotOf
      /\ n.rooms[g] = room
      /\ \A h \in Games \ {g} : n.rooms[h] = e.rooms[h]
  <2>1. Placed(n, e, g, room, l)
    BY <1>2, <1>3, RoomFacts
  <2> QED BY <2>1 DEF Placed
<1>5. Leaves(n, TRUE, {g}, callout, late)
  BY <1>1, <1>3 DEF Accepted, WithRoom
<1>6. event' = n
  BY <1>5 DEF Leaves
<1>7. RoundOf(n)
  <2>1. n.rooms["bingo"].round = event.rooms["bingo"].round
    BY <1>4 DEF Games
  <2> QED BY <1>4, <2>1 DEF HostInv, RoundOf
<1>8. StepsAsked(n, asked')
  BY <1>4 DEF HostInv, StepsAsked
<1>9. \A h \in Games \ {g} : event # None /\ n.rooms[h] = event.rooms[h]
  BY <1>4
<1>10. {g} \in SUBSET Games /\ n \in Events \cup {None}
  BY <1>4
<1>11. /\ callout # None \/ late => "yutnori" \in {g} /\ n # None
       /\ late => ~n.rooms["yutnori"].mini
       /\ callout # None /\ n.rooms["yutnori"].mini => event # None /\ ~event.rooms["yutnori"].mini
  BY <1>4
<1>12. WireInv' /\ unsaid' \subseteq {"lock", "label", "online"}
  BY <1>5, <1>7, <1>9, <1>10, <1>11, LeavesKeeps
<1> QED BY <1>4, <1>6, <1>7, <1>8, <1>12 DEF HostInv
-----------------------------------------------------------------------------
(* The host's handlers *)

Handling == HostInv /\ WireInv /\ CountInv /\ con' = con /\ pj' = pj /\ asked \subseteq asked'
Handled  == HostInv' /\ WireInv' /\ unsaid' \subseteq {"lock", "label", "online"}

LEMMA EventTypes ==
    ASSUME HostInv, event # None
    PROVE  event \in Events
BY DEF HostInv

LEMMA RoomTypes ==
    ASSUME HostInv, event # None, NEW g \in Games
    PROVE  event \in Events /\ event.rooms \in [Games -> Views] /\ event.rooms[g] \in Views
           /\ event.lock \in Games \cup {None}
BY DEF HostInv, Events

(* A room that goes on to a state that is no reveal.                       *)
LEMMA MovesKeeps ==
    ASSUME Handling, event # None, NEW g \in Games,
           NEW room \in Views, room.round = event.rooms[g].round, room.state # "REVEAL",
           NEW callout \in Callouts \cup {None}, NEW late \in BOOLEAN,
           Accepted(event, g, room, callout, late),
           callout # None \/ late => g = "yutnori",
           late => ~room.mini,
           callout # None /\ room.mini => ~event.rooms[g].mini
    PROVE  Handled
<1>1. PICK e : e = event
  OBVIOUS
<1>2. e \in Events /\ Accepted(e, g, room, callout, late)
  BY <1>1, RoomTypes DEF Handling
<1> QED BY <1>1, <1>2, AcceptedKeeps DEF Handling, Handled

LEMMA BecomeKeeps ==
    ASSUME Handling, NEW g \in Games, NEW from, NEW to \in States, to # "REVEAL", Become(g, from, to)
    PROVE  Handled
<1>1. event # None
  BY DEF Become
<1>2. PICK old \in Views : old = event.rooms[g]
  BY <1>1, RoomTypes DEF Handling
<1>3. PICK room : room = [old EXCEPT !.state = to]
  OBVIOUS
<1>4. room \in Views /\ room.round = old.round /\ room.state = to
  BY <1>3 DEF Views
<1>5. Accepted(event, g, room, None, FALSE)
  BY <1>2, <1>3 DEF Become
<1> QED BY <1>1, <1>2, <1>4, <1>5, MovesKeeps

LEMMA MoveOnKeeps ==
    ASSUME Handling, NEW g \in Games, MoveOn(g)
    PROVE  Handled
<1>1. \A s \in {"LOBBY", "RUNNING", "ENDED"} : s \in States /\ s # "REVEAL"
  BY DEF States
<1> QED BY <1>1, BecomeKeeps DEF MoveOn

LEMMA PlayKeeps ==
    ASSUME Handling, NEW mini \in BOOLEAN, NEW then \in BOOLEAN,
           NEW callout \in Callouts \cup {None}, NEW late \in BOOLEAN,
           Play(mini, then, callout, late), late => ~then, callout # None /\ then => ~mini
    PROVE  Handled
<1>1. event # None /\ "yutnori" \in Games
  BY DEF Play, Games
<1>2. PICK old \in Views : old = event.rooms["yutnori"]
  BY <1>1, RoomTypes DEF Handling
<1>3. PICK room : room = [old EXCEPT !.mini = then]
  OBVIOUS
<1>4. /\ room \in Views /\ room.round = old.round /\ room.state = old.state
      /\ room.mini <=> then
  BY <1>3 DEF Views
<1>5. old.state = "RUNNING" /\ (old.mini <=> mini)
  BY <1>2 DEF Play
<1>6. Accepted(event, "yutnori", room, callout, late)
  BY <1>2, <1>3 DEF Play
<1> QED BY <1>1, <1>2, <1>4, <1>5, <1>6, MovesKeeps

LEMMA PlaysKeep ==
    ASSUME Handling, Throw \/ Move \/ Judge
    PROVE  Handled
<1>1. "throw" \in Callouts /\ "capture" \in Callouts /\ "minigame" \in Callouts
  BY DEF Callouts
<1>2. CASE Throw
  BY <1>1, <1>2, PlayKeeps DEF Throw
<1>3. CASE Move
  BY <1>1, <1>3, PlayKeeps DEF Move
<1>4. CASE Judge
  BY <1>1, <1>4, PlayKeeps DEF Judge
<1> QED BY <1>2, <1>3, <1>4

(* A reveal opens the step after the one that is open, or the podium.      *)
LEMMA RevealsKeeps ==
    ASSUME Handling, NEW g \in Games, NEW step, Reveals(g, step),
           step \in 2..LastStep => <<g, step>> \in asked'
    PROVE  Handled
<1>1. event # None
  BY DEF Reveals
<1>2. PICK old \in Views : old = event.rooms[g]
  BY <1>1, RoomTypes DEF Handling
<1>3. (old.state = "ENDED" /\ step = 0)
      \/ (old.state = "REVEAL" /\ step = old.step + 1 /\ step <= LastStep)
  BY <1>2 DEF Reveals, Revealable, AskedStep
<1>4. old.step \in 0..LastStep /\ step \in 0..LastStep
  BY <1>3 DEF Views, LastStep
<1>5. PICK room : room = [old EXCEPT !.state = "REVEAL", !.step = step]
  OBVIOUS
<1>6. room \in Views /\ room.round = old.round /\ room.step = step
  BY <1>4, <1>5 DEF Views, States
<1>7. PICK e : e = [event EXCEPT !.lock = g]
  OBVIOUS
<1>8. e \in Events /\ e.rooms = event.rooms /\ e.spot = event.spot /\ e.spotOf = event.spotOf
  BY <1>1, <1>7, RoomTypes DEF Handling, Events
<1>9. Accepted(e, g, room, None, FALSE)
  BY <1>2, <1>5, <1>7 DEF Reveals, AskedStep
<1>10. ASSUME NEW s \in 2..LastStep, step >= s PROVE <<g, s>> \in asked'
  <2>1. CASE s = step
    BY <1>4, <1>10, <2>1
  <2>2. CASE s # step
    <3>1. old.state = "REVEAL" /\ old.step >= s
      BY <1>3, <1>4, <1>10, <2>2 DEF LastStep
    <3>2. <<g, s>> \in asked
      BY <1>1, <1>2, <3>1 DEF Handling, HostInv, StepsAsked
    <3> QED BY <3>2 DEF Handling
  <2> QED BY <2>1, <2>2
<1> QED BY <1>1, <1>2, <1>6, <1>8, <1>9, <1>10, AcceptedKeeps DEF Handling, Handled

(* What of a change nobody is told, a screen is not held to show.          *)
LEMMA UntoldChange ==
    ASSUME NEW e0 \in Events, NEW e \in Events, NEW u, NEW u2, u \subseteq u2,
           e.setting = e0.setting, e.spot = e0.spot, e.spotOf = e0.spotOf, e.prize = e0.prize,
           "lock" \notin u2 => e.lock = e0.lock,
           \A g \in Games : /\ e.rooms[g].state = e0.rooms[g].state
                            /\ e.rooms[g].mini = e0.rooms[g].mini
                            /\ e.rooms[g].round = e0.rooms[g].round
                            /\ (g = "bingo" /\ "online" \in u2) \/ e.rooms[g] = e0.rooms[g]
    PROVE  Untold(e0, u, e, u2)
<1>1. e0 # None /\ e # None
  BY NullApart
<1>2. PICK l0, l : l0 = [g \in Games |-> e0.rooms[g].state] /\ l = [g \in Games |-> e.rooms[g].state]
  OBVIOUS
<1>3. l = l0
  BY <1>2
<1>4. ASSUME NEW x, Agrees(x, e0, u) PROVE Agrees(x, e, u2)
  BY <1>1, <1>2, <1>3, <1>4 DEF Agrees
<1>5. ASSUME NEW g \in Games, NEW v, Alike(v, e0.rooms[g], g, u) PROVE Alike(v, e.rooms[g], g, u2)
  BY <1>5 DEF Alike
<1> QED BY <1>1, <1>4, <1>5 DEF Untold

LEMMA SeizedFacts ==
    ASSUME HostInv, event # None, NEW g \in Games, NEW u2,
           u2 = unsaid \cup (IF event.lock = g THEN {} ELSE {"lock"})
    PROVE  /\ SeizedOnly(g) \in Events \cup {None} /\ RoundOf(SeizedOnly(g))
           /\ \A by : asked \subseteq by => StepsAsked(SeizedOnly(g), by)
           /\ SeizedOnly(g).lock = g /\ Untold(event, unsaid, SeizedOnly(g), u2)
<1>1. PICK e : e = SeizedOnly(g)
  OBVIOUS
<1>2. PICK e0 \in Events : e0 = event
  BY RoomTypes
<1>3. e = [e0 EXCEPT !.lock = g]
  BY <1>1, <1>2 DEF SeizedOnly
<1>4. /\ e \in Events /\ e.setting = e0.setting /\ e.spot = e0.spot /\ e.spotOf = e0.spotOf
      /\ e.prize = e0.prize /\ e.rooms = e0.rooms /\ e.lock = g
  BY <1>3 DEF Events
<1>5. PICK u : u = unsaid
  OBVIOUS
<1>6. u \subseteq u2 /\ ("lock" \notin u2 => e.lock = e0.lock)
  BY <1>2, <1>4, <1>5
<1>7. Untold(e0, u, e, u2)
  BY <1>4, <1>6, UntoldChange
<1>8. RoundOf(e)
  BY <1>2, <1>4 DEF HostInv, RoundOf
<1>9. \A by : asked \subseteq by => StepsAsked(e, by)
  BY <1>2, <1>4 DEF HostInv, StepsAsked
<1> QED BY <1>1, <1>2, <1>4, <1>5, <1>7, <1>8, <1>9

LEMMA LeaveKeeps ==
    ASSUME Handling, Leave
    PROVE  Handled
<1>1. event # None /\ "bingo" \in Games
  BY DEF Leave, Games
<1>2. PICK e0 \in Events : e0 = event
  BY <1>1, RoomTypes DEF Handling
<1>3. PICK old \in Views : old = e0.rooms["bingo"]
  BY <1>1, <1>2, RoomTypes DEF Handling
<1>4. PICK room : room = [old EXCEPT !.online = FALSE]
  OBVIOUS
<1>5. /\ room \in Views /\ room.state = old.state /\ room.mini = old.mini
      /\ room.round = old.round /\ room.step = old.step
  BY <1>4 DEF Views
<1>6. PICK l : l = Released(e0.lock, "bingo", old)
  OBVIOUS
<1>7. l \in Games \cup {None}
  BY <1>6, ReleasedFacts DEF Events
<1>8. PICK n : n = WithRoom(e0, "bingo", room, l)
  OBVIOUS
<1>9. /\ n \in Events /\ n # None
      /\ n.setting = e0.setting /\ n.lock = l /\ n.spot = e0.spot /\ n.spotOf = e0.spotOf
      /\ n.prize = e0.prize /\ n.rooms["bingo"] = room
      /\ \A h \in Games \ {"bingo"} : n.rooms[h] = e0.rooms[h]
  <2>1. PICK g \in Games : g = "bingo"
    BY <1>1
  <2>2. n = WithRoom(e0, g, room, l)
    BY <1>8, <2>1
  <2>3. Placed(n, e0, g, room, l)
    BY <1>2, <1>5, <1>7, <2>2, RoomFacts
  <2> QED BY <2>1, <2>3 DEF Placed
<1>10. n = [event EXCEPT !.rooms["bingo"].online = FALSE, !.lock = l]
  <2>1. n = [e0 EXCEPT !.rooms["bingo"] = [e0.rooms["bingo"] EXCEPT !.online = FALSE], !.lock = l]
    BY <1>3, <1>4, <1>8 DEF WithRoom
  <2> QED BY <1>2, <2>1
<1>11. Silently(n, {"online"} \cup (IF l = e0.lock THEN {} ELSE {"lock"}))
  BY <1>2, <1>3, <1>6, <1>10 DEF Leave
<1>12. PICK u, u2 : u = unsaid /\ u2 = unsaid'
  OBVIOUS
<1>13. /\ event' = n /\ down' = down /\ u \subseteq u2 /\ "online" \in u2
       /\ u2 \subseteq u \cup {"online", "lock"} /\ ("lock" \notin u2 => n.lock = e0.lock)
  BY <1>9, <1>11, <1>12 DEF Silently
<1>14. Untold(e0, u, n, u2)
  <2>1. \A g \in Games : /\ n.rooms[g].state = e0.rooms[g].state
                         /\ n.rooms[g].mini = e0.rooms[g].mini
                         /\ n.rooms[g].round = e0.rooms[g].round
                         /\ (g = "bingo" /\ "online" \in u2) \/ n.rooms[g] = e0.rooms[g]
    BY <1>3, <1>5, <1>9, <1>13
  <2> QED BY <1>9, <1>13, <2>1, UntoldChange
<1>15. WireInv'
  BY <1>2, <1>12, <1>13, <1>14, StillKeeps DEF Handling
<1>16. RoundOf(n)
  BY <1>1, <1>2, <1>3, <1>5, <1>9 DEF Handling, HostInv, RoundOf
<1>17. StepsAsked(n, asked')
  <2>1. \A g \in Games : n.rooms[g].state = e0.rooms[g].state /\ n.rooms[g].step = e0.rooms[g].step
    BY <1>3, <1>5, <1>9
  <2> QED BY <1>1, <1>2, <2>1 DEF Handling, HostInv, StepsAsked
<1> QED BY <1>9, <1>12, <1>13, <1>15, <1>16, <1>17 DEF Handled, Handling, HostInv, CountInv

LEMMA ArriveKeeps ==
    ASSUME Handling, Arrive
    PROVE  Handled
<1>1. event # None /\ "bingo" \in Games
  BY DEF Arrive, Games
<1>2. PICK e0 \in Events : e0 = event
  BY <1>1, RoomTypes DEF Handling
<1>3. PICK old \in Views : old = e0.rooms["bingo"]
  BY <1>1, <1>2, RoomTypes DEF Handling
<1>4. PICK room : room = [old EXCEPT !.online = TRUE]
  OBVIOUS
<1>5. /\ room \in Views /\ room.state = old.state /\ room.mini = old.mini
      /\ room.round = old.round /\ room.step = old.step
  BY <1>4 DEF Views
<1>6. PICK l : l = Released(e0.lock, "bingo", old)
  OBVIOUS
<1>7. l \in Games \cup {None}
  BY <1>6, ReleasedFacts DEF Events
<1>8. PICK n : n = WithRoom(e0, "bingo", room, l)
  OBVIOUS
<1>9. /\ n \in Events /\ n # None
      /\ n.setting = e0.setting /\ n.lock = l /\ n.spot = e0.spot /\ n.spotOf = e0.spotOf
      /\ n.prize = e0.prize /\ n.rooms["bingo"] = room
      /\ \A h \in Games \ {"bingo"} : n.rooms[h] = e0.rooms[h]
  <2>1. PICK g \in Games : g = "bingo"
    BY <1>1
  <2>2. n = WithRoom(e0, g, room, l)
    BY <1>8, <2>1
  <2>3. Placed(n, e0, g, room, l)
    BY <1>2, <1>5, <1>7, <2>2, RoomFacts
  <2> QED BY <2>1, <2>3 DEF Placed
<1>10. n = [event EXCEPT !.rooms["bingo"].online = TRUE, !.lock = Released(@, "bingo", old)]
  <2>1. n = [e0 EXCEPT !.rooms["bingo"] = [e0.rooms["bingo"] EXCEPT !.online = TRUE], !.lock = l]
    BY <1>3, <1>4, <1>8 DEF WithRoom
  <2> QED BY <1>2, <1>6, <2>1
<1>11. Leaves(n, FALSE, {"bingo"}, None, FALSE)
  BY <1>2, <1>3, <1>10 DEF Arrive
<1>12. event' = n /\ {"bingo"} \in SUBSET Games /\ n \in Events \cup {None}
  BY <1>1, <1>9, <1>11 DEF Leaves
<1>13. \A g \in Games : n.rooms[g].state = e0.rooms[g].state /\ n.rooms[g].step = e0.rooms[g].step
  BY <1>3, <1>5, <1>9
<1>14. RoundOf(n)
  BY <1>1, <1>2, <1>3, <1>5, <1>9 DEF Handling, HostInv, RoundOf
<1>15. StepsAsked(n, asked')
  BY <1>1, <1>2, <1>13 DEF Handling, HostInv, StepsAsked
<1>16. WireInv' /\ unsaid' \subseteq {"lock", "label", "online"}
  <2>1. /\ event # None /\ n # None
        /\ n.setting = event.setting /\ n.spot = event.spot /\ n.spotOf = event.spotOf
        /\ n.prize = event.prize
        /\ \A g \in Games : n.rooms[g].state = event.rooms[g].state
    BY <1>1, <1>2, <1>9, <1>13
  <2>2. \A g \in Games \ {"bingo"} : event # None /\ n.rooms[g] = event.rooms[g]
    BY <1>1, <1>2, <1>9
  <2> QED BY <1>11, <1>12, <1>14, <2>1, <2>2, LeavesKeeps DEF Handling
<1> QED BY <1>12, <1>14, <1>15, <1>16 DEF Handled, HostInv
LEMMA TimeUpKeeps ==
    ASSUME Handling, TimeUp
    PROVE  Handled
<1>1. event # None
  BY DEF TimeUp
<1>2. PICK e0 \in Events : e0 = event
  BY <1>1, EventTypes DEF Handling
<1>3. PICK g \in Games : g = "yutnori"
  BY DEF Games
<1>4. PICK old \in Views : old = e0.rooms[g]
  BY <1>1, <1>2, <1>3, RoomTypes DEF Handling
<1>5. PICK room : room = [old EXCEPT !.state = "ENDED"]
  OBVIOUS
<1>6. room \in Views /\ room.state = "ENDED" /\ room.mini = old.mini /\ room.round = old.round
  BY <1>5 DEF Views, States
<1>7. PICK l : l = Released(e0.lock, g, room)
  OBVIOUS
<1>8. l \in Games \cup {None}
  BY <1>7, ReleasedFacts DEF Events
<1>9. PICK n : n = WithRoom(e0, g, room, l)
  OBVIOUS
<1>10. Placed(n, e0, g, room, l)
  BY <1>2, <1>3, <1>4, <1>6, <1>8, <1>9, RoomFacts
<1>11. /\ event' = n
       /\ Push(Burst(n, FALSE, {g}, None, FALSE))
       /\ unsaid' = unsaid \cup {"label"} \cup (IF n.lock = e0.lock THEN {} ELSE {"lock"})
  <2>1. event' = [e0 EXCEPT !.rooms[g] = room, !.lock = l]
    BY <1>2, <1>3, <1>4, <1>5, <1>7 DEF TimeUp
  <2>2. event' = n
    BY <1>9, <2>1 DEF WithRoom
  <2> QED BY <1>2, <1>3, <2>2 DEF TimeUp
<1>12. PICK b : b = Burst(n, FALSE, {g}, None, FALSE)
  OBVIOUS
<1>13. /\ n \in Events /\ n # None
       /\ n.setting = e0.setting /\ n.spot = e0.spot /\ n.spotOf = e0.spotOf /\ n.prize = e0.prize
       /\ n.rooms[g] = room /\ \A h \in Games \ {g} : n.rooms[h] = e0.rooms[h]
  BY <1>10 DEF Placed
<1>14. Sends(b, n, FALSE, {g}, None, FALSE)
  BY <1>12, <1>13, BurstFacts
<1>15. PICK u, u2 : u = unsaid /\ u2 = unsaid'
  OBVIOUS
<1>16. /\ "label" \in u2 /\ ("lock" \notin u2 => "lock" \notin u /\ n.lock = e0.lock)
       /\ "online" \in u => "online" \in u2
       /\ u2 \subseteq u \cup {"label", "lock"}
  BY <1>11, <1>15
<1>17. Tells(b, e0, u, n, u2)
  <2>1. e0 # None
    BY <1>1, <1>2
  <2> QED BY <1>13, <1>14, <1>16, <2>1, BurstTells
<1>18. Herald(b, e0)
  BY <1>14, BurstHerald
<1>19. RoundOf(n)
  BY <1>1, <1>2, <1>3, <1>4, <1>6, <1>13 DEF Handling, HostInv, RoundOf, Games
<1>20. StepsAsked(n, asked')
  BY <1>1, <1>2, <1>3, <1>6, <1>13 DEF Handling, HostInv, StepsAsked
<1>21. WireInv'
  <2>1. b \in Bursts /\ Push(b)
    BY <1>11, <1>12, <1>14 DEF Sends
  <2> QED BY <1>2, <1>11, <1>15, <1>17, <1>18, <1>19, <2>1, PushKeeps DEF Handling
<1> QED BY <1>11, <1>13, <1>15, <1>16, <1>19, <1>20, <1>21 DEF Handled, Handling, HostInv, CountInv

(* Handlers that only the summary tells of.                                *)
LEMMA SummaryKeeps ==
    ASSUME Handling, event # None, NEW e \in Events, e.rooms = event.rooms, RoundOf(e),
           Leaves(e, TRUE, {}, None, FALSE)
    PROVE  Handled
<1>1. event' = e /\ {} \in SUBSET Games /\ e \in Events \cup {None} /\ e # None
  BY NullApart DEF Leaves
<1>2. StepsAsked(e, asked')
  BY <1>1 DEF Handling, HostInv, StepsAsked
<1>3. WireInv' /\ unsaid' \subseteq {"lock", "label", "online"}
  <2>1. \A g \in Games \ {} : event # None /\ e.rooms[g] = event.rooms[g]
    OBVIOUS
  <2> QED BY <1>1, <2>1, LeavesKeeps DEF Handling
<1> QED BY <1>1, <1>2, <1>3 DEF Handled, HostInv

LEMMA ProjectorSetKeeps ==
    ASSUME Handling, NEW setting \in Games \cup {"auto"}, ProjectorSet(setting)
    PROVE  Handled
<1>1. event # None
  BY DEF ProjectorSet
<1>2. PICK e : e = [event EXCEPT !.setting = setting, !.lock = None]
  OBVIOUS
<1>3. /\ e \in Events /\ e.rooms = event.rooms /\ e.spot = event.spot /\ e.spotOf = event.spotOf
  BY <1>1, <1>2, EventTypes DEF Handling, Events
<1>4. RoundOf(e)
  BY <1>1, <1>3 DEF Handling, HostInv, RoundOf
<1>5. Leaves(e, TRUE, {}, None, FALSE)
  BY <1>2 DEF ProjectorSet
<1> QED BY <1>1, <1>3, <1>4, <1>5, SummaryKeeps

LEMMA SpotlightKeeps ==
    ASSUME Handling, NEW n \in Winners \cup {None}, NEW of \in Nat, Spotlight(n, of)
    PROVE  Handled
<1>1. event # None
  BY DEF Spotlight
<1>2. PICK so : so = IF of = event.rooms["bingo"].round THEN of ELSE None
  OBVIOUS
<1>3. PICK e : e = [event EXCEPT !.spot = n, !.spotOf = so]
  OBVIOUS
<1>4. /\ e \in Events /\ e.rooms = event.rooms /\ e.spotOf = so
  BY <1>1, <1>2, <1>3, EventTypes DEF Handling, Events
<1>5. RoundOf(e)
  BY <1>2, <1>4 DEF RoundOf
<1>6. Leaves(e, TRUE, {}, None, FALSE)
  BY <1>2, <1>3 DEF Spotlight
<1> QED BY <1>1, <1>4, <1>5, <1>6, SummaryKeeps

LEMMA PrizeKeeps ==
    ASSUME Handling, NEW open \in BOOLEAN, Prize(open)
    PROVE  Handled
<1>1. event # None
  BY DEF Prize
<1>2. PICK e : e = [event EXCEPT !.prize = open]
  OBVIOUS
<1>3. /\ e \in Events /\ e.rooms = event.rooms /\ e.spot = event.spot /\ e.spotOf = event.spotOf
  BY <1>1, <1>2, EventTypes DEF Handling, Events
<1>4. RoundOf(e)
  BY <1>1, <1>3 DEF Handling, HostInv, RoundOf
<1>5. Leaves(e, TRUE, {}, None, FALSE)
  BY <1>2 DEF Prize
<1> QED BY <1>1, <1>3, <1>4, <1>5, SummaryKeeps

LEMMA FreshFacts ==
    ASSUME CountInv
    PROVE  Fresh(ops + 1) \in Views /\ Fresh(ops + 1).state = "SETUP" /\ ~Fresh(ops + 1).mini
<1>1. PICK n : n = ops + 1
  OBVIOUS
<1>2. n \in Nat
  BY <1>1 DEF CountInv
<1>3. PICK r : r = [state |-> "SETUP", step |-> 0, mini |-> FALSE, online |-> FALSE, round |-> 0]
  OBVIOUS
<1>4. PICK f : f = [r EXCEPT !.round = n]
  OBVIOUS
<1>5. f \in Views /\ f.state = "SETUP" /\ ~f.mini
  <2>1. r \in Views /\ r.state = "SETUP" /\ ~r.mini
    BY <1>3 DEF Views, States, LastStep
  <2> QED BY <1>2, <1>4, <2>1 DEF Views
<1>6. Fresh(ops + 1) = f
  BY <1>1, <1>3, <1>4 DEF Fresh, Room
<1> QED BY <1>5, <1>6

LEMMA GameResetKeeps ==
    ASSUME Handling, NEW g \in Games, GameReset(g)
    PROVE  Handled
<1>1. event # None
  BY DEF GameReset
<1>2. PICK e0 \in Events : e0 = event
  BY <1>1, EventTypes DEF Handling
<1>3. PICK f \in Views : f = Fresh(ops + 1) /\ f.state = "SETUP"
  BY FreshFacts DEF Handling
<1>4. PICK l \in Games \cup {None} : l = IF e0.lock = g THEN None ELSE e0.lock
  BY DEF Events
<1>5. PICK spot \in Winners \cup {None} : spot = IF g = "bingo" THEN None ELSE e0.spot
  BY DEF Events
<1>6. PICK rs : rs = [e0.rooms EXCEPT ![g] = f]
  OBVIOUS
<1>7. rs \in [Games -> Views] /\ rs[g] = f /\ \A h \in Games \ {g} : rs[h] = e0.rooms[h]
  BY <1>2, <1>3, <1>6 DEF Events
<1>8. PICK e : e = Reset(e0, g)
  OBVIOUS
<1>9. e = [e0 EXCEPT !.rooms = rs, !.lock = l, !.spot = spot,
                     !.prize = IF g = "bingo" THEN FALSE ELSE @]
  BY <1>3, <1>4, <1>5, <1>6, <1>8 DEF Reset
<1>10. e \in Events /\ e # None /\ e.rooms = rs /\ e.spot = spot /\ e.spotOf = e0.spotOf
  <2>1. PICK e1 : e1 = [e0 EXCEPT !.rooms = rs, !.lock = l, !.spot = spot]
    OBVIOUS
  <2>2. e1 \in Events /\ e1.rooms = rs /\ e1.spot = spot /\ e1.spotOf = e0.spotOf
    BY <1>7, <2>1 DEF Events
  <2>3. e = [e1 EXCEPT !.prize = IF g = "bingo" THEN FALSE ELSE @]
    BY <1>9, <2>1 DEF Events
  <2>4. CASE g = "bingo"
    <3>1. e = [e1 EXCEPT !.prize = FALSE]
      BY <2>3, <2>4
    <3>2. e \in Events /\ e.rooms = e1.rooms /\ e.spot = e1.spot /\ e.spotOf = e1.spotOf
      BY <2>2, <3>1 DEF Events
    <3> QED BY <2>2, <3>2, NullApart
  <2>5. CASE g # "bingo"
    <3>1. e = e1
      BY <2>2, <2>3, <2>5 DEF Events
    <3> QED BY <2>2, <3>1, NullApart
  <2> QED BY <2>4, <2>5
<1>11. Leaves(e, TRUE, {g}, None, FALSE)
  BY <1>2, <1>8 DEF GameReset
<1>12. event' = e /\ {g} \in SUBSET Games /\ e \in Events \cup {None}
  BY <1>10, <1>11 DEF Leaves
<1>13. RoundOf(e)
  BY <1>1, <1>2, <1>5, <1>7, <1>10 DEF Handling, HostInv, RoundOf, Games
<1>14. StepsAsked(e, asked')
  BY <1>1, <1>2, <1>3, <1>7, <1>10 DEF Handling, HostInv, StepsAsked
<1>15. WireInv' /\ unsaid' \subseteq {"lock", "label", "online"}
  <2>1. \A h \in Games \ {g} : event # None /\ e.rooms[h] = event.rooms[h]
    BY <1>1, <1>2, <1>7, <1>10
  <2> QED BY <1>11, <1>12, <1>13, <2>1, LeavesKeeps DEF Handling
<1> QED BY <1>12, <1>13, <1>14, <1>15 DEF Handled, HostInv

LEMMA EventResetKeeps ==
    ASSUME Handling, EventReset
    PROVE  Handled
<1>1. event' = None /\ Leaves(None, TRUE, {}, None, FALSE) /\ {} \in SUBSET Games
  BY DEF EventReset, Leaves
<1>2. RoundOf(None) /\ StepsAsked(None, asked')
  BY DEF RoundOf, StepsAsked
<1>3. WireInv' /\ unsaid' \subseteq {"lock", "label", "online"}
  BY <1>1, <1>2, LeavesKeeps DEF Handling
<1> QED BY <1>1, <1>2, <1>3 DEF Handled, HostInv

LEMMA EventCreateKeeps ==
    ASSUME Handling, EventCreate
    PROVE  Handled
<1>1. PICK f \in Views : f = Fresh(ops + 1) /\ f.state = "SETUP" /\ ~f.mini
  BY FreshFacts DEF Handling
<1>2. PICK rs : rs = [g \in Games |-> f]
  OBVIOUS
<1>3. rs \in [Games -> Views] /\ \A g \in Games : rs[g] = f
  BY <1>2
<1>4. PICK e : e = [setting |-> "auto", lock |-> None, spot |-> None, spotOf |-> 0,
                    prize |-> FALSE, rooms |-> rs]
  OBVIOUS
<1>5. e \in Events /\ e.spot = None /\ e.rooms = rs
  BY <1>3, <1>4 DEF Events
<1>6. Leaves(e, TRUE, Games, None, FALSE)
  BY <1>1, <1>2, <1>4 DEF EventCreate, NewEvent
<1>7. event' = e /\ Games \in SUBSET Games /\ e \in Events \cup {None}
  BY <1>5, <1>6 DEF Leaves
<1>8. RoundOf(e) /\ StepsAsked(e, asked')
  BY <1>1, <1>3, <1>5 DEF RoundOf, StepsAsked
<1>9. WireInv' /\ unsaid' \subseteq {"lock", "label", "online"}
  BY <1>6, <1>7, <1>8, LeavesKeeps DEF Handling
<1> QED BY <1>7, <1>8, <1>9 DEF Handled, HostInv
-----------------------------------------------------------------------------
(* Who makes the host act *)

LEMMA UpTail ==
    ASSUME UpInv, up # <<>>, up' = Tail(up), asked' = asked
    PROVE  UpInv' /\ Head(up) \in Requests
           /\ (Head(up).t = "reveal" /\ Head(up).step \in 2..LastStep
               => <<Head(up).g, Head(up).step>> \in asked)
<1>1. PICK q, r : q = up /\ r = Tail(q)
  OBVIOUS
<1>2. /\ r \in Seq(Requests) /\ Len(q) = Len(r) + 1 /\ Len(r) \in Nat
      /\ Head(q) = q[1] /\ Head(q) \in Requests /\ \A i \in 1..Len(r) : r[i] = q[i + 1]
  BY <1>1, TailFacts DEF UpInv
<1>3. \A i \in 1..Len(r) : i + 1 \in 1..Len(q)
  BY <1>2
<1>4. 1 \in 1..Len(q)
  BY <1>2
<1>5. RequestsAsked(q, asked)
  BY <1>1 DEF UpInv
<1>6. RequestsAsked(r, asked)
  BY <1>2, <1>3, <1>5 DEF RequestsAsked
<1>7. UpInv'
  BY <1>1, <1>2, <1>6 DEF UpInv
<1> QED BY <1>1, <1>2, <1>4, <1>5, <1>7 DEF RequestsAsked

LEMMA HandledKeeps ==
    ASSUME ScreensInv, Handled, con' = con, pj' = pj, UpInv', ops' \in Nat
    PROVE  ScreensInv'
BY DEF ScreensInv, Handled, PageInv, CountInv

LEMMA HandleKeeps ==
    ASSUME ScreensInv, Handle
    PROVE  ScreensInv'
<1>1. PICK msg : msg = Head(up)
  OBVIOUS
<1>2. /\ con.on /\ up # <<>> /\ up' = Tail(up) /\ con' = con /\ pj' = pj /\ asked' = asked
      /\ ops' = ops
  BY DEF Handle, bounds
<1>3. /\ UpInv' /\ msg \in Requests
      /\ msg.t = "reveal" /\ msg.step \in 2..LastStep => <<msg.g, msg.step>> \in asked
  BY <1>1, <1>2, UpTail DEF ScreensInv
<1>4. Handling
  BY <1>2 DEF ScreensInv, Handling
<1>5. CASE event = None /\ ToConsole(Error) /\ UNCHANGED <<event, unsaid>>
  <2>1. Untold(event, unsaid, event', unsaid')
    BY <1>5 DEF Untold
  <2>2. WireInv'
    BY <1>2, <1>4, <1>5, <2>1, ErrorKeeps DEF Handling
  <2> QED BY <1>2, <1>5, <2>2, <1>3 DEF ScreensInv, HostInv, PageInv, CountInv
<1>6. CASE msg.t = "reveal" /\ Reveals(msg.g, msg.step)
  <2>1. msg.g \in Games
    BY <1>3, <1>6 DEF Requests
  <2>2. Handled
    BY <1>2, <1>3, <1>4, <1>6, <2>1, RevealsKeeps
  <2> QED BY <1>2, <1>3, <2>2, HandledKeeps DEF ScreensInv, CountInv
<1>7. CASE /\ event # None /\ msg.t = "reveal" /\ ~Revealable(event.rooms[msg.g], msg.step)
           /\ event' = SeizedOnly(msg.g)
           /\ unsaid' = unsaid \cup (IF event'.lock = event.lock THEN {} ELSE {"lock"})
           /\ ToConsole(Error)
  <2>1. PICK g \in Games : g = msg.g
    BY <1>3, <1>7 DEF Requests
  <2>2. PICK u2 : u2 = unsaid \cup (IF event.lock = g THEN {} ELSE {"lock"})
    OBVIOUS
  <2>3. /\ SeizedOnly(g) \in Events \cup {None} /\ RoundOf(SeizedOnly(g))
        /\ \A by : asked \subseteq by => StepsAsked(SeizedOnly(g), by)
        /\ SeizedOnly(g).lock = g /\ Untold(event, unsaid, SeizedOnly(g), u2)
    BY <1>4, <1>7, <2>2, SeizedFacts DEF Handling
  <2>4. event' = SeizedOnly(g) /\ unsaid' = u2
    BY <1>7, <2>1, <2>2, <2>3
  <2>5. WireInv'
    BY <1>2, <1>4, <1>7, <2>3, <2>4, ErrorKeeps DEF Handling
  <2>6. Handled
    BY <1>2, <1>4, <2>2, <2>3, <2>4, <2>5 DEF Handled, Handling, HostInv, CountInv
  <2> QED BY <1>2, <1>3, <2>6, HandledKeeps DEF ScreensInv, CountInv
<1>8. CASE msg.t = "spotlight" /\ Spotlight(msg.n, msg.of)
  <2>1. msg.n \in Winners \cup {None} /\ msg.of \in Nat
    BY <1>3, <1>8 DEF Requests
  <2>2. Handled
    BY <1>4, <1>8, <2>1, SpotlightKeeps
  <2> QED BY <1>2, <1>3, <2>2, HandledKeeps DEF ScreensInv, CountInv
<1>9. CASE msg.t = "prize" /\ Prize(msg.open)
  <2>1. msg.open \in BOOLEAN
    BY <1>3, <1>9 DEF Requests
  <2>2. Handled
    BY <1>4, <1>9, <2>1, PrizeKeeps
  <2> QED BY <1>2, <1>3, <2>2, HandledKeeps DEF ScreensInv, CountInv
<1> QED BY <1>1, <1>5, <1>6, <1>7, <1>8, <1>9 DEF Handle

LEMMA OthersRevealKeeps ==
    ASSUME HostInv, WireInv, CountInv, con' = con, pj' = pj,
           NEW g \in Games, NEW step, OthersReveal(g, step)
    PROVE  Handled
<1>1. event # None /\ asked' = asked \cup {<<g, step>>}
  BY DEF OthersReveal
<1>2. Handling
  BY <1>1 DEF Handling
<1>3. CASE Reveals(g, step)
  BY <1>1, <1>2, <1>3, RevealsKeeps
<1>4. CASE Silently(SeizedOnly(g), IF event.lock = g THEN {} ELSE {"lock"})
  <2>1. PICK u2 : u2 = unsaid \cup (IF event.lock = g THEN {} ELSE {"lock"})
    OBVIOUS
  <2>2. /\ SeizedOnly(g) \in Events \cup {None} /\ RoundOf(SeizedOnly(g))
        /\ \A by : asked \subseteq by => StepsAsked(SeizedOnly(g), by)
        /\ SeizedOnly(g).lock = g /\ Untold(event, unsaid, SeizedOnly(g), u2)
    BY <1>1, <2>1, SeizedFacts
  <2>3. event' = SeizedOnly(g) /\ unsaid' = u2 /\ down' = down
    BY <1>4, <2>1 DEF Silently
  <2>4. WireInv'
    BY <2>2, <2>3, StillKeeps
  <2> QED BY <1>1, <2>1, <2>2, <2>3, <2>4 DEF Handled, HostInv, CountInv
<1> QED BY <1>3, <1>4 DEF OthersReveal

LEMMA OthersKeeps ==
    ASSUME ScreensInv, Others
    PROVE  ScreensInv'
<1>1. up' = up /\ con' = con /\ pj' = pj /\ ops' = ops + 1
  BY DEF Others
<1>2. asked \subseteq asked' /\ Handled
  <2>1. CASE asked' = asked
             /\ \/ \E g \in Games : MoveOn(g) \/ GameReset(g)
                \/ Throw \/ Move \/ Judge \/ Arrive \/ Leave \/ TimeUp
                \/ \E setting \in Games \cup {"auto"} : ProjectorSet(setting)
                \/ EventReset \/ EventCreate
    <3>1. Handling
      BY <1>1, <2>1 DEF ScreensInv, Handling
    <3> QED BY <2>1, <3>1, MoveOnKeeps, GameResetKeeps, PlaysKeep, ArriveKeeps, LeaveKeeps,
               TimeUpKeeps, ProjectorSetKeeps, EventResetKeeps, EventCreateKeeps
  <2>2. CASE \E g \in Games : \E step \in OthersSteps(g) : OthersReveal(g, step)
    <3>1. PICK g \in Games : \E step \in OthersSteps(g) : OthersReveal(g, step)
      BY <2>2
    <3> QED BY <1>1, <3>1, OthersRevealKeeps DEF ScreensInv, OthersReveal
  <2> QED BY <2>1, <2>2 DEF Others
<1>3. UpInv'
  BY <1>1, <1>2 DEF ScreensInv, UpInv, RequestsAsked
<1>4. ops' \in Nat
  BY <1>1 DEF ScreensInv, CountInv
<1> QED BY <1>1, <1>2, <1>3, <1>4, HandledKeeps
-----------------------------------------------------------------------------
(* The beginning, and every step *)

LEMMA InitEvent ==
    ASSUME Init
    PROVE  HostInv
<1>1. PICK rooms \in [Games -> Views] : event = NewEvent(rooms)
  BY ScreensStarts DEF Init
<1>2. PICK e : e = [setting |-> "auto", lock |-> None, spot |-> None, spotOf |-> 0,
                    prize |-> FALSE, rooms |-> rooms]
  OBVIOUS
<1>3. e \in Events /\ e.spot = None /\ event = e
  BY <1>1, <1>2 DEF Events, NewEvent
<1>4. ASSUME NEW g \in Games, NEW step \in 2..LastStep,
             event.rooms[g].state = "REVEAL", event.rooms[g].step >= step
      PROVE  <<g, step>> \in asked
  <2>1. PICK a : a = <<g, step>>
    OBVIOUS
  <2>2. step \in 0..LastStep /\ step <= event.rooms[g].step
    <3>1. event.rooms[g].step \in 0..LastStep
      BY <1>3, <1>4 DEF Events, Views
    <3> QED BY <1>4, <3>1 DEF LastStep
  <2>3. a \in Games \X (0..LastStep) /\ a[1] = g /\ a[2] = step
    BY <2>1, <2>2
  <2> QED BY <1>4, <2>1, <2>2, <2>3 DEF Init
<1>5. StepsAsked(event, asked)
  BY <1>4 DEF StepsAsked
<1> QED BY <1>3, <1>5 DEF HostInv, RoundOf

LEMMA InitInv ==
    ASSUME Init
    PROVE  ScreensInv
<1>1. HostInv /\ event \in Events \cup {None} /\ RoundOf(event)
  BY InitEvent DEF HostInv
<1>2. PICK b, q : b = Welcome /\ q = <<b>>
  OBVIOUS
<1>3. b \in Bursts /\ b.callout = None /\ ~b.late
  BY <1>1, <1>2, WelcomeFacts
<1>4. q \in Seq(Bursts) /\ q # <<>> /\ Head(q) = b /\ <<>> = Tail(q)
  BY <1>2, <1>3
<1>5. PICK c0, p0 : c0 = [NewConsole EXCEPT !.on = TRUE] /\ p0 = [NewProjector EXCEPT !.on = TRUE]
  OBVIOUS
<1>6. c0 \in Consoles /\ c0.on
  BY <1>5, NewPages DEF Consoles
<1>7. /\ p0 \in Projectors /\ p0.on /\ p0.event = None /\ p0.views = <<>> /\ p0.roulette = "off"
      /\ ~p0.late /\ p0.fx = None
  BY <1>5, NewPages DEF Projectors
<1>8. PICK t : t = Told(c0, b)
  OBVIOUS
<1>9. t \in Consoles /\ t.on = c0.on /\ Reads(t, c0, b)
  <2>1. c0 \in Consoles
    BY <1>6
  <2>2. b \in Bursts
    BY <1>3
  <2> QED BY <1>8, <2>1, <2>2, ToldFacts DEF Reads
<1>10. con = Rendered(t) /\ pj = OnBurst(p0, b, {})
  BY <1>2, <1>5, <1>8 DEF Init
<1>11. con \in Consoles /\ con.on /\ con.event = t.event /\ con.views = t.views
  BY <1>6, <1>9, <1>10, RenderedFacts
<1>12. Reads(con, c0, b)
  BY <1>9, <1>11, ReadsViews
<1>13. Shows(con, <<>>, event, unsaid)
  <2>1. Shows(c0, q, event, unsaid)
    BY <1>1, <1>2, WelcomeShows
  <2> QED BY <1>4, <1>12, <2>1, ShowsTail
<1>14. /\ pj \in Projectors /\ pj.on = p0.on /\ Reads(pj, p0, b)
       /\ pj.late <=> p0.late \/ b.late
       /\ b.callout = None => pj.fx = p0.fx
       /\ (Pending(p0) <=> Pending(pj)) => pj.roulette = p0.roulette
       /\ ~Pending(p0) /\ Pending(pj) => pj.roulette = "timed"
       /\ Pending(p0) /\ ~Pending(pj) => pj.roulette = "off"
  <2>1. p0 \in Projectors
    BY <1>7
  <2>2. b \in Bursts
    BY <1>3
  <2>3. pj = OnBurst(p0, b, {})
    BY <1>10
  <2> QED BY <2>1, <2>2, <2>3, OnBurstFacts
<1>15. OneAtATime(pj)
  <2>1. ~Pending(p0)
    BY <1>7, NoParts DEF Pending, ViewOf
  <2> QED BY <1>3, <1>7, <1>14, <2>1 DEF OneAtATime
<1>16. Shows(pj, <<>>, event, unsaid)
  <2>1. Shows(p0, q, event, unsaid)
    BY <1>1, <1>2, WelcomeShows
  <2> QED BY <1>4, <1>14, <2>1, ShowsTail
<1>17. Rounds(pj, <<>>) /\ Heralds(pj, <<>>)
  <2>1. Rounds(p0, <<>>)
    BY <1>7, NothingTogether
  <2>2. Rounds(p0, q) /\ Heralds(p0, q)
    BY <1>1, <1>2, <2>1, WelcomeTogether
  <2>3. Rounds(pj, <<>>)
    BY <1>4, <1>14, <2>2, RoundsTail
  <2> QED BY <2>3 DEF Heralds
<1>18. down \in [Screens -> Seq(Bursts)] /\ down["console"] = <<>> /\ down["projector"] = <<>>
  BY ScreenFacts DEF Init
<1>19. WireInv
  BY <1>7, <1>11, <1>13, <1>14, <1>16, <1>17, <1>18 DEF WireInv
<1>20. UpInv
  BY DEF Init, UpInv, RequestsAsked
<1>21. CountInv
  BY DEF Init, CountInv
<1> QED BY <1>1, <1>11, <1>14, <1>15, <1>19, <1>20, <1>21 DEF ScreensInv, PageInv

LEMMA StutterKeeps ==
    ASSUME ScreensInv, UNCHANGED svars
    PROVE  ScreensInv'
BY DEF ScreensInv, HostInv, UpInv, PageInv, WireInv, CountInv, svars, bounds

LEMMA NextKeeps ==
    ASSUME ScreensInv, [Next]_svars
    PROVE  ScreensInv'
<1>1. CASE Others
  BY <1>1, OthersKeeps
<1>2. CASE Console
  BY <1>2, ConReadKeeps, TouchKeeps, HandleKeeps, ClickPrizeKeeps, DrumEndsKeeps, ClickRevealKeeps,
     ClickSpotlightKeeps DEF Console
<1>3. CASE PjRead
  BY <1>3, PjReadKeeps
<1>4. CASE PjTimer
  BY <1>4, PjTimerKeeps
<1>5. CASE Connect
  BY <1>5, ConnectKeeps
<1>6. CASE Lose
  BY <1>6, LoseKeeps
<1>7. CASE UNCHANGED svars
  BY <1>7, StutterKeeps
<1> QED BY <1>1, <1>2, <1>3, <1>4, <1>5, <1>6, <1>7 DEF Next

-----------------------------------------------------------------------------
(* The theorems *)

(* What is on its way to a screen brings it to the event as it is, tells of a
   card and its round together and heralds a mini-game before it is shown;
   every step somebody waits for is a step somebody asked for.             *)
THEOREM ScreensInvariance == ScreensSpec => []ScreensInv
<1>1. Init => ScreensInv
  BY InitInv
<1>2. ScreensInv /\ [Next]_svars => ScreensInv'
  BY NextKeeps
<1> QED BY <1>1, <1>2, PTL DEF ScreensSpec

(* The host, the bursts and the two pages are what they are taken for.     *)
THEOREM ScreensTypeCorrect == ScreensSpec => []ScreensTypeOK
<1>1. ScreensInv => ScreensTypeOK
  <2> SUFFICES ASSUME ScreensInv PROVE ScreensTypeOK
    OBVIOUS
  <2>1. con \in Consoles /\ pj \in Projectors /\ down \in [Screens -> Seq(Bursts)]
    BY DEF ScreensInv, PageInv, WireInv
  <2>2. \A s \in Screens : \A i \in DOMAIN down[s] : down[s][i].said \in BOOLEAN
    <3>1. \A s \in Screens : \A i \in DOMAIN down[s] : down[s][i] \in Bursts
      BY <2>1
    <3> QED BY <3>1 DEF Bursts
  <2>3. ASSUME NEW x \in Summaries \cup {None} PROVE x = None \/ x.lock \in Games \cup {None}
    BY <2>3 DEF Summaries
  <2>4. ASSUME NEW vs \in Parts PROVE DOMAIN vs \subseteq Games /\ \A g \in DOMAIN vs : vs[g] \in Views
    BY PartFacts
  <2>5. Mirrors(con)
    BY <2>1, <2>3, <2>4 DEF Mirrors, Consoles
  <2>6. Mirrors(pj)
    BY <2>1, <2>3, <2>4 DEF Mirrors, Projectors
  <2>7. /\ con.drum \in [Games -> {"idle", "armed", "spent"}]
        /\ pj.fx \in Callouts \cup {"judged", None}
        /\ pj.roulette \in {"off", "timed", "shown"}
        /\ pj.active \subseteq Games
    BY <2>1 DEF Consoles, Projectors
  <2>8. /\ event = None \/ event \in Events
        /\ unsaid \subseteq {"lock", "label", "online"}
        /\ (~con.on => down["console"] = <<>>) /\ (~pj.on => down["projector"] = <<>>)
    BY DEF ScreensInv, HostInv, CountInv, WireInv
  <2> QED BY <2>2, <2>5, <2>6, <2>7, <2>8 DEF ScreensTypeOK
<1> QED BY <1>1, ScreensInvariance, PTL

(* The drumroll's own request, and whatever comes of it late, opens no place
   but the third: each step after it is one a button was pressed for.      *)
THEOREM OnlyThirdByItself == ScreensSpec => []DrumrollOpensOnlyThird
<1>1. ScreensInv => DrumrollOpensOnlyThird
  BY DEF ScreensInv, HostInv, StepsAsked, DrumrollOpensOnlyThird
<1> QED BY <1>1, ScreensInvariance, PTL

(* The card at the front is of the round that is played.                   *)
THEOREM CardOfThisRound == ScreensSpec => []SpotlightIsOfThisRound
<1>1. ScreensInv => SpotlightIsOfThisRound
  <2> SUFFICES ASSUME ScreensInv PROVE SpotlightIsOfThisRound
    OBVIOUS
  <2>1. PICK p, q : p = pj /\ q = down["projector"]
    OBVIOUS
  <2>2. p \in Projectors /\ q \in Seq(Bursts) /\ Rounds(p, q)
    BY <2>1, ScreenFacts DEF ScreensInv, PageInv, WireInv
  <2>3. PICK os, ov : os = p.event /\ ov = ViewOf(p, "bingo")
    OBVIOUS
  <2>4. 0 \in 0..Len(q)
    BY <2>2
  <2>5. SaidBy(q, 0, os, os) /\ ViewBy(q, 0, "bingo", ov, ov)
    BY SaidByNone, ViewByNone
  <2>6. OfRound(os, ov)
    BY <2>2, <2>3, <2>4, <2>5 DEF Rounds
  <2>7. ov # None => ov = p.views["bingo"]
    BY <2>3 DEF ViewOf
  <2> QED BY <2>1, <2>3, <2>6, <2>7 DEF SpotlightIsOfThisRound, OfRound
<1> QED BY <1>1, ScreensInvariance, PTL

(* The roulette is not drawn over a callout that started when it came.     *)
THEOREM CalloutBeforeRoulette == ScreensSpec => []CalloutFirst
<1>1. ScreensInv => CalloutFirst
  <2> SUFFICES ASSUME ScreensInv, Screen(pj) = <<"board", TRUE>>, Playing(pj) PROVE pj.waited
    BY DEF CalloutFirst
  <2>1. PICK g, view : g = Active(pj) /\ view = ViewOf(pj, g)
    OBVIOUS
  <2>2. PICK step : step = IF view.state = "ENDED" THEN 0 ELSE view.step
    OBVIOUS
  <2>3. pj.roulette = "shown"
    <3>1. ~(pj.event = None \/ view = None)
      BY <2>1, <2>2 DEF Screen
    <3>2. ~InReveal(view)
      BY <2>1, <2>2, <3>1 DEF Screen
    <3> QED BY <2>1, <2>2, <3>1, <3>2 DEF Screen, InReveal
  <2> QED BY <2>3 DEF Playing, ScreensInv, PageInv, OneAtATime
<1> QED BY <1>1, ScreensInvariance, PTL

(* What a page that has read everything knows.                             *)
LEMMA ShowsNow ==
    ASSUME NEW page, NEW e, NEW u, Shows(page, <<>>, e, u)
    PROVE  /\ Agrees(page.event, e, u)
           /\ e # None => \A g \in Games : Alike(ViewOf(page, g), e.rooms[g], g, u)
<1>1. Len(<<>>) = 0
  OBVIOUS
<1>2. PICK os : os = page.event
  OBVIOUS
<1>3. Agrees(os, e, u)
  <2>1. PICK x : SaidBy(<<>>, 0, os, x) /\ Agrees(x, e, u)
    BY <1>1, <1>2 DEF Shows
  <2> QED BY <2>1, SaidByNone
<1>4. ASSUME e # None, NEW g \in Games PROVE Alike(ViewOf(page, g), e.rooms[g], g, u)
  <2>1. PICK ov : ov = ViewOf(page, g)
    OBVIOUS
  <2>2. PICK v : ViewBy(<<>>, 0, g, ov, v) /\ Alike(v, e.rooms[g], g, u)
    BY <1>1, <1>4, <2>1 DEF Shows
  <2> QED BY <2>1, <2>2, ViewByNone
<1> QED BY <1>2, <1>3, <1>4

(* The stage is decided by the views and by what the summary says of the
   screen, the card and the prize.                                         *)
LEMMA SameStage ==
    ASSUME NEW p, NEW t,
           p.event = None <=> t.event = None,
           p.event # None => /\ p.event.setting = t.event.setting /\ p.event.lock = t.event.lock
                             /\ p.event.spot = t.event.spot /\ p.event.prize = t.event.prize,
           \A g : ViewOf(p, g) = ViewOf(t, g), p.auto = t.auto, p.roulette = t.roulette
    PROVE  Stage(p) = Stage(t)
<1>1. Active(p) = Active(t)
  BY DEF Active
<1>2. PICK g, view : g = Active(p) /\ view = ViewOf(p, g)
  OBVIOUS
<1>3. g = Active(t) /\ view = ViewOf(t, g)
  BY <1>1, <1>2
<1>4. PICK step : step = IF view.state = "ENDED" THEN 0 ELSE view.step
  OBVIOUS
<1>5. Screen(p) = Screen(t)
  <2>1. CASE p.event = None \/ view = None
    BY <1>2, <1>3, <1>4, <2>1 DEF Screen
  <2>2. CASE p.event # None /\ InReveal(view)
    <3>1. view # None
      BY <2>2 DEF InReveal
    <3> QED BY <1>2, <1>3, <1>4, <2>2, <3>1 DEF Screen
  <2>3. CASE p.event # None /\ view # None /\ ~InReveal(view)
    BY <1>2, <1>3, <1>4, <2>3 DEF Screen
  <2> QED BY <2>1, <2>2, <2>3
<1>6. ViewOf(p, "bingo") = ViewOf(t, "bingo")
  OBVIOUS
<1> QED BY <1>5, <1>6 DEF Stage

LEMMA ProjectorShows ==
    ASSUME ScreensInv, pj.on, down["projector"] = <<>>, unsaid \cap {"lock", "online"} = {}
    PROVE  Stage(pj) = Stage(UpToDate(pj))
<1>1. PICK p, e, u, b, t : p = pj /\ e = event /\ u = unsaid /\ b = Welcome /\ t = Told(p, b)
  OBVIOUS
<1>2. p \in Projectors /\ e \in Events \cup {None} /\ Shows(p, <<>>, e, u)
  BY <1>1 DEF ScreensInv, PageInv, HostInv, WireInv
<1>3. /\ b \in Bursts /\ b.said /\ b.event = Summary(e)
      /\ e = None => DOMAIN b.views = {}
      /\ e # None => DOMAIN b.views = Games /\ \A g \in Games : b.views[g] = e.rooms[g]
  BY <1>1, <1>2, WelcomeFacts
<1>4. /\ t.auto = p.auto /\ t.roulette = p.roulette /\ t.event = Summary(e)
      /\ \A g : ViewOf(t, g) = IF g \in DOMAIN b.views THEN b.views[g] ELSE ViewOf(p, g)
  BY <1>1, <1>2, <1>3, ToldFacts
<1>5. Agrees(p.event, e, u) /\ (e # None => \A g \in Games : Alike(ViewOf(p, g), e.rooms[g], g, u))
  BY <1>2, ShowsNow
<1>6. "lock" \notin u /\ "online" \notin u
  BY <1>1
<1>7. \A g : ViewOf(p, g) = ViewOf(t, g)
  <2>1. CASE e = None
    BY <1>3, <1>4, <2>1
  <2>2. CASE e # None
    BY <1>3, <1>4, <1>5, <1>6, <2>2 DEF Alike
  <2> QED BY <2>1, <2>2
<1>8. /\ Summary(e) = None <=> e = None
      /\ e # None => /\ Summary(e).setting = e.setting /\ Summary(e).lock = e.lock
                     /\ Summary(e).spot = e.spot /\ Summary(e).prize = e.prize
  BY <1>2, SummaryFacts
<1>9. p.event = None <=> t.event = None
  BY <1>4, <1>5, <1>8 DEF Agrees
<1>10. p.event # None => /\ p.event.setting = t.event.setting /\ p.event.lock = t.event.lock
                         /\ p.event.spot = t.event.spot /\ p.event.prize = t.event.prize
  BY <1>4, <1>5, <1>6, <1>8 DEF Agrees
<1>11. Stage(p) = Stage(t)
  BY <1>4, <1>7, <1>9, <1>10, SameStage
<1> QED BY <1>1, <1>11 DEF UpToDate

LEMMA ConsoleShows ==
    ASSUME ScreensInv, con.on, down["console"] = <<>>
    PROVE  /\ unsaid = {} => con.event = Summary(event)
           /\ event # None /\ "online" \notin unsaid => con.views = event.rooms
<1>1. PICK p, e, u : p = con /\ e = event /\ u = unsaid
  OBVIOUS
<1>2. p \in Consoles /\ e \in Events \cup {None} /\ Shows(p, <<>>, e, u)
  BY <1>1 DEF ScreensInv, PageInv, HostInv, WireInv
<1>3. Agrees(p.event, e, u) /\ (e # None => \A g \in Games : Alike(ViewOf(p, g), e.rooms[g], g, u))
  BY <1>2, ShowsNow
<1>4. ASSUME u = {} PROVE p.event = Summary(e)
  <2>1. CASE e = None
    BY <1>3, <2>1 DEF Agrees, Summary
  <2>2. CASE e # None
    <3>1. PICK x, s : x = p.event /\ s = Summary(e)
      OBVIOUS
    <3>2. x \in Summaries /\ s \in Summaries
      BY <1>2, <1>3, <2>2, <3>1, SummaryFacts DEF Agrees, Consoles
    <3>3. /\ x.setting = s.setting /\ x.lock = s.lock /\ x.spot = s.spot /\ x.spotOf = s.spotOf
          /\ x.prize = s.prize /\ x.label = s.label
      BY <1>2, <1>3, <1>4, <2>2, <3>1, SummaryFacts DEF Agrees
    <3>4. x = s
      BY <3>2, <3>3 DEF Summaries
    <3> QED BY <3>1, <3>4
  <2> QED BY <2>1, <2>2
<1>5. ASSUME e # None, "online" \notin u PROVE p.views = e.rooms
  <2>1. PICK vs : vs = p.views
    OBVIOUS
  <2>2. DOMAIN vs \subseteq Games /\ vs \in [DOMAIN vs -> Views] /\ vs \in Parts
    BY <1>2, <2>1, PartFacts DEF Consoles
  <2>3. \A g \in Games : ViewOf(p, g) = e.rooms[g] /\ ViewOf(p, g) # None
    BY <1>3, <1>5 DEF Alike
  <2>4. \A g \in Games : g \in DOMAIN vs /\ vs[g] = e.rooms[g]
    BY <2>1, <2>3 DEF ViewOf
  <2>5. vs \in [Games -> Views] /\ e.rooms \in [Games -> Views]
    <3>1. DOMAIN vs = Games
      BY <2>2, <2>4
    <3> QED BY <1>2, <1>5, <2>2, <3>1 DEF Events
  <2>6. vs = e.rooms
    BY <2>4, <2>5
  <2> QED BY <2>1, <2>6
<1> QED BY <1>1, <1>4, <1>5

(* Once nothing is on its way a screen shows the event, but for what the host
   tells no screen.                                                        *)
THEOREM ScreensShow == ScreensSpec => []ScreensShowTheEvent
<1>1. ScreensInv => ScreensShowTheEvent
  BY ProjectorShows, ConsoleShows DEF ScreensShowTheEvent
<1> QED BY <1>1, ScreensInvariance, PTL
==============================================================================
