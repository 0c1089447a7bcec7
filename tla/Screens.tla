------------------------------- MODULE Screens -------------------------------
(***************************************************************************)
(* The screens of an event: one operator's console (console/App.tsx and    *)
(* the two panes in it) and the projector at the front of the room         *)
(* (projector/App.tsx), both showing what the host pushes.                 *)
(*                                                                         *)
(* The host is what its screens are told of it; modules Host and HostStore *)
(* have its insides.  A handler, the commit and the push are one step, and *)
(* what they send to one screen is one message, a burst: granular emits,   *)
(* then the summary, then the views, in that order and read together.      *)
(* Each burst is rendered before the next one is read.                     *)
(*                                                                         *)
(* The other operators, and this one where the request does not depend on  *)
(* what the pane shows, act on the host at any time, and so do the phones. *)
(*                                                                         *)
(* Time: the 20 s hold, the drumroll of 2.5 s and the animations end at    *)
(* any time, but a callout (1.6 s, even one that waited 260 ms to start)   *)
(* is over before the roulette's 2 s are.                                  *)
(***************************************************************************)
EXTENDS Integers, Sequences

CONSTANTS
    None,
    Winners,           \* the numbers of bingo players with a card to show
    Starts,            \* what the rooms may be to begin with: [Games -> Views]
    MaxOps,            \* bound: what the others and the phones do
    MaxClicks,         \* bound: what this operator clicks
    MaxLosses          \* bound: connections lost and pages reloaded

ASSUME ScreensBounds == MaxOps \in Nat /\ MaxClicks \in Nat /\ MaxLosses \in Nat

VARIABLES
    event,             \* None, or the open event
    down,              \* bursts on their way to each screen
    up,                \* what the console sent or holds back until it is connected
    con,               \* the console's page
    pj,                \* the projector's page
    unsaid,            \* history: what the host changed and has told no screen
    asked,             \* history: the reveal steps somebody pressed a button for
    ops, clicks, losses

bounds == <<ops, clicks, losses>>
svars  == <<event, down, up, con, pj, unsaid, asked, bounds>>

Games    == {"bingo", "yutnori"}
States   == {"SETUP", "LOBBY", "RUNNING", "ENDED", "REVEAL"}
LastStep == 4
Screens  == {"console", "projector"}
Callouts == {"throw", "capture", "minigame"}

Views  == [state : States, step : 0..LastStep, mini : BOOLEAN, online : BOOLEAN, round : Nat]
Events == [setting : Games \cup {"auto"}, lock : Games \cup {None}, spot : Winners \cup {None},
           spotOf : Nat \cup {None}, prize : BOOLEAN, rooms : [Games -> Views]]
Summaries == [setting : Games \cup {"auto"}, lock : Games \cup {None}, spot : Winners \cup {None},
              spotOf : Nat \cup {None}, prize : BOOLEAN, label : [Games -> States]]

(* null is no number, game, callout, view or event.                        *)
ASSUME ScreensNone ==
    /\ None \notin Nat \cup Winners \cup Games \cup Callouts \cup {"judged"}
    /\ None \notin Views /\ None \notin Events /\ None \notin Summaries

ASSUME ScreensStarts == Starts \subseteq [Games -> Views]

Other(g) == IF g = "yutnori" THEN "bingo" ELSE "yutnori"

-----------------------------------------------------------------------------
(* What the screens know of the host *)

(* A game's view: lifecycle, reveal step, whether a mini-game is pending,
   whether the phone that comes and goes is counted online.  `round' is a
   history field that tells the rounds of a game apart.                    *)
Room(state, step, mini) ==
    [state |-> state, step |-> step, mini |-> mini, online |-> FALSE, round |-> 0]

Fresh(round) == [Room("SETUP", 0, FALSE) EXCEPT !.round = round]

NewEvent(rooms) == [setting |-> "auto", lock |-> None, spot |-> None, spotOf |-> 0,
                    prize |-> FALSE, rooms |-> rooms]
    \* spotOf is a history field: the round the card was picked in, if the pane
    \* it was picked from showed the one that is played

(* summarize(): the rooms are known by their lifecycle only.               *)
Summary(e) ==
    IF e = None THEN None
    ELSE [setting |-> e.setting, lock |-> e.lock, spot |-> e.spot, spotOf |-> e.spotOf,
          prize |-> e.prize, label |-> [g \in Games |-> e.rooms[g].state]]

(* What one handler sends to a screen: the callout its emits make, the
   summary if it is broadcast, and the views that are pushed.              *)
Burst(e, said, games, callout, late) ==
    [said |-> said, event |-> IF said THEN Summary(e) ELSE None,
     views |-> IF e = None THEN <<>> ELSE [g \in games |-> e.rooms[g]],
     callout |-> callout, late |-> late]

(* An error goes to the console alone, and shows there.                    *)
Error == Burst(None, FALSE, {}, None, FALSE)

(* releaseProjectorLock(): after every commit.                             *)
Released(lock, g, room) == IF lock = g /\ room.state # "REVEAL" THEN None ELSE lock

-----------------------------------------------------------------------------
(* The console's page *)

NewConsole == [on |-> FALSE, event |-> None, views |-> <<>>,
               drum |-> [g \in Games |-> "idle"]]

ViewOf(page, g) == IF g \in DOMAIN page.views THEN page.views[g] ELSE None

(* useRevealDrumroll() after a render.  `send' is a new function in every
   render of App, so the effect runs each time: it clears the timer, and
   firedRef keeps it from being set again.                                 *)
DrumAfter(drum, view) ==
    CASE view = None \/ view.state # "REVEAL" -> "idle"
      [] view # None /\ view.state = "REVEAL" ->
            CASE drum = "idle" /\ view.step = 0 -> "armed"
              [] drum = "idle" /\ view.step # 0 -> "idle"
              [] drum # "idle"                  -> "spent"

(* The panes are there only while there is an event.                       *)
Rendered(page) ==
    [page EXCEPT !.drum = [g \in Games |->
        IF page.event = None THEN "idle" ELSE DrumAfter(@[g], ViewOf(page, g))]]

(* The views that came replace the ones a page has.                        *)
Over(new, old) == [g \in DOMAIN new \cup DOMAIN old |->
                       IF g \in DOMAIN new THEN new[g] ELSE old[g]]

(* event:summary and room:state, on either page.                           *)
Told(page, b) == [page EXCEPT !.event = IF b.said THEN b.event ELSE @,
                              !.views = Over(b.views, @)]

-----------------------------------------------------------------------------
(* The projector's page *)

NewProjector ==
    [on |-> FALSE, event |-> None, views |-> <<>>, auto |-> "yutnori", active |-> {},
     fx |-> None, waited |-> FALSE, late |-> FALSE, roulette |-> "off"]

(* bump(): a game takes the automatic channel if the other has been quiet for
   HOLD_MS, as `quiet' tells of the games that were active before.         *)
Bump(page, g, quiet) ==
    [page EXCEPT !.auto = IF Other(g) \in page.active \ quiet THEN @ ELSE g,
                 !.active = @ \cup {g}]

Active(page) ==
    CASE page.event = None                                  -> page.auto
      [] page.event # None /\ page.event.lock # None        -> page.event.lock
      [] page.event # None /\ page.event.lock = None        ->
            IF page.event.setting = "auto" THEN page.auto ELSE page.event.setting

Pending(page) == ViewOf(page, "yutnori") # None /\ ViewOf(page, "yutnori").mini

(* A callout is drawn over the board only, and starts when it is drawn: one
   that comes while the other game has the screen waits.                   *)
Playing(page) == page.fx # None /\ Active(page) = "yutnori"
Drawn(page)   == [page EXCEPT !.waited = page.fx # None /\ (@ \/ ~Playing(page))]

ShowFx(page, fx) == IF fx = None THEN page ELSE [page EXCEPT !.fx = fx, !.waited = FALSE]

RouletteAtOnce(before, page) ==       \* mutant: the callout is not waited for
    [page EXCEPT !.roulette = IF Pending(before) = Pending(page) THEN @
                              ELSE IF Pending(page) THEN "shown" ELSE "off"]

(* The effect on mgPending: hold the roulette back for its callout.        *)
Roulette(before, page) ==
    [page EXCEPT !.roulette = IF Pending(before) = Pending(page) THEN @
                              ELSE IF Pending(page) THEN "timed" ELSE "off"]

BumpAll(page, games, quiet) ==
    LET b == IF "bingo" \in games THEN Bump(page, "bingo", quiet) ELSE page
    IN  IF "yutnori" \in games THEN Bump(b, "yutnori", quiet \ games) ELSE b

OnBurst(page, b, quiet) ==
    LET told == [BumpAll(Told(page, b), DOMAIN b.views, quiet) EXCEPT !.late = @ \/ b.late]
    IN  Drawn(Roulette(page, ShowFx(told, b.callout)))

(* podiumAt(): the places a step puts on the screen.                       *)
PodiumAt(step) == IF step <= 0 THEN {}
                  ELSE IF step >= LastStep THEN 1..3 ELSE {4 - step}

InReveal(view) == view # None /\ view.state \in {"REVEAL", "ENDED"}

(* The screen App() chooses.                                               *)
Screen(page) ==
    LET g    == Active(page)
        view == ViewOf(page, g)
        step == IF view.state = "ENDED" THEN 0 ELSE view.step
    IN  CASE page.event = None \/ view = None -> <<"standby">>
          [] page.event # None /\ InReveal(view) ->
                IF g = "bingo" /\ page.event.spot \in Winners
                THEN <<"card", page.event.spot>>
                ELSE <<"podium", g, PodiumAt(step),
                       g = "bingo" /\ step >= 3 /\ page.event.prize>>
          [] page.event # None /\ view # None /\ ~InReveal(view) ->
                IF g = "yutnori" THEN <<"board", page.roulette = "shown" /\ view.mini>>
                ELSE IF view.state = "SETUP" THEN <<"standby">> ELSE <<"bingo">>

(* And with it, over whatever it is, the box of who is online.             *)
Stage(page) ==
    <<Screen(page), ViewOf(page, "bingo") # None /\ ViewOf(page, "bingo").online>>

-----------------------------------------------------------------------------
(* The wires *)

Push(b) == down' = [s \in Screens |->
              IF (IF s = "console" THEN con.on ELSE pj.on) THEN Append(down[s], b) ELSE down[s]]

ToConsole(b) == down' = [down EXCEPT !["console"] = Append(@, b)]

(* What a handler leaves: the event, what it sends of it, and what of its
   change it sends nobody.                                                 *)
Leaves(e, said, games, callout, late) ==
    /\ event' = e
    /\ Push(Burst(e, said, games, callout, late))
    /\ unsaid' = (IF said THEN unsaid \ {"lock", "label"}
                  ELSE unsaid \cup (IF event # None /\ e.lock # event.lock THEN {"lock"} ELSE {}))
                 \ (IF "bingo" \in games THEN {"online"} ELSE {})

Silently(e, what) == event' = e /\ unsaid' = unsaid \cup what /\ UNCHANGED down

-----------------------------------------------------------------------------
(* The host's handlers, as the screens see them *)

(* An action that was accepted: commit, releaseProjectorLock, and then the
   summary and the view of the game.                                       *)
Accepted(e, g, room, callout, late) ==
    Leaves([e EXCEPT !.rooms[g] = room, !.lock = Released(@, g, room)],
           TRUE, {g}, callout, late)

Become(g, from, to) ==
    /\ event # None
    /\ event.rooms[g].state = from
    /\ Accepted(event, g, [event.rooms[g] EXCEPT !.state = to], None, FALSE)

(* The actions that move a game on, but for its reveal.                    *)
MoveOn(g) == \/ Become(g, "SETUP", "LOBBY") \/ Become(g, "LOBBY", "RUNNING")
             \/ Become(g, "RUNNING", "ENDED")
             \/ g = "yutnori" /\ Become(g, "ENDED", "RUNNING")

(* A play of yutnori: its callout, and whether a mini-game is pending after. *)
Play(mini, then, callout, late) ==
    /\ event # None
    /\ event.rooms["yutnori"].state = "RUNNING"
    /\ event.rooms["yutnori"].mini = mini
    /\ Accepted(event, "yutnori", [event.rooms["yutnori"] EXCEPT !.mini = then], callout, late)

Throw  == Play(FALSE, FALSE, "throw", FALSE)
Move   == \/ Play(FALSE, FALSE, None, FALSE) \/ Play(FALSE, FALSE, "capture", FALSE)
          \/ Play(FALSE, TRUE, "minigame", FALSE)
Judge  == \E c \in {None, "capture"} : Play(TRUE, FALSE, c, TRUE)

NextStepOnly(room, step) ==    \* mutant: one step on, whichever was asked for
    IF room.state = "ENDED" THEN 0 ELSE room.step + 1
AskedStep(room, step) == step

RevealableBeyond(room, step) ==          \* mutant: there is always a next step
    \/ room.state = "ENDED" /\ step = 0
    \/ room.state = "REVEAL" /\ step = room.step + 1

(* REVEAL: what the two reducers accept.                                   *)
Revealable(room, step) ==
    LET s == AskedStep(room, step)
    IN  \/ room.state = "ENDED" /\ s = 0
        \/ room.state = "REVEAL" /\ s = room.step + 1 /\ s <= LastStep

Reveals(g, step) ==
    LET room == event.rooms[g]
    IN  /\ event # None
        /\ Revealable(room, step)
        /\ Accepted([event EXCEPT !.lock = g], g,
                    [room EXCEPT !.state = "REVEAL", !.step = AskedStep(room, step)], None, FALSE)

(* hostGuards() has seized the screen by the time a reveal is refused.     *)
SeizedOnly(g) == [event EXCEPT !.lock = g]

(* One more or one fewer phone online; its leaving is pushed to no screen. *)
Arrive ==
    /\ event # None
    /\ LET room == event.rooms["bingo"]
       IN  /\ room.state # "SETUP" /\ ~room.online
           /\ Leaves([event EXCEPT !.rooms["bingo"].online = TRUE,
                                   !.lock = Released(@, "bingo", room)],
                     FALSE, {"bingo"}, None, FALSE)

Leave ==
    /\ event # None
    /\ LET room == event.rooms["bingo"]
           lock == Released(event.lock, "bingo", room)
       IN  /\ room.state # "SETUP" /\ room.online
           /\ Silently([event EXCEPT !.rooms["bingo"].online = FALSE, !.lock = lock],
                       {"online"} \cup (IF lock = event.lock THEN {} ELSE {"lock"}))

(* The tick that ends a game pushes its view and no summary.               *)
TimeUp ==
    /\ event # None
    /\ event.rooms["yutnori"].state = "RUNNING" /\ ~event.rooms["yutnori"].mini
    /\ LET room == [event.rooms["yutnori"] EXCEPT !.state = "ENDED"]
       IN  /\ event' = [event EXCEPT !.rooms["yutnori"] = room,
                                     !.lock = Released(@, "yutnori", room)]
           /\ Push(Burst(event', FALSE, {"yutnori"}, None, FALSE))
           /\ unsaid' = unsaid \cup {"label"}
                        \cup (IF event'.lock = event.lock THEN {} ELSE {"lock"})

ProjectorSet(setting) ==
    /\ event # None
    /\ Leaves([event EXCEPT !.setting = setting, !.lock = None], TRUE, {}, None, FALSE)

Spotlight(n, of) ==
    /\ event # None
    /\ Leaves([event EXCEPT !.spot = n,
                            !.spotOf = IF of = event.rooms["bingo"].round THEN of ELSE None],
              TRUE, {}, None, FALSE)

Prize(open) == event # None /\ Leaves([event EXCEPT !.prize = open], TRUE, {}, None, FALSE)

ResetKeepsSpot(e, g) ==                  \* mutant: the spotlight lingers
    [e EXCEPT !.rooms[g] = Fresh(ops + 1), !.lock = IF @ = g THEN None ELSE @]

(* game:reset: a fresh bingo has no winners, so no card on the screen.     *)
Reset(e, g) ==
    [e EXCEPT !.rooms[g] = Fresh(ops + 1),
              !.lock   = IF @ = g THEN None ELSE @,
              !.spot   = IF g = "bingo" THEN None ELSE @,
              !.prize  = IF g = "bingo" THEN FALSE ELSE @]

GameReset(g) == event # None /\ Leaves(Reset(event, g), TRUE, {g}, None, FALSE)

EventReset == event # None /\ Leaves(None, TRUE, {}, None, FALSE)

EventCreateSummaryOnly ==                \* mutant: the rooms are not pushed
    event = None /\ Leaves(NewEvent([g \in Games |-> Fresh(ops + 1)]), TRUE, {}, None, FALSE)

EventCreate ==
    /\ event = None
    /\ Leaves(NewEvent([g \in Games |-> Fresh(ops + 1)]), TRUE, Games, None, FALSE)

-----------------------------------------------------------------------------
(* The other operators, the phones, and the clock: whatever they do, at any
   time.  Another operator's request for a step comes from a pane that may
   be behind.                                                              *)

OthersReveal(g, step) ==
    /\ event # None
    /\ asked' = asked \cup {<<g, step>>}
    /\ \/ Reveals(g, step)
       \/ /\ ~Revealable(event.rooms[g], step)
          /\ Silently(SeizedOnly(g), IF event.lock = g THEN {} ELSE {"lock"})

OthersSteps(g) == {0, 1, event.rooms[g].step, event.rooms[g].step + 1}

Others ==
    /\ ops < MaxOps
    /\ ops' = ops + 1
    /\ \/ /\ \/ \E g \in Games : MoveOn(g) \/ GameReset(g)
             \/ Throw \/ Move \/ Judge \/ Arrive \/ Leave \/ TimeUp
             \/ \E setting \in Games \cup {"auto"} : ProjectorSet(setting)
             \/ EventReset \/ EventCreate
          /\ UNCHANGED asked
       \/ event # None /\ \E g \in Games : \E step \in OthersSteps(g) : OthersReveal(g, step)
    /\ UNCHANGED <<up, con, pj, clicks, losses>>

-----------------------------------------------------------------------------
(* The console *)

ConRead ==
    /\ con.on
    /\ down["console"] # <<>>
    /\ con' = Rendered(Told(con, Head(down["console"])))
    /\ down' = [down EXCEPT !["console"] = Tail(@)]
    /\ UNCHANGED <<event, up, pj, unsaid, asked, bounds>>

(* A tab, or another pane, is clicked: App renders anew.                   *)
Touch ==
    /\ con' = Rendered(con)
    /\ con' # con
    /\ UNCHANGED <<event, down, up, pj, unsaid, asked, bounds>>

(* socket.emit: held back while there is no connection.                    *)
Send(msg) == up' = Append(up, msg) /\ UNCHANGED <<event, down, pj, unsaid, ops, losses>>

(* The drumroll's timer.                                                   *)
DrumEnds(g) ==
    /\ con.drum[g] = "armed"
    /\ con' = [con EXCEPT !.drum[g] = "spent"]
    /\ Send([t |-> "reveal", g |-> g, step |-> 1])
    /\ UNCHANGED <<asked, clicks>>

Clicked == clicks < MaxClicks /\ con.event # None /\ clicks' = clicks + 1 /\ UNCHANGED con

(* The button under the ranking: the step after the one the pane shows.    *)
ClickReveal(g) ==
    LET view == ViewOf(con, g)
        step == IF view.state = "ENDED" THEN 0 ELSE view.step + 1
    IN  /\ Clicked
        /\ view # None /\ InReveal(view) /\ step <= LastStep
        /\ Send([t |-> "reveal", g |-> g, step |-> step])
        /\ asked' = asked \cup {<<g, step>>}

(* WinnersPanel: a card is shown, or hidden again.                         *)
ClickSpotlight(n) ==
    LET view == ViewOf(con, "bingo")
    IN  /\ Clicked
        /\ view # None /\ InReveal(view)
        /\ n # con.event.spot
        /\ Send([t |-> "spotlight", n |-> n, of |-> view.round])
        /\ UNCHANGED asked

ClickPrize ==
    LET view == ViewOf(con, "bingo")
    IN  /\ Clicked
        /\ view # None /\ view.state = "REVEAL" /\ view.step >= 3
        /\ Send([t |-> "prize", open |-> ~con.event.prize])
        /\ UNCHANGED asked

(* The host reads what the console sent.                                   *)
Handle ==
    LET msg == Head(up)
    IN  /\ con.on
        /\ up # <<>>
        /\ up' = Tail(up)
        /\ \/ event = None /\ ToConsole(Error) /\ UNCHANGED <<event, unsaid>>
           \/ msg.t = "reveal" /\ Reveals(msg.g, msg.step)
           \/ /\ event # None /\ msg.t = "reveal" /\ ~Revealable(event.rooms[msg.g], msg.step)
              /\ event' = SeizedOnly(msg.g)
              /\ unsaid' = unsaid \cup (IF event'.lock = event.lock THEN {} ELSE {"lock"})
              /\ ToConsole(Error)
           \/ msg.t = "spotlight" /\ Spotlight(msg.n, msg.of)
           \/ msg.t = "prize" /\ Prize(msg.open)
        /\ UNCHANGED <<con, pj, asked, bounds>>

-----------------------------------------------------------------------------
(* The projector *)

PjRead ==
    /\ pj.on
    /\ down["projector"] # <<>>
    /\ \E quiet \in SUBSET pj.active : pj' = OnBurst(pj, Head(down["projector"]), quiet)
    /\ down' = [down EXCEPT !["projector"] = Tail(@)]
    /\ UNCHANGED <<event, up, con, unsaid, asked, bounds>>

FxEnds == Playing(pj) /\ pj' = [pj EXCEPT !.fx = None, !.waited = FALSE]

(* 260 ms after a judgment: its callout, over the board that is back.      *)
LateFx == pj.late /\ pj' = Drawn(ShowFx([pj EXCEPT !.late = FALSE], "judged"))

(* 2 s after the mini-game came.                                           *)
RouletteShows ==
    /\ pj.roulette = "timed"
    /\ ~pj.late /\ ~(Playing(pj) /\ ~pj.waited)
    /\ pj' = [pj EXCEPT !.roulette = "shown"]

PjTimer ==
    /\ FxEnds \/ LateFx \/ RouletteShows
    /\ UNCHANGED <<event, down, up, con, unsaid, asked, bounds>>

-----------------------------------------------------------------------------
(* Connections.  A screen that connects is sent the summary and every view. *)

Welcome == Burst(event, TRUE, IF event = None THEN {} ELSE Games, None, FALSE)

Connect ==
    /\ \/ /\ ~con.on
          /\ con' = Rendered([con EXCEPT !.on = TRUE])
          /\ down' = [down EXCEPT !["console"] = <<Welcome>>]
          /\ UNCHANGED pj
       \/ /\ ~pj.on
          /\ pj' = [pj EXCEPT !.on = TRUE]
          /\ down' = [down EXCEPT !["projector"] = <<Welcome>>]
          /\ UNCHANGED con
    /\ UNCHANGED <<event, up, unsaid, asked, bounds>>

(* What is on its way is lost with the connection; a page that is loaded
   anew has nothing.                                                       *)
Lose ==
    /\ losses < MaxLosses
    /\ losses' = losses + 1
    /\ \/ /\ con.on
          /\ con' \in {Rendered([con EXCEPT !.on = FALSE]), NewConsole}
          /\ down' = [down EXCEPT !["console"] = <<>>]
          /\ up' = <<>>
          /\ UNCHANGED pj
       \/ /\ pj.on
          /\ pj' \in {[pj EXCEPT !.on = FALSE], NewProjector}
          /\ down' = [down EXCEPT !["projector"] = <<>>]
          /\ UNCHANGED <<up, con>>
    /\ UNCHANGED <<event, unsaid, asked, ops, clicks>>

-----------------------------------------------------------------------------
(* Both screens have just been opened and shown the event, in the middle of
   it.                                                                     *)
Init ==
    /\ \E rooms \in Starts : event = NewEvent(rooms)
    /\ down = [s \in Screens |-> <<>>]
    /\ up = <<>>
    /\ con = Rendered(Told([NewConsole EXCEPT !.on = TRUE], Welcome))
    /\ pj = OnBurst([NewProjector EXCEPT !.on = TRUE], Welcome, {})
    /\ unsaid = {}
    /\ asked = {a \in Games \X (0..LastStep) :
                  event.rooms[a[1]].state = "REVEAL" /\ a[2] <= event.rooms[a[1]].step}
    /\ ops = 0 /\ clicks = 0 /\ losses = 0

Console == \/ ConRead \/ Touch \/ Handle \/ ClickPrize
           \/ \E g \in Games : DrumEnds(g) \/ ClickReveal(g)
           \/ \E n \in Winners \cup {None} : ClickSpotlight(n)

Next == Others \/ Console \/ PjRead \/ PjTimer \/ Connect \/ Lose

ScreensSpec == Init /\ [][Next]_svars

(* The wires go on and timers end; nobody has to do anything.              *)
FairScreens ==
    /\ ScreensSpec
    /\ WF_svars(ConRead) /\ WF_svars(Handle) /\ WF_svars(PjRead) /\ WF_svars(Connect)
    /\ \A g \in Games : WF_svars(DrumEnds(g))

-----------------------------------------------------------------------------
Mirrors(page) ==
    /\ page.on \in BOOLEAN
    /\ page.event = None \/ page.event.lock \in Games \cup {None}
    /\ DOMAIN page.views \subseteq Games
    /\ \A g \in DOMAIN page.views : page.views[g] \in Views

ScreensTypeOK ==
    /\ event = None \/ event \in Events
    /\ \A s \in Screens : \A i \in DOMAIN down[s] : down[s][i].said \in BOOLEAN
    /\ Mirrors(con) /\ Mirrors(pj)
    /\ con.drum \in [Games -> {"idle", "armed", "spent"}]
    /\ pj.fx \in Callouts \cup {"judged", None}
    /\ pj.roulette \in {"off", "timed", "shown"}
    /\ pj.active \subseteq Games
    /\ unsaid \subseteq {"lock", "label", "online"}
    /\ (~con.on => down["console"] = <<>>) /\ (~pj.on => down["projector"] = <<>>)

(* A drumroll opens third place and no more: whatever timers and operators
   ask for at the same time, from panes that may be behind, no place after it
   is opened but by a button that named its step.                          *)
DrumrollOpensOnlyThird ==
    event # None =>
        \A g \in Games : \A step \in 2..LastStep :
            event.rooms[g].state = "REVEAL" /\ event.rooms[g].step >= step => <<g, step>> \in asked

(* A page as it would be had it seen all of the event.                     *)
UpToDate(page) == Told(page, Welcome)

(* Once nothing is on its way, a screen that is connected shows the event as
   it is, through lost connections, resets and new events: the projector the
   right stage, the console the right panes.  The exceptions are what the
   host tells no screen of: a lock seized by a refused reveal, a phone that
   left, and in the summary a game that was ended by the clock.            *)
ScreensShowTheEvent ==
    /\ pj.on /\ down["projector"] = <<>> /\ unsaid \cap {"lock", "online"} = {} =>
          Stage(pj) = Stage(UpToDate(pj))
    /\ con.on /\ down["console"] = <<>> =>
          /\ unsaid = {} => con.event = Summary(event)
          /\ event # None /\ "online" \notin unsaid => con.views = event.rooms

(* The card the projector is told to show was picked among the winners of the
   round that is played, not of one reset since.  The exception is a click
   that the reset overtook (of a pane that was behind).                    *)
SpotlightIsOfThisRound ==
    pj.event # None /\ pj.event.spot # None /\ pj.event.spotOf # None =>
        pj.event.spotOf = pj.views["bingo"].round

(* projector/App.tsx:440: the callout first, then the roulette, not both at
   once.  The exception is a callout that waited for its screen.           *)
CalloutFirst == Screen(pj) = <<"board", TRUE>> /\ Playing(pj) => pj.waited

(* BingoPane.tsx:26: the podium goes on to third place by itself, so that the
   operator does not have to click again.                                  *)
DrumrollAdvances ==
    \A g \in Games :
        (event # None /\ event.rooms[g].state = "REVEAL" /\ event.rooms[g].step = 0)
        ~> ~(event # None /\ event.rooms[g].state = "REVEAL" /\ event.rooms[g].step = 0)
=============================================================================
