-------------------------------- MODULE Host --------------------------------
(***************************************************************************)
(* The host: one event with its two games, and the loop every action goes  *)
(* through (master/src/host/dispatch.ts, event/registry.ts, the handlers   *)
(* of host/namespaces.ts).  A game is what the host may ask of a           *)
(* GameModule: a lifecycle, a whitelist, a reducer that may refuse.        *)
(*                                                                         *)
(* Node's event loop gives the interleaving.  Handlers of messages that    *)
(* arrive together run one after the other, each appending its action to   *)
(* its game's promise chain (registry.lock) or, for a host operation,      *)
(* acting at once; only then are the promise jobs run, all of them before  *)
(* the next handler.                                                       *)
(***************************************************************************)
EXTENDS Integers, Sequences

CONSTANTS
    None,
    Steps,            \* the reveal steps the master may ask for
    Toggled,          \* the games the master may hide and show
    MaxQueued,        \* bound: actions waiting in one turn of the loop
    MaxEvents         \* bound: events opened

ASSUME HostNoneAssumption == None \notin Nat
ASSUME StepsAssumption    == Steps \subseteq Nat
ASSUME HostBounds         == MaxQueued \in Nat /\ MaxEvents \in Nat

Games == {"bingo", "yutnori"}
Ticks == {"yutnori"}          \* the modules that asked for the 1 Hz tick
LiveProjection == {"yutnori"} \* and those whose every action goes to the crowd

VARIABLES
    event,        \* None, or the open event: [id, games, lock]
    opened,       \* events opened so far, which are the ids in use
    queue,        \* per game, the actions in its promise chain
    draining,     \* is the loop running promise jobs?
    crowd,        \* per game, the lifecycle the crowd was last sent
    overtaken     \* history variable: the games with an action in the chain
                  \* that a reset overtook, and nothing pushed since

hvars == <<event, opened, queue, draining, crowd, overtaken>>

States == {"SETUP", "LOBBY", "RUNNING", "ENDED", "REVEAL"}
LastStep == 4

(* A room, as far as the host can tell: the event it was created for and its
   lifecycle.                                                              *)
CreateBelow(id) == [of |-> id, state |-> "SETUP", step |-> -1]     \* mutant
Create(id) == [of |-> id, state |-> "SETUP", step |-> 0]

NewEvent(id) == [id |-> id, lock |-> None,
                 games |-> [g \in Games |-> [enabled |-> TRUE, room |-> Create(id)]]]

-----------------------------------------------------------------------------
(* What a game may do.  SETUP is bingo's SET_TRAITS too; PLAY is any action
   of the game that leaves its lifecycle alone.                            *)

BASE_ALLOWED == [SETUP |-> {"SETUP"}, LOBBY |-> {"START"}, RUNNING |-> {"END"},
                 ENDED |-> {"REVEAL"}, REVEAL |-> {"REVEAL"}]

MODULE_ALLOWED ==
    [bingo   |-> [SETUP |-> {"SETUP"}, LOBBY |-> {"PLAY"}, RUNNING |-> {"PLAY"},
                  ENDED |-> {"PLAY"}, REVEAL |-> {"PLAY"}],
     yutnori |-> [SETUP |-> {"SETUP"}, LOBBY |-> {"START"}, RUNNING |-> {"PLAY", "TICK"},
                  ENDED |-> {"RESUME_FROM_ENDED"}, REVEAL |-> {}]]

AllowedThen(g, a, room) ==    \* mutant: judged by the state the message arrived in
    a.t \in BASE_ALLOWED[a.before] \cup MODULE_ALLOWED[g][a.before]

AssertAllowed(g, a, room) ==
    a.t \in BASE_ALLOWED[room.state] \cup MODULE_ALLOWED[g][room.state]

(* The rooms the reducer may return for an action it is allowed.           *)
Apply(room, a) ==
    CASE a.t = "SETUP"             -> {[room EXCEPT !.state = "LOBBY"]}
      [] a.t = "START"             -> {[room EXCEPT !.state = "RUNNING"]}
      [] a.t = "PLAY"              -> {room}
      [] a.t = "TICK"              -> {room, [room EXCEPT !.state = "ENDED"]}
      [] a.t = "END"               -> {[room EXCEPT !.state = "ENDED"]}
      [] a.t = "RESUME_FROM_ENDED" -> {[room EXCEPT !.state = "RUNNING"]}
      [] a.t = "REVEAL" ->
            IF a.step = (IF room.state = "ENDED" THEN 0 ELSE room.step + 1) /\ a.step <= LastStep
            THEN {[room EXCEPT !.state = "REVEAL", !.step = a.step]} ELSE {}

(* Actions it may refuse for reasons of its own, or the invariants hook.   *)
MayRefuse == {"SETUP", "START", "PLAY", "END"}

-----------------------------------------------------------------------------
(* Who holds the projector, and who is told *)

(* hostGuards(): a reveal seizes the screen, before anything else is asked. *)
Seized(lock, g, a) == IF a.t = "REVEAL" THEN g ELSE lock

ReleasedByAny(lock, g, room) ==     \* mutant: whoever holds it
    IF room.state # "REVEAL" THEN None ELSE lock

(* releaseProjectorLock(): the game that holds it has left its reveal.     *)
Released(lock, g, room) == IF lock = g /\ room.state # "REVEAL" THEN None ELSE lock

ToEveryoneOnTransition(g, a, room) == room.state # a.before         \* mutant

(* After a commit the crowd gets the new picture on a transition, compared
   with the state the message arrived in, and after every action of a live
   game; a tick is pushed on a transition only.                            *)
ToEveryone(g, a, room) ==
    room.state # a.before \/ (g \in LiveProjection /\ a.t # "TICK")

-----------------------------------------------------------------------------
(* The dispatch loop *)

Room(g)    == event.games[g].room
Enabled(g) == event.games[g].enabled

Idle == \A g \in Games : queue[g] = <<>>

(* What dispatch does with the action at the head of a chain.              *)
Rejected(g, a) ==
    /\ event # None /\ Enabled(g) /\ AssertAllowed(g, a, Room(g))
          => a.t \in MayRefuse \/ Apply(Room(g), a) = {}
    /\ event' = IF event = None THEN None
                ELSE IF Enabled(g) THEN [event EXCEPT !.lock = Seized(@, g, a)] ELSE event
    /\ UNCHANGED <<crowd, overtaken>>

(* The room is the game's, and the lock let go of, before anyone is told.  *)
Commits(g, a, room) ==
    /\ AssertAllowed(g, a, Room(g))
    /\ event' = [event EXCEPT !.games[g].room = room,
                              !.lock = Released(Seized(@, g, a), g, room)]

Tell(g, a, room) ==
    /\ crowd' = IF ToEveryone(g, a, room) THEN [crowd EXCEPT ![g] = room.state] ELSE crowd
    /\ overtaken' = IF ToEveryone(g, a, room) /\ Len(queue[g]) = 1
                    THEN overtaken \ {g} ELSE overtaken

Committed(g, a) ==
    /\ event # None
    /\ Enabled(g)
    /\ \E room \in Apply(Room(g), a) : Commits(g, a, room) /\ Tell(g, a, room)

ChainWedged(q, ok) == IF ok THEN Tail(q) ELSE q     \* mutant: then(fn) alone
(* registry.lock: the next job runs however this one settled.              *)
Chained(q, ok) == Tail(q)

Settles(g, ok) ==
    /\ draining
    /\ queue[g] # <<>>
    /\ queue' = [queue EXCEPT ![g] = Chained(@, ok)]
    /\ draining' = (\E h \in Games : queue'[h] # <<>>)
    /\ UNCHANGED opened

Reject(g) == Settles(g, FALSE) /\ Rejected(g, Head(queue[g]))
Dispatch(g) == Settles(g, TRUE) /\ Committed(g, Head(queue[g]))

Run(g) == Reject(g) \/ Dispatch(g)

(* The handlers of this turn are done, its promise jobs come next.         *)
Drain ==
    /\ ~draining
    /\ ~Idle
    /\ draining' = TRUE
    /\ UNCHANGED <<event, opened, queue, crowd, overtaken>>

-----------------------------------------------------------------------------
(* The handlers *)

Queued == Len(queue["bingo"]) + Len(queue["yutnori"])

Enqueue(g, t, step) ==
    /\ ~draining
    /\ event # None
    /\ Queued < MaxQueued
    /\ queue' = [queue EXCEPT ![g] = Append(@, [t |-> t, step |-> step, before |-> Room(g).state])]
    /\ UNCHANGED <<event, opened, draining, crowd, overtaken>>

Routed(g) == {"SETUP", "START", "PLAY", "END"}
             \cup (IF g = "yutnori" THEN {"RESUME_FROM_ENDED"} ELSE {})

(* A message that route() makes an action of.                              *)
Message(g) == \/ \E t \in Routed(g) : Enqueue(g, t, 0)
              \/ \E step \in Steps : Enqueue(g, "REVEAL", step)

(* The ticker, for a game that is shown and running.                       *)
Tick(g) ==
    /\ event # None
    /\ g \in Ticks /\ Enabled(g) /\ Room(g).state = "RUNNING"
    /\ Enqueue(g, "TICK", 0)

(* A host operation acts at once, and leaves the chains as they are.       *)
AtOnce == ~draining /\ UNCHANGED <<queue, draining>>

Overtakes(games) == {g \in games : queue[g] # <<>>}

EventCreate ==
    /\ AtOnce
    /\ event = None
    /\ opened < MaxEvents
    /\ opened' = opened + 1
    /\ event' = NewEvent(opened')
    /\ crowd' = [g \in Games |-> "SETUP"]
    /\ overtaken' = Overtakes(Games)

(* event:reset closes the event and forgets it.                            *)
EventReset ==
    /\ AtOnce
    /\ event # None
    /\ event' = None
    /\ UNCHANGED <<opened, crowd, overtaken>>

Renew(g) ==
    /\ event # None
    /\ event' = [event EXCEPT !.games[g].room = Create(event.id),
                              !.lock = IF @ = g THEN None ELSE @]

GameReset(g) ==
    /\ AtOnce
    /\ Renew(g)
    /\ crowd' = [crowd EXCEPT ![g] = "SETUP"]
    /\ overtaken' = (overtaken \ {g}) \cup Overtakes({g})
    /\ UNCHANGED opened

GameEnable(g) ==
    /\ AtOnce
    /\ event # None
    /\ event' = [event EXCEPT !.games[g].enabled = ~@]
    /\ UNCHANGED <<opened, crowd, overtaken>>

(* The master takes the screen back.  (Which channel it then shows is left
   out: it is a setting nothing else depends on.)                          *)
ProjectorSet ==
    /\ AtOnce
    /\ event # None
    /\ event' = [event EXCEPT !.lock = None]
    /\ UNCHANGED <<opened, crowd, overtaken>>

-----------------------------------------------------------------------------
HostInit ==
    /\ event = None
    /\ opened = 0
    /\ queue = [g \in Games |-> <<>>]
    /\ draining = FALSE
    /\ crowd = [g \in Games |-> "SETUP"]
    /\ overtaken = {}

HostNext ==
    \/ \E g \in Games : Message(g) \/ Tick(g) \/ GameReset(g) \/ Run(g)
    \/ \E g \in Toggled : GameEnable(g)
    \/ EventCreate \/ EventReset \/ ProjectorSet \/ Drain

HostSpec == HostInit /\ [][HostNext]_hvars

(* The loop goes on: it gets to its promise jobs, and runs them.           *)
HostFairSpec == HostSpec /\ WF_hvars(Drain \/ \E g \in Games : Run(g))

-----------------------------------------------------------------------------
RoomRecords   == [of : Nat, state : States, step : 0..LastStep]
ActionRecords == [t : {"SETUP", "START", "PLAY", "TICK", "END", "RESUME_FROM_ENDED", "REVEAL"},
                  step : Nat, before : States]
EventRecords  == [id : Nat, lock : Games \cup {None},
                  games : [Games -> [enabled : BOOLEAN, room : RoomRecords]]]

(* null is no event.                                                       *)
ASSUME HostNoEvent == None \notin EventRecords

HostTypeOK ==
    /\ event \in EventRecords \cup {None}
    /\ opened \in Nat
    /\ queue \in [Games -> Seq(ActionRecords)]
    /\ draining \in BOOLEAN
    /\ crowd \in [Games -> States]
    /\ overtaken \subseteq Games

(* The room a game is in; before an event it is as good as new.            *)
Current(g) == IF event = None THEN Create(opened) ELSE Room(g)

G(g) == INSTANCE GameLifecycle WITH
           CanReopen  <- g = "yutnori",
           state      <- Current(g).state,
           revealStep <- Current(g).step

(* However messages, ticks and resets interleave, a game goes through its
   lifecycle: an action that waited in the chain is judged by the room it
   finds, not the one it was sent to.                                      *)
RoomsFollowLifecycle ==
    [][ \A g \in Games : \/ Current(g)' = Current(g)
                         \/ G(g)!Next
                         \/ Current(g)'.state = "SETUP" /\ queue' = queue ]_hvars

(* namespaces.ts:487: a transition always reaches everyone.  When the loop
   comes to rest the crowd has been sent the state each game is in, but for
   an action that a reset overtook in the chain, whose `before' is that of
   the room that is gone.                                                  *)
CrowdUpToDate ==
    event # None /\ Idle =>
        \A g \in Games \ overtaken : crowd[g] = Room(g).state

(* A reveal keeps the screen: while it lasts no action of any game takes the
   projector from it, but another reveal.                                  *)
RevealKeepsScreen ==
    [][ \A g \in Games :
          /\ event # None /\ event.lock = g /\ Room(g).state = "REVEAL"
          /\ draining /\ event'.lock # g
          => \E h \in Games \ {g} :
                /\ event'.lock = h
                /\ queue[h] # <<>> /\ Head(queue[h]).t = "REVEAL" ]_hvars

(* registry.ts:85: one rejected action cannot wedge the game.  Every action is
   answered.                                                               *)
EveryActionSettles == ~Idle ~> Idle
=============================================================================
