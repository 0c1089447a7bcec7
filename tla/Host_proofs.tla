------------------------------ MODULE Host_proofs ------------------------------
(***************************************************************************)
(* What holds of the host for every number of events and queued actions:   *)
(* types, the lifecycle of both games however messages, ticks and resets   *)
(* interleave, a reveal that keeps the screen, a crowd that is told.       *)
(***************************************************************************)
EXTENDS HostStore, TLAPS

(* The order of the lifecycle, which bingo never goes back in.             *)
Rank == [SETUP |-> 0, LOBBY |-> 1, RUNNING |-> 2, ENDED |-> 3, REVEAL |-> 4]

-----------------------------------------------------------------------------
(* The operators of the host *)

LEMMA CreateType ==
    ASSUME NEW id \in Nat
    PROVE  Create(id) \in RoomRecords /\ Create(id).state = "SETUP" /\ Create(id).step = 0
BY DEF Create, RoomRecords, States, LastStep

LEMMA NewEventType ==
    ASSUME NEW id \in Nat
    PROVE  /\ NewEvent(id) \in EventRecords
           /\ NewEvent(id).id = id /\ NewEvent(id).lock = None
           /\ \A g \in Games : NewEvent(id).games[g].room = Create(id)
BY CreateType DEF NewEvent, EventRecords

(* A game that whoever asks may be in, and what an event is made of.       *)
LEMMA EventParts ==
    ASSUME HostTypeOK, event # None
    PROVE  /\ event \in EventRecords /\ event.id \in Nat
           /\ \A g \in Games : Room(g) \in RoomRecords /\ Room(g).state \in States
BY DEF HostTypeOK, EventRecords, RoomRecords, Room

(* Setting a room and the lock leaves the rest of the event as it is.      *)
With(e, g, room, lock) == [e EXCEPT !.games[g].room = room, !.lock = lock]

LEMMA WithRoom ==
    ASSUME NEW e \in EventRecords, NEW g \in Games, NEW room \in RoomRecords,
           NEW lock \in Games \cup {None}
    PROVE  /\ With(e, g, room, lock) \in EventRecords
           /\ With(e, g, room, lock).id = e.id /\ With(e, g, room, lock).lock = lock
           /\ With(e, g, room, lock).games[g].room = room
           /\ \A h \in Games \ {g} : With(e, g, room, lock).games[h].room = e.games[h].room
BY DEF EventRecords, With

(* An action that is allowed leaves a game where it was or takes it one step
   on in its lifecycle; only yutnori goes back, from its end.              *)
LEMMA ApplySteps ==
    ASSUME NEW g \in Games, NEW room \in RoomRecords, NEW a \in ActionRecords,
           AssertAllowed(g, a, room), NEW r \in Apply(room, a)
    PROVE  /\ r \in RoomRecords /\ r.of = room.of
           /\ \/ r = room
              \/ room.state = "SETUP"   /\ r.state = "LOBBY"   /\ r.step = room.step
              \/ room.state = "LOBBY"   /\ r.state = "RUNNING" /\ r.step = room.step
              \/ room.state = "RUNNING" /\ r.state = "ENDED"   /\ r.step = room.step
              \/ /\ room.state = "ENDED" /\ r.state = "RUNNING" /\ r.step = room.step
                 /\ g = "yutnori" /\ a.t # "TICK"
              \/ room.state = "ENDED"   /\ r.state = "REVEAL"  /\ r.step = 0
              \/ /\ room.state = "REVEAL" /\ r.state = "REVEAL"
                 /\ r.step = room.step + 1 /\ room.step < LastStep
           /\ a.t = "TICK" /\ r # room => room.state = "RUNNING" /\ r.state = "ENDED"
<1>1. /\ a.t \in {"SETUP", "START", "PLAY", "TICK", "END", "RESUME_FROM_ENDED", "REVEAL"}
      /\ a.step \in Nat /\ room.state \in States /\ room.step \in 0..LastStep
  BY DEF ActionRecords, RoomRecords
<1>2. a.t \in BASE_ALLOWED[room.state] \cup MODULE_ALLOWED[g][room.state]
  BY DEF AssertAllowed
<1>3. CASE a.t = "SETUP"
  <2>1. room.state = "SETUP"
    BY <1>1, <1>2, <1>3 DEF BASE_ALLOWED, MODULE_ALLOWED, States, Games
  <2> QED BY <1>3, <2>1 DEF Apply, RoomRecords, States
<1>4. CASE a.t = "START"
  <2>1. room.state = "LOBBY"
    BY <1>1, <1>2, <1>4 DEF BASE_ALLOWED, MODULE_ALLOWED, States, Games
  <2> QED BY <1>4, <2>1 DEF Apply, RoomRecords, States
<1>5. CASE a.t = "PLAY"
  BY <1>5 DEF Apply
<1>6. CASE a.t = "TICK"
  <2>1. room.state = "RUNNING"
    BY <1>1, <1>2, <1>6 DEF BASE_ALLOWED, MODULE_ALLOWED, States, Games
  <2> QED BY <1>6, <2>1 DEF Apply, RoomRecords, States
<1>7. CASE a.t = "END"
  <2>1. room.state = "RUNNING"
    BY <1>1, <1>2, <1>7 DEF BASE_ALLOWED, MODULE_ALLOWED, States, Games
  <2> QED BY <1>7, <2>1 DEF Apply, RoomRecords, States
<1>8. CASE a.t = "RESUME_FROM_ENDED"
  <2>1. room.state = "ENDED" /\ g = "yutnori"
    BY <1>1, <1>2, <1>8 DEF BASE_ALLOWED, MODULE_ALLOWED, States, Games
  <2> QED BY <1>8, <2>1 DEF Apply, RoomRecords, States
<1>9. CASE a.t = "REVEAL"
  <2>1. room.state = "ENDED" \/ room.state = "REVEAL"
    BY <1>1, <1>2, <1>9 DEF BASE_ALLOWED, MODULE_ALLOWED, States, Games
  <2>2. /\ a.step = (IF room.state = "ENDED" THEN 0 ELSE room.step + 1)
        /\ a.step <= LastStep
        /\ r = [room EXCEPT !.state = "REVEAL", !.step = a.step]
    BY <1>9 DEF Apply
  <2>3. a.step \in 0..LastStep
    BY <1>1, <2>2 DEF LastStep
  <2>4. /\ r.state = "REVEAL" /\ r.step = a.step /\ r.of = room.of
        /\ r \in RoomRecords
    BY <2>2, <2>3 DEF RoomRecords, States
  <2>5. CASE room.state = "ENDED"
    BY <1>9, <2>2, <2>4, <2>5
  <2>6. CASE room.state = "REVEAL"
    BY <1>1, <1>9, <2>2, <2>4, <2>6 DEF LastStep
  <2> QED BY <2>1, <2>5, <2>6
<1> QED BY <1>1, <1>3, <1>4, <1>5, <1>6, <1>7, <1>8, <1>9
-----------------------------------------------------------------------------
(* Types *)

(* A state the crowd may have been sent, and the actions in the chains.    *)
LEMMA QueuesType ==
    ASSUME HostTypeOK, NEW g \in Games, queue[g] # <<>>
    PROVE  /\ queue[g] \in Seq(ActionRecords) /\ Head(queue[g]) \in ActionRecords
           /\ Tail(queue[g]) \in Seq(ActionRecords)
BY DEF HostTypeOK

LEMMA SettlesType ==
    ASSUME HostTypeOK, NEW g \in Games, NEW ok \in BOOLEAN, Settles(g, ok)
    PROVE  opened' \in Nat /\ queue' \in [Games -> Seq(ActionRecords)] /\ draining' \in BOOLEAN
BY QueuesType DEF HostTypeOK, Settles, Chained

LEMMA SeizedType ==
    ASSUME NEW g \in Games, NEW a \in ActionRecords, NEW lock \in Games \cup {None}, NEW room
    PROVE  Seized(lock, g, a) \in Games \cup {None} /\ Released(lock, g, room) \in Games \cup {None}
BY DEF Seized, Released

LEMMA CommitsType ==
    ASSUME HostTypeOK, event # None, NEW g \in Games, NEW a \in ActionRecords,
           NEW room \in Apply(Room(g), a), Commits(g, a, room)
    PROVE  /\ event' \in EventRecords /\ event' # None /\ event'.id = event.id
           /\ Room(g)' = room /\ room \in RoomRecords /\ room.state \in States
           /\ event'.lock = Released(Seized(event.lock, g, a), g, room)
           /\ \A h \in Games \ {g} : Room(h)' = Room(h)
<1> DEFINE lock == Released(Seized(event.lock, g, a), g, room)
<1>1. event \in EventRecords /\ Room(g) \in RoomRecords
  BY EventParts
<1>2. room \in RoomRecords
  BY <1>1, ApplySteps DEF Commits
<1>3. event.lock \in Games \cup {None}
  BY <1>1 DEF EventRecords
<1>4. lock \in Games \cup {None}
  BY <1>3, SeizedType
<1>5. event' = With(event, g, room, lock)
  BY DEF Commits, With
<1> HIDE DEF lock
<1>6. /\ With(event, g, room, lock) \in EventRecords
      /\ With(event, g, room, lock).id = event.id /\ With(event, g, room, lock).lock = lock
      /\ With(event, g, room, lock).games[g].room = room
      /\ \A h \in Games \ {g} : With(event, g, room, lock).games[h].room = event.games[h].room
  BY <1>1, <1>2, <1>4, WithRoom
<1> QED BY <1>2, <1>5, <1>6, HostNoEvent DEF Room, lock, RoomRecords

LEMMA RenewType ==
    ASSUME HostTypeOK, NEW g \in Games, Renew(g)
    PROVE  /\ event' \in EventRecords /\ event' # None /\ event'.id = event.id
           /\ Room(g)' = Create(event.id)
           /\ \A h \in Games \ {g} : Room(h)' = Room(h)
<1> DEFINE lock == IF event.lock = g THEN None ELSE event.lock
           room == Create(event.id)
<1>1. event \in EventRecords /\ event.id \in Nat
  BY EventParts DEF Renew
<1>2. room \in RoomRecords /\ lock \in Games \cup {None}
  BY <1>1, CreateType DEF EventRecords
<1>3. event' = With(event, g, room, lock)
  BY DEF Renew, With
<1> HIDE DEF lock, room
<1>4. /\ event' \in EventRecords /\ event'.id = event.id
      /\ event'.games[g].room = room
      /\ \A h \in Games \ {g} : event'.games[h].room = event.games[h].room
  BY <1>1, <1>2, <1>3, WithRoom
<1> QED BY <1>4, HostNoEvent DEF Room, room

(* An action that is refused may take the screen all the same.             *)
LEMMA RejectedType ==
    ASSUME HostTypeOK, event # None, NEW g \in Games, NEW a \in ActionRecords, Rejected(g, a)
    PROVE  /\ event' \in EventRecords /\ event' # None
           /\ event'.id = event.id /\ event'.games = event.games
           /\ event'.lock \in {event.lock, Seized(event.lock, g, a)}
<1>1. event \in EventRecords /\ event.lock \in Games \cup {None}
  BY EventParts DEF EventRecords
<1>2. Seized(event.lock, g, a) \in Games \cup {None}
  BY <1>1, SeizedType
<1>3. event' = event \/ event' = [event EXCEPT !.lock = Seized(event.lock, g, a)]
  BY DEF Rejected
<1>4. event' \in EventRecords
  BY <1>1, <1>2, <1>3 DEF EventRecords
<1> QED BY <1>1, <1>3, <1>4, HostNoEvent DEF EventRecords

(* Hiding and showing a game leaves the rooms alone, and so does the screen. *)
LEMMA SettingType ==
    ASSUME HostTypeOK, ProjectorSet \/ \E g \in Toggled : GameEnable(g)
    PROVE  /\ event \in EventRecords /\ event' \in EventRecords
           /\ event # None /\ event' # None /\ event'.id = event.id
           /\ \A g \in Games : Room(g)' = Room(g)
<1>1. event # None /\ event \in EventRecords
  BY EventParts DEF ProjectorSet, GameEnable
<1>2. CASE ProjectorSet
  <2>1. event' \in EventRecords
    BY <1>1, <1>2 DEF ProjectorSet, EventRecords
  <2> QED BY <1>1, <1>2, <2>1, HostNoEvent DEF ProjectorSet, EventRecords, Room
<1>3. ASSUME NEW h \in Toggled, GameEnable(h)
      PROVE  event' \in EventRecords /\ event'.id = event.id /\ \A g \in Games : Room(g)' = Room(g)
  BY <1>1, <1>3 DEF GameEnable, EventRecords, Room
<1> QED BY <1>1, <1>2, <1>3, HostNoEvent

LEMMA HostTypeInit == HostInit => HostTypeOK
<1> SUFFICES ASSUME HostInit PROVE HostTypeOK
  OBVIOUS
<1>1. queue \in [Games -> Seq(ActionRecords)]
  BY DEF HostInit
<1>2. crowd \in [Games -> States]
  BY DEF HostInit, States
<1> QED BY <1>1, <1>2 DEF HostInit, HostTypeOK

LEMMA HostTypeNext == HostTypeOK /\ [HostNext]_hvars => HostTypeOK'
<1> SUFFICES ASSUME HostTypeOK, [HostNext]_hvars PROVE HostTypeOK'
  OBVIOUS
<1>1. ASSUME NEW g \in Games, Message(g) \/ Tick(g) PROVE HostTypeOK'
  <2>1. ASSUME NEW t \in {"SETUP", "START", "PLAY", "TICK", "END", "RESUME_FROM_ENDED", "REVEAL"},
               NEW step \in Nat, Enqueue(g, t, step)
        PROVE  HostTypeOK'
    <3>1. [t |-> t, step |-> step, before |-> Room(g).state] \in ActionRecords
      BY <2>1, EventParts DEF Enqueue, ActionRecords
    <3> QED BY <2>1, <3>1 DEF Enqueue, HostTypeOK
  <2> QED BY <1>1, <2>1, StepsAssumption DEF Message, Tick, Routed
<1>2. ASSUME NEW g \in Games, GameReset(g) PROVE HostTypeOK'
  BY <1>2, RenewType DEF GameReset, AtOnce, HostTypeOK, Overtakes, States
<1>3. ASSUME NEW g \in Games, Reject(g) PROVE HostTypeOK'
  <2> DEFINE a == Head(queue[g])
  <2>1. Settles(g, FALSE) /\ Rejected(g, a)
    BY <1>3 DEF Reject
  <2>2. a \in ActionRecords
    BY <2>1, QueuesType DEF Settles
  <2> HIDE DEF a
  <2>3. event' \in EventRecords \cup {None}
    BY <2>1, <2>2, RejectedType DEF Rejected
  <2> QED BY <2>1, <2>3, SettlesType DEF Rejected, HostTypeOK
<1>4. ASSUME NEW g \in Games, Dispatch(g) PROVE HostTypeOK'
  <2> DEFINE a == Head(queue[g])
  <2>1. Settles(g, TRUE) /\ Committed(g, a)
    BY <1>4 DEF Dispatch
  <2>2. a \in ActionRecords
    BY <2>1, QueuesType DEF Settles
  <2> HIDE DEF a
  <2>3. PICK room \in Apply(Room(g), a) : Commits(g, a, room) /\ Tell(g, a, room)
    BY <2>1 DEF Committed
  <2>4. event' \in EventRecords /\ room.state \in States
    BY <2>1, <2>2, <2>3, CommitsType DEF Committed
  <2>5. crowd' \in [Games -> States] /\ overtaken' \subseteq Games
    BY <2>3, <2>4 DEF Tell, HostTypeOK
  <2> QED BY <2>1, <2>4, <2>5, SettlesType DEF HostTypeOK
<1>5. ASSUME NEW g \in Toggled, GameEnable(g) PROVE HostTypeOK'
  <2>1. event' \in EventRecords
    BY <1>5, SettingType
  <2> QED BY <1>5, <2>1 DEF GameEnable, AtOnce, HostTypeOK
<1>6. CASE EventCreate
  <2>1. opened' \in Nat /\ event' \in EventRecords
    BY <1>6, NewEventType DEF EventCreate, HostTypeOK
  <2> QED BY <1>6, <2>1 DEF EventCreate, AtOnce, HostTypeOK, Overtakes, States
<1>7. CASE EventReset
  BY <1>7 DEF EventReset, AtOnce, HostTypeOK
<1>8. CASE ProjectorSet
  <2>1. event' \in EventRecords
    BY <1>8, SettingType
  <2> QED BY <1>8, <2>1 DEF ProjectorSet, AtOnce, HostTypeOK
<1>9. CASE Drain
  BY <1>9 DEF Drain, HostTypeOK
<1>10. CASE UNCHANGED hvars
  BY <1>10 DEF hvars, HostTypeOK
<1> QED BY <1>1, <1>2, <1>3, <1>4, <1>5, <1>6, <1>7, <1>8, <1>9, <1>10 DEF HostNext, Run

(* Every variable of the host keeps its type.                              *)
THEOREM HostTypesHold == HostSpec => []HostTypeOK
BY HostTypeInit, HostTypeNext, PTL DEF HostSpec
-----------------------------------------------------------------------------
(* The projector *)

(* A reveal keeps the screen until another one takes it: no action that runs
   in between does, and none is seized by one that is not a reveal.        *)
THEOREM RevealHoldsScreen == HostSpec => RevealKeepsScreen
<1>1. ASSUME HostTypeOK, [HostNext]_hvars, NEW g \in Games,
             event # None, event.lock = g, Room(g).state = "REVEAL", draining, event'.lock # g
      PROVE  \E h \in Games \ {g} :
                event'.lock = h /\ queue[h] # <<>> /\ Head(queue[h]).t = "REVEAL"
  <2>1. PICK h \in Games : Reject(h) \/ Dispatch(h)
    BY <1>1 DEF HostNext, Run, Message, Tick, Enqueue, GameReset, GameEnable, EventCreate,
                EventReset, ProjectorSet, AtOnce, Drain, hvars
  <2> DEFINE a == Head(queue[h])
  <2>2. queue[h] # <<>> /\ a \in ActionRecords
    BY <1>1, <2>1, QueuesType DEF Reject, Dispatch, Settles
  <2>3. CASE Reject(h)
    <3>1. Rejected(h, a)
      BY <2>3 DEF Reject
    <3> HIDE DEF a
    <3>2. event'.lock \in {event.lock, Seized(event.lock, h, a)}
      BY <1>1, <2>2, <3>1, RejectedType
    <3>3. a.t = "REVEAL" /\ h # g /\ event'.lock = h
      BY <1>1, <3>2 DEF Seized
    <3> QED BY <2>2, <3>3 DEF a
  <2>4. CASE Dispatch(h)
    <3>1. PICK room \in Apply(Room(h), a) : Commits(h, a, room)
      BY <2>4 DEF Dispatch, Committed
    <3> HIDE DEF a
    <3>2. event'.lock = Released(Seized(event.lock, h, a), h, room)
      BY <1>1, <2>2, <3>1, CommitsType
    <3>3. Room(h) \in RoomRecords /\ AssertAllowed(h, a, Room(h))
      BY <1>1, <3>1, EventParts DEF Commits
    <3>4. CASE a.t = "REVEAL"
      <4>1. room.state = "REVEAL"
        BY <3>1, <3>3, <3>4 DEF Apply, RoomRecords
      <4>2. event'.lock = h
        BY <3>2, <3>4, <4>1 DEF Seized, Released
      <4> QED BY <1>1, <2>2, <3>4, <4>2 DEF a
    <3>5. CASE a.t # "REVEAL"
      <4>1. Room(h).state = "REVEAL" => room.state = "REVEAL"
        BY <2>2, <3>1, <3>3, ApplySteps
      <4>2. event'.lock = g
        BY <1>1, <3>2, <3>5, <4>1 DEF Seized, Released
      <4> QED BY <1>1, <4>2
    <3> QED BY <3>4, <3>5
  <2> QED BY <2>1, <2>3, <2>4
<1>2. HostTypeOK /\ [HostNext]_hvars =>
         [\A g \in Games :
            /\ event # None /\ event.lock = g /\ Room(g).state = "REVEAL"
            /\ draining /\ event'.lock # g
            => \E h \in Games \ {g} :
                  /\ event'.lock = h
                  /\ queue[h] # <<>> /\ Head(queue[h]).t = "REVEAL"]_hvars
  BY <1>1
<1> QED BY <1>2, HostTypesHold, PTL DEF HostSpec, RevealKeepsScreen

-----------------------------------------------------------------------------
(* The lifecycle *)

(* A room goes on within its lifecycle, starts over, or stays.             *)
LEMMA LifecycleStep ==
    ASSUME HostTypeOK, [HostNext]_hvars, NEW g \in Games
    PROVE  \/ Current(g)' = Current(g)
           \/ G(g)!Next
           \/ Current(g)'.state = "SETUP" /\ queue' = queue
<1>1. opened \in Nat /\ opened' \in Nat /\ HostTypeOK'
  BY HostTypeNext DEF HostTypeOK
<1>2. ASSUME NEW h \in Games, Message(h) \/ Tick(h) PROVE Current(g)' = Current(g)
  BY <1>2 DEF Message, Tick, Enqueue, Current, Room
<1>3. ASSUME NEW h \in Games, GameReset(h)
      PROVE  Current(g)' = Current(g) \/ (Current(g)'.state = "SETUP" /\ queue' = queue)
  <2>1. /\ event # None /\ event' # None /\ queue' = queue
        /\ Room(h)' = Create(event.id) /\ (g # h => Room(g)' = Room(g))
    BY <1>3, RenewType DEF GameReset, AtOnce, Renew
  <2>2. Create(event.id).state = "SETUP"
    BY DEF Create
  <2> QED BY <2>1, <2>2 DEF Current
<1>4. ASSUME NEW h \in Games, Reject(h) PROVE Current(g)' = Current(g)
  <2> DEFINE a == Head(queue[h])
  <2>1. Rejected(h, a) /\ opened' = opened
    BY <1>4 DEF Reject, Settles
  <2>2. a \in ActionRecords
    BY <1>4, QueuesType DEF Reject, Settles
  <2> HIDE DEF a
  <2>3. CASE event = None
    BY <2>1, <2>3 DEF Rejected, Current
  <2>4. CASE event # None
    BY <2>1, <2>2, <2>4, RejectedType DEF Current, Room
  <2> QED BY <2>3, <2>4
<1>5. ASSUME NEW h \in Games, Dispatch(h) PROVE Current(g)' = Current(g) \/ G(g)!Next
  <2> DEFINE a == Head(queue[h])
  <2>1. event # None /\ queue[h] # <<>>
    BY <1>5 DEF Dispatch, Committed, Settles
  <2>2. PICK room \in Apply(Room(h), a) : Commits(h, a, room)
    BY <1>5 DEF Dispatch, Committed
  <2>3. a \in ActionRecords
    BY <2>1, QueuesType
  <2> HIDE DEF a
  <2>4. event' # None /\ Room(h)' = room /\ (g # h => Room(g)' = Room(g))
    BY <2>1, <2>2, <2>3, CommitsType
  <2>5. Room(h) \in RoomRecords /\ AssertAllowed(h, a, Room(h))
    BY <2>1, <2>2, EventParts DEF Commits
  <2>6. CASE g # h
    BY <2>1, <2>4, <2>6 DEF Current
  <2>7. CASE g = h
    <3>1. Current(g) = Room(g) /\ Current(g)' = room
      BY <2>1, <2>4, <2>7 DEF Current
    <3>2. Room(g).step \in Nat
      BY <2>5, <2>7 DEF RoomRecords
    <3>3. \/ room = Room(g)
          \/ G(g)!Next
      BY <2>2, <2>3, <2>5, <2>7, <3>1, <3>2, ApplySteps DEF G!Next, G!Become, G!Last, LastStep
    <3> QED BY <3>1, <3>3
  <2> QED BY <2>6, <2>7
<1>6. CASE ProjectorSet \/ \E h \in Toggled : GameEnable(h)
  BY <1>6, SettingType DEF Current
<1>7. CASE EventCreate \/ EventReset
  <2>1. queue' = queue
    BY <1>7 DEF EventCreate, EventReset, AtOnce
  <2>2. Current(g)'.state = "SETUP"
    <3>1. CASE EventReset
      BY <3>1, <1>1, CreateType DEF EventReset, Current
    <3>2. CASE EventCreate
      <4>1. event' = NewEvent(opened') /\ opened' \in Nat
        BY <3>2, <1>1 DEF EventCreate
      <4>2. NewEvent(opened') \in EventRecords /\ NewEvent(opened').games[g].room = Create(opened')
        BY <4>1, NewEventType
      <4>3. event' # None /\ Room(g)' = Create(opened')
        BY <4>1, <4>2, HostNoEvent DEF Room
      <4> QED BY <4>1, <4>3, CreateType DEF Current
    <3> QED BY <1>7, <3>1, <3>2
  <2> QED BY <2>1, <2>2
<1>8. CASE Drain \/ UNCHANGED hvars
  BY <1>8 DEF Drain, hvars, Current, Room
<1> QED BY <1>2, <1>3, <1>4, <1>5, <1>6, <1>7, <1>8 DEF HostNext, Run

(* However messages, ticks, resets and the runs of the chains interleave, each
   game goes through its lifecycle.                                        *)
THEOREM RoomsKeepLifecycle == HostSpec => RoomsFollowLifecycle
<1>1. HostTypeOK /\ [HostNext]_hvars =>
         [\A g \in Games : \/ Current(g)' = Current(g)
                           \/ G(g)!Next
                           \/ Current(g)'.state = "SETUP" /\ queue' = queue]_hvars
  BY LifecycleStep
<1> QED BY <1>1, HostTypesHold, PTL DEF HostSpec, RoomsFollowLifecycle
-----------------------------------------------------------------------------
(* The crowd *)

(* The invariant behind CrowdUpToDate, which is about a loop at rest and so
   says nothing of the steps to it: the crowd is up to date after every step,
   because an action that nobody is told of left the room in the state the
   crowd has.  For a tick that is so because it was sent to a running game;
   for bingo because no action in the chain was sent to a later state than
   the game is in, and the game does not go back.                          *)
QueueFollows(g) ==
    \A i \in 1..Len(queue[g]) :
        LET a == queue[g][i]
        IN  /\ a.t = "TICK" => g = "yutnori" /\ a.before = "RUNNING"
            /\ g = "bingo" => Rank[a.before] <= Rank[Room(g).state]

CrowdInv ==
    /\ HostTypeOK
    /\ event # None =>
         \A g \in Games \ overtaken : crowd[g] = Room(g).state /\ QueueFollows(g)

(* A chain that lost its head follows the room it followed, and one the room
   moved on under, too.                                                    *)
LEMMA TailFollows ==
    ASSUME HostTypeOK, NEW g \in Games, queue[g] # <<>>, queue'[g] = Tail(queue[g]),
           QueueFollows(g), Room(g).state \in States, Room(g)'.state \in States,
           g = "bingo" => Rank[Room(g).state] <= Rank[Room(g)'.state]
    PROVE  QueueFollows(g)'
<1> SUFFICES ASSUME NEW i \in 1..Len(queue'[g])
             PROVE  /\ queue'[g][i].t = "TICK" => g = "yutnori" /\ queue'[g][i].before = "RUNNING"
                    /\ g = "bingo" => Rank[queue'[g][i].before] <= Rank[Room(g)'.state]
  BY DEF QueueFollows
<1>1. queue[g] \in Seq(ActionRecords)
  BY QueuesType
<1>2. i + 1 \in 1..Len(queue[g]) /\ queue'[g][i] = queue[g][i + 1]
  BY <1>1
<1>3. queue[g][i + 1] \in ActionRecords
  BY <1>1, <1>2
<1>4. \A s \in States : Rank[s] \in Nat
  BY DEF States, Rank
<1> QED BY <1>2, <1>3, <1>4 DEF QueueFollows, ActionRecords

LEMMA CrowdInit == HostInit => CrowdInv
BY HostTypeInit DEF HostInit, CrowdInv

LEMMA CrowdNext == CrowdInv /\ [HostNext]_hvars => CrowdInv'
<1> SUFFICES ASSUME CrowdInv, [HostNext]_hvars, event' # None,
                    NEW g \in Games, g \notin overtaken'
             PROVE  crowd'[g] = Room(g)'.state /\ QueueFollows(g)'
  BY HostTypeNext DEF CrowdInv
<1>1. HostTypeOK /\ HostTypeOK'
  BY HostTypeNext DEF CrowdInv
<1>2. event # None /\ g \notin overtaken => crowd[g] = Room(g).state /\ QueueFollows(g)
  BY DEF CrowdInv
<1>3. ASSUME event # None, Room(g)' = Room(g), UNCHANGED <<queue, crowd, overtaken>>
      PROVE  crowd'[g] = Room(g)'.state /\ QueueFollows(g)'
  BY <1>2, <1>3 DEF QueueFollows
<1>4. ASSUME NEW h \in Games,
             NEW t \in {"SETUP", "START", "PLAY", "TICK", "END", "RESUME_FROM_ENDED", "REVEAL"},
             NEW step \in Nat, Enqueue(h, t, step),
             t = "TICK" => h = "yutnori" /\ Room(h).state = "RUNNING"
      PROVE  crowd'[g] = Room(g)'.state /\ QueueFollows(g)'
  <2> DEFINE a == [t |-> t, step |-> step, before |-> Room(h).state]
  <2>1. /\ event # None /\ Room(g)' = Room(g) /\ UNCHANGED <<crowd, overtaken>>
        /\ queue' = [queue EXCEPT ![h] = Append(@, a)]
    BY <1>4 DEF Enqueue, Room
  <2>2. crowd[g] = Room(g).state /\ QueueFollows(g)
    BY <1>2, <2>1
  <2>3. CASE g # h
    BY <1>1, <2>1, <2>2, <2>3 DEF QueueFollows, HostTypeOK
  <2>4. CASE g = h
    <3>1. queue[g] \in Seq(ActionRecords) /\ Room(g).state \in States
      BY <1>1, <2>1, EventParts DEF HostTypeOK
    <3>2. queue'[g] = Append(queue[g], a)
      BY <1>1, <2>1, <2>4 DEF HostTypeOK
    <3>3. Rank[Room(g).state] <= Rank[Room(g).state]
      BY <3>1 DEF States, Rank
    <3>4. /\ a.t = "TICK" => g = "yutnori" /\ a.before = "RUNNING"
          /\ g = "bingo" => Rank[a.before] <= Rank[Room(g).state]
      BY <1>4, <2>4, <3>3
    <3> HIDE DEF a
    <3>5. ASSUME NEW i \in 1..Len(queue'[g])
          PROVE  (i \in 1..Len(queue[g]) /\ queue'[g][i] = queue[g][i]) \/ queue'[g][i] = a
      BY <3>1, <3>2, <3>5
    <3> QED BY <2>1, <2>2, <3>4, <3>5 DEF QueueFollows
  <2> QED BY <2>3, <2>4
<1>5. ASSUME NEW h \in Games, Message(h) \/ Tick(h)
      PROVE  crowd'[g] = Room(g)'.state /\ QueueFollows(g)'
  BY <1>4, <1>5, StepsAssumption DEF Message, Tick, Routed, Ticks
<1>6. ASSUME NEW h \in Games, GameReset(h)
      PROVE  crowd'[g] = Room(g)'.state /\ QueueFollows(g)'
  <2>1. /\ event # None /\ queue' = queue /\ Room(h)' = Create(event.id)
        /\ (g # h => Room(g)' = Room(g))
        /\ crowd' = [crowd EXCEPT ![h] = "SETUP"]
        /\ overtaken' = (overtaken \ {h}) \cup Overtakes({h})
    BY <1>1, <1>6, RenewType DEF GameReset, AtOnce, Renew
  <2>2. CASE g # h
    BY <1>1, <1>2, <2>1, <2>2 DEF QueueFollows, HostTypeOK
  <2>3. CASE g = h
    <3>1. queue'[g] = <<>>
      BY <2>1, <2>3 DEF Overtakes
    <3>2. crowd'[g] = "SETUP"
      BY <1>1, <2>1, <2>3 DEF HostTypeOK
    <3> QED BY <2>1, <2>3, <3>1, <3>2 DEF Create, QueueFollows
  <2> QED BY <2>2, <2>3
<1>7. ASSUME NEW h \in Games, Reject(h)
      PROVE  crowd'[g] = Room(g)'.state /\ QueueFollows(g)'
  <2> DEFINE a == Head(queue[h])
  <2>1. /\ event # None /\ UNCHANGED <<crowd, overtaken>> /\ Rejected(h, a)
        /\ queue[h] # <<>> /\ queue' = [queue EXCEPT ![h] = Tail(@)]
    BY <1>7 DEF Reject, Rejected, Settles, Chained
  <2>2. a \in ActionRecords
    BY <1>1, <2>1, QueuesType
  <2> HIDE DEF a
  <2>3. Room(g)' = Room(g) /\ Room(g).state \in States
    BY <1>1, <2>1, <2>2, RejectedType, EventParts DEF Room
  <2>4. crowd[g] = Room(g).state /\ QueueFollows(g)
    BY <1>2, <2>1
  <2>5. CASE g # h
    BY <1>1, <2>1, <2>3, <2>4, <2>5 DEF QueueFollows, HostTypeOK
  <2>6. CASE g = h
    <3>1. queue'[g] = Tail(queue[g]) /\ Rank[Room(g).state] <= Rank[Room(g)'.state]
      BY <1>1, <2>1, <2>3, <2>6 DEF HostTypeOK, States, Rank
    <3> QED BY <1>1, <2>1, <2>3, <2>4, <2>6, <3>1, TailFollows
  <2> QED BY <2>5, <2>6
<1>8. ASSUME NEW h \in Games, Dispatch(h)
      PROVE  crowd'[g] = Room(g)'.state /\ QueueFollows(g)'
  <2> DEFINE a == Head(queue[h])
  <2>1. /\ event # None /\ queue[h] # <<>> /\ queue' = [queue EXCEPT ![h] = Tail(@)]
    BY <1>8 DEF Dispatch, Committed, Settles, Chained
  <2>2. a \in ActionRecords /\ queue[h] \in Seq(ActionRecords)
    BY <1>1, <2>1, QueuesType
  <2>3. a = queue[h][1] /\ 1 \in 1..Len(queue[h])
    BY <2>1, <2>2
  <2>4. PICK room \in Apply(Room(h), a) : Commits(h, a, room) /\ Tell(h, a, room)
    BY <1>8 DEF Dispatch, Committed
  <2> HIDE DEF a
  <2>5. /\ Room(h)' = room /\ room.state \in States
        /\ (g # h => Room(g)' = Room(g))
    BY <1>1, <2>1, <2>2, <2>4, CommitsType
  <2>6. Room(h) \in RoomRecords /\ Room(h).state \in States /\ AssertAllowed(h, a, Room(h))
    BY <1>1, <2>1, <2>4, EventParts DEF Commits
  <2>7. CASE g # h
    <3>1. crowd'[g] = crowd[g] /\ g \notin overtaken /\ queue'[g] = queue[g]
      BY <1>1, <2>1, <2>4, <2>7 DEF Tell, HostTypeOK
    <3> QED BY <1>2, <2>1, <2>5, <2>7, <3>1 DEF QueueFollows
  <2>8. CASE g = h /\ g \in overtaken
    <3>1. ToEveryone(g, a, room) /\ Len(queue[g]) = 1
      BY <2>4, <2>8 DEF Tell
    <3>2. crowd'[g] = room.state
      BY <1>1, <2>4, <2>8, <3>1 DEF Tell, HostTypeOK
    <3>3. queue'[g] = <<>>
      BY <1>1, <2>1, <2>2, <2>8, <3>1 DEF HostTypeOK
    <3> QED BY <2>5, <2>8, <3>2, <3>3 DEF QueueFollows
  <2>9. CASE g = h /\ g \notin overtaken
    <3>1. crowd[g] = Room(g).state /\ QueueFollows(g)
      BY <1>2, <2>1, <2>9
    <3>2. /\ a.t = "TICK" => g = "yutnori" /\ a.before = "RUNNING"
          /\ g = "bingo" => Rank[a.before] <= Rank[Room(g).state]
      BY <2>3, <2>9, <3>1 DEF QueueFollows
    <3>3. g = "bingo" => Rank[Room(g).state] <= Rank[room.state]
      <4>1. \/ room = Room(g)
            \/ <<Room(g).state, room.state>> \in
                 {<<"SETUP", "LOBBY">>, <<"LOBBY", "RUNNING">>, <<"RUNNING", "ENDED">>,
                  <<"ENDED", "REVEAL">>, <<"REVEAL", "REVEAL">>}
            \/ g = "yutnori"
        BY <2>2, <2>4, <2>6, <2>9, ApplySteps
      <4> QED BY <2>5, <4>1 DEF Rank, States
    <3>4. QueueFollows(g)'
      <4>1. queue'[g] = Tail(queue[g])
        BY <1>1, <2>1, <2>9 DEF HostTypeOK
      <4> QED BY <1>1, <2>1, <2>5, <2>6, <2>9, <3>1, <3>3, <4>1, TailFollows
    <3>5. CASE ToEveryone(g, a, room)
      <4>1. crowd'[g] = room.state
        BY <1>1, <2>4, <2>9, <3>5 DEF Tell, HostTypeOK
      <4> QED BY <2>5, <2>9, <3>4, <4>1
    <3>6. CASE ~ToEveryone(g, a, room)
      <4>1. crowd' = crowd /\ room.state = a.before /\ (g = "bingo" \/ a.t = "TICK")
        BY <2>4, <2>9, <3>6 DEF Tell, ToEveryone, LiveProjection, Games
      <4>2. room.state = Room(g).state
        <5>1. CASE a.t = "TICK"
          BY <2>2, <2>4, <2>6, <2>9, <3>2, <4>1, <5>1, ApplySteps
        <5>2. CASE g = "bingo"
          <6>1. Rank[room.state] = Rank[Room(g).state]
            BY <2>5, <2>6, <2>9, <3>2, <3>3, <4>1, <5>2 DEF Rank, States
          <6> QED BY <2>5, <2>6, <2>9, <6>1 DEF Rank, States
        <5> QED BY <4>1, <5>1, <5>2
      <4> QED BY <2>5, <2>9, <3>1, <3>4, <4>1, <4>2
    <3> QED BY <3>5, <3>6
  <2> QED BY <2>7, <2>8, <2>9
<1>9. CASE EventCreate
  <2>1. /\ event' = NewEvent(opened') /\ opened' \in Nat /\ queue' = queue
        /\ crowd' = [h \in Games |-> "SETUP"] /\ overtaken' = Overtakes(Games)
    BY <1>1, <1>9 DEF EventCreate, AtOnce, HostTypeOK
  <2>2. Room(g)'.state = "SETUP"
    BY <2>1, NewEventType, CreateType DEF Room
  <2>3. queue'[g] = <<>>
    BY <2>1 DEF Overtakes
  <2> QED BY <2>1, <2>2, <2>3 DEF QueueFollows
<1>10. CASE EventReset
  BY <1>10 DEF EventReset
<1>11. CASE ProjectorSet \/ \E h \in Toggled : GameEnable(h)
  BY <1>1, <1>3, <1>11, SettingType DEF ProjectorSet, GameEnable, AtOnce
<1>12. CASE Drain \/ UNCHANGED hvars
  BY <1>3, <1>12 DEF Drain, hvars, Room
<1> QED BY <1>5, <1>6, <1>7, <1>8, <1>9, <1>10, <1>11, <1>12 DEF HostNext, Run

(* A transition always reaches everyone, for every number of actions waiting
   in a turn of the loop.                                                  *)
THEOREM CrowdIsTold == HostSpec => []CrowdUpToDate
<1>1. CrowdInv => CrowdUpToDate
  BY DEF CrowdInv, CrowdUpToDate
<1> QED BY <1>1, CrowdInit, CrowdNext, PTL DEF HostSpec
-----------------------------------------------------------------------------
(* The disk (module HostStore) *)

IsTable(f, S) == DOMAIN f \subseteq 1..opened /\ \A id \in DOMAIN f : f[id] \in S

(* Types, and what this module's grain makes of the loop: chains are empty
   between steps.                                                          *)
StoreTypeOK ==
    /\ HostTypeOK
    /\ (\A g \in Games : queue[g] = <<>>) /\ overtaken = {}
    /\ event # None => event.id = opened /\ opened # 0
    /\ IsTable(rows, BOOLEAN) /\ IsTable(yutRows, RoomRecords) /\ IsTable(bingoRows, RoomRecords)
    /\ dirty \in RoomRecords \cup {None} /\ timer \in BOOLEAN
    /\ lastLifecycle \in [Games -> States \cup {None}]
    /\ second \in BOOLEAN /\ failures \in Nat /\ unwritten \subseteq Games

OpenIsOnDisk == event # None /\ event.id \in DOMAIN rows => rows[event.id]

(* What a restart would make of yutnori is the room it is in, once it is past
   its lobby.                                                              *)
YutOnDisk ==
    (/\ event # None /\ "yutnori" \notin unwritten
     /\ Room("yutnori").state \in {"RUNNING", "ENDED", "REVEAL"})
    => ReplayYut(event.id) = Room("yutnori")

(* And of bingo, whether it is set up: the snapshot says so, and so will the
   one that waits.  A change that is not written at once does not move the
   lifecycle, because lastLifecycle is the room's.                         *)
BingoOnDisk ==
    ~second =>
        IF event = None
        THEN dirty = None /\ unwritten = {} /\ lastLifecycle["bingo"] = None
        ELSE /\ lastLifecycle["bingo"] \in {None, Room("bingo").state}
             /\ dirty # None => dirty.state = Room("bingo").state
             /\ "bingo" \notin unwritten =>
                   SetUp(ReadBingo(event.id)) = SetUp(Room("bingo"))

StoreInv ==
    StoreTypeOK /\ ClosedStaysClosed /\ OpenIsOnDisk /\ YutOnDisk /\ BingoOnDisk

LEMMA GamesAre == Games = {"bingo", "yutnori"} /\ "bingo" \in Games /\ "yutnori" \in Games
BY DEF Games

LEMMA TablePut ==
    ASSUME NEW f, NEW S, IsTable(f, S), NEW id \in 1..opened, NEW v \in S
    PROVE  IsTable(Put(f, id, v), S)
<1> DEFINE p == Put(f, id, v)
<1>1. DOMAIN p = DOMAIN f \cup {id} /\ p[id] = v /\ \A x \in DOMAIN f \ {id} : p[x] = f[x]
  BY DEF Put
<1> HIDE DEF p
<1>2. DOMAIN p \subseteq 1..opened /\ \A x \in DOMAIN p : p[x] \in S
  BY <1>1 DEF IsTable
<1> QED BY <1>2 DEF IsTable, p

LEMMA ReadBingoFacts ==
    ASSUME NEW id \in Nat
    PROVE  /\ ReadBingo(id) \in RoomRecords /\ ReadBingo(id).state \in {"SETUP", "LOBBY"}
           /\ SetUp(ReadBingo(id)) <=> id \in DOMAIN bingoRows /\ bingoRows[id].state # "SETUP"
<1>1. Create(id) \in RoomRecords /\ Create(id).state = "SETUP"
  BY CreateType
<1>2. /\ [Create(id) EXCEPT !.state = "LOBBY"] \in RoomRecords
      /\ [Create(id) EXCEPT !.state = "LOBBY"].state = "LOBBY"
  BY <1>1 DEF RoomRecords, States
<1> QED BY <1>1, <1>2 DEF ReadBingo, SetUp

LEMMA ReplayYutFacts ==
    ASSUME IsTable(yutRows, RoomRecords), NEW id \in Nat
    PROVE  ReplayYut(id) \in RoomRecords
<1>1. CASE id \notin DOMAIN yutRows
  BY <1>1, CreateType DEF ReplayYut
<1>2. CASE id \in DOMAIN yutRows
  <2>1. yutRows[id] \in RoomRecords
    BY <1>2 DEF IsTable
  <2>2. [yutRows[id] EXCEPT !.state = "RUNNING"] \in RoomRecords
    BY <2>1 DEF RoomRecords, States
  <2> QED BY <1>2, <2>1, <2>2 DEF ReplayYut
<1> QED BY <1>1, <1>2

LEMMA RecoveredFacts ==
    ASSUME IsTable(yutRows, RoomRecords), NEW id \in Nat
    PROVE  /\ Recovered(id) \in EventRecords /\ Recovered(id) # None
           /\ Recovered(id).id = id
           /\ Recovered(id).games["bingo"].room = ReadBingo(id)
           /\ Recovered(id).games["yutnori"].room = ReplayYut(id)
<1>1. ReadBingo(id) \in RoomRecords /\ ReplayYut(id) \in RoomRecords
  BY ReadBingoFacts, ReplayYutFacts
<1> DEFINE games == [bingo   |-> [enabled |-> TRUE, room |-> ReadBingo(id)],
                     yutnori |-> [enabled |-> TRUE, room |-> ReplayYut(id)]]
<1>2. games \in [Games -> [enabled : BOOLEAN, room : RoomRecords]]
  <2>1. games = [g \in {"bingo", "yutnori"} |-> games[g]]
    OBVIOUS
  <2>2. \A g \in Games : games[g] \in [enabled : BOOLEAN, room : RoomRecords]
    <3>1. games["bingo"] \in [enabled : BOOLEAN, room : RoomRecords]
      BY <1>1
    <3>2. games["yutnori"] \in [enabled : BOOLEAN, room : RoomRecords]
      BY <1>1
    <3> QED BY <3>1, <3>2 DEF Games
  <2> HIDE DEF games
  <2> QED BY <2>1, <2>2 DEF Games
<1>3. Recovered(id) = [id |-> id, lock |-> None, games |-> games]
  BY DEF Recovered
<1>4. games["bingo"].room = ReadBingo(id) /\ games["yutnori"].room = ReplayYut(id)
  OBVIOUS
<1> HIDE DEF games
<1>5. Recovered(id) \in EventRecords
  BY <1>2, <1>3 DEF EventRecords
<1> QED BY <1>3, <1>4, <1>5, HostNoEvent

-----------------------------------------------------------------------------
(* The steps of the store *)

(* An action or a reset, as far as the room is concerned: the other game and
   the event stay, and the chains stay empty.                              *)
Changes(g, room) ==
    /\ room \in RoomRecords
    /\ event # None /\ event' # None /\ event' \in EventRecords /\ event'.id = event.id
    /\ Room(g)' = room
    /\ \A h \in Games \ {g} : Room(h)' = Room(h)
    /\ UNCHANGED <<opened, queue, draining, overtaken, second>>
    /\ crowd' \in [Games -> States]

LEMMA ActionsType ==
    ASSUME HostTypeOK, event # None, NEW g \in Games, NEW a \in Actions(g)
    PROVE  a \in ActionRecords
<1>1. Room(g).state \in States
  BY EventParts
<1>2. CASE a \in {[t |-> t, step |-> 0, before |-> Room(g).state] :
                     t \in Routed(g) \cup (IF g \in Ticks THEN {"TICK"} ELSE {})}
  BY <1>1, <1>2 DEF Routed, ActionRecords
<1>3. CASE a \in {[t |-> "REVEAL", step |-> step, before |-> Room(g).state] : step \in Steps}
  BY <1>1, <1>3, StepsAssumption DEF ActionRecords
<1> QED BY <1>2, <1>3 DEF Actions

LEMMA ActionChanges ==
    ASSUME StoreTypeOK, NEW g \in Games, Action(g) \/ ActionUnwritten(g)
    PROVE  \E room : /\ Changes(g, room)
                     /\ \/ Action(g) /\ Persist(g, room)
                        \/ ActionUnwritten(g) /\ PersistThrows(g, room)
<1>1. HostTypeOK /\ event # None
  BY DEF StoreTypeOK, Action, ActionUnwritten
<1>2. PICK a \in Actions(g) :
         \E room \in Apply(Room(g), a) :
            /\ Commits(g, a, room)
            /\ (Action(g) /\ Tell(g, a, room)) \/ ActionUnwritten(g)
  BY DEF Action, ActionUnwritten, Committed
<1>3. PICK room \in Apply(Room(g), a) :
         /\ Commits(g, a, room)
         /\ (Action(g) /\ Tell(g, a, room)) \/ ActionUnwritten(g)
  BY <1>2
<1>4. a \in ActionRecords
  BY <1>1, ActionsType
<1>5. /\ event' \in EventRecords /\ event' # None /\ event'.id = event.id
      /\ Room(g)' = room /\ room \in RoomRecords /\ room.state \in States
      /\ \A h \in Games \ {g} : Room(h)' = Room(h)
  BY <1>1, <1>3, <1>4, CommitsType
<1>6. room = event'.games[g].room
  BY <1>5 DEF Room
<1>7. CASE Action(g) /\ Tell(g, a, room)
  <2>1. crowd' \in [Games -> States] /\ overtaken' = overtaken
    BY <1>1, <1>5, <1>7 DEF Tell, HostTypeOK, StoreTypeOK
  <2> QED BY <1>1, <1>5, <1>6, <1>7, <2>1 DEF Action, Changes
<1>8. CASE ActionUnwritten(g)
  BY <1>1, <1>5, <1>6, <1>8 DEF ActionUnwritten, Changes, HostTypeOK
<1> QED BY <1>3, <1>7, <1>8

LEMMA ResetChanges ==
    ASSUME StoreTypeOK, NEW g \in Games, ResetGame(g) \/ ResetUnwritten(g)
    PROVE  /\ Changes(g, Create(event.id))
           /\ \/ ResetGame(g) /\ Persist(g, Create(event.id))
              \/ ResetUnwritten(g) /\ PersistThrows(g, Create(event.id))
<1>1. HostTypeOK /\ Renew(g)
  BY DEF StoreTypeOK, ResetGame, ResetUnwritten, GameReset
<1>2. event # None /\ event.id \in Nat /\ Create(event.id) \in RoomRecords
  BY <1>1, EventParts, CreateType DEF Renew
<1>3. /\ event' \in EventRecords /\ event' # None /\ event'.id = event.id
      /\ Room(g)' = Create(event.id)
      /\ \A h \in Games \ {g} : Room(h)' = Room(h)
  BY <1>1, RenewType
<1>4. CASE ResetGame(g)
  <2>1. crowd' \in [Games -> States] /\ overtaken' = overtaken
    BY <1>1, <1>4 DEF ResetGame, GameReset, Overtakes, HostTypeOK, StoreTypeOK, States
  <2> QED BY <1>2, <1>3, <1>4, <2>1 DEF ResetGame, GameReset, AtOnce, Changes
<1>5. CASE ResetUnwritten(g)
  BY <1>1, <1>2, <1>3, <1>5 DEF ResetUnwritten, Changes, HostTypeOK
<1> QED BY <1>4, <1>5

LEMMA ChangesType ==
    ASSUME StoreTypeOK, NEW g \in Games, NEW room, Changes(g, room),
           Persist(g, room) \/ PersistThrows(g, room)
    PROVE  StoreTypeOK'
<1> DEFINE id == event.id
<1>1. /\ id \in 1..opened /\ event' \in EventRecords /\ event'.id = id /\ opened' = opened
      /\ event' # None /\ room \in RoomRecords /\ room.state \in States
  BY EventParts DEF StoreTypeOK, HostTypeOK, Changes, RoomRecords
<1>2. HostTypeOK' /\ (\A h \in Games : queue'[h] = <<>>) /\ overtaken' = {}
  BY <1>1 DEF StoreTypeOK, HostTypeOK, Changes
<1>3. /\ IsTable(Put(rows, id, TRUE), BOOLEAN)
      /\ IsTable(Put(yutRows, id, room), RoomRecords)
      /\ IsTable(Put(bingoRows, id, room), RoomRecords)
  BY <1>1, TablePut DEF StoreTypeOK
<1> HIDE DEF id
<1>4. /\ rows' \in {rows, Put(rows, id, TRUE)} /\ yutRows' \in {yutRows, Put(yutRows, id, room)}
      /\ bingoRows' \in {bingoRows, Put(bingoRows, id, room)}
      /\ dirty' \in {dirty, None, room} /\ timer' \in {timer, TRUE, FALSE}
      /\ lastLifecycle' = [lastLifecycle EXCEPT ![g] = room.state]
      /\ failures' \in {failures, failures + 1} /\ unwritten' \in {unwritten, unwritten \ {g}, unwritten \cup {g}}
  BY <1>1 DEF Persist, PersistThrows, FlushBingo
<1>5. IsTable(rows, BOOLEAN)' /\ IsTable(yutRows, RoomRecords)' /\ IsTable(bingoRows, RoomRecords)'
  BY <1>1, <1>3, <1>4 DEF StoreTypeOK, IsTable
<1>6. /\ dirty' \in RoomRecords \cup {None} /\ timer' \in BOOLEAN
      /\ lastLifecycle' \in [Games -> States \cup {None}]
      /\ second' \in BOOLEAN /\ failures' \in Nat /\ unwritten' \subseteq Games
  <2>1. dirty' \in RoomRecords \cup {None} /\ timer' \in BOOLEAN
    BY <1>1, <1>4 DEF StoreTypeOK
  <2>2. lastLifecycle' \in [Games -> States \cup {None}]
    BY <1>1, <1>4 DEF StoreTypeOK
  <2>3. second' \in BOOLEAN /\ failures' \in Nat
    BY <1>4 DEF StoreTypeOK, Changes
  <2>4. unwritten' \subseteq Games
    BY <1>4 DEF StoreTypeOK
  <2> QED BY <2>1, <2>2, <2>3, <2>4
<1>7. event' # None => event'.id = opened' /\ opened' # 0
  BY <1>1 DEF StoreTypeOK, Changes, id
<1> QED BY <1>2, <1>5, <1>6, <1>7 DEF StoreTypeOK
(* What is on disk stays what a restart needs, whether the write is made, is
   left to the timer, or fails.                                            *)
LEMMA ChangesKeep ==
    ASSUME StoreInv, NEW g \in Games, NEW room, Changes(g, room),
           Persist(g, room) \/ PersistThrows(g, room)
    PROVE  StoreInv'
<1> DEFINE id == event.id
<1>1. /\ id \in 1..opened /\ event # None /\ event' # None /\ event'.id = id
      /\ room \in RoomRecords /\ room.state \in States /\ room.state # None
      /\ Room(g)' = room /\ second' = second
      /\ \A h \in Games \ {g} : Room(h)' = Room(h)
  BY EventParts, StoreNone DEF StoreInv, StoreTypeOK, HostTypeOK, Changes, RoomRecords
<1>2. StoreTypeOK'
  BY ChangesType DEF StoreInv
<1>3. g = "bingo" \/ g = "yutnori"
  BY GamesAre
<1>4. lastLifecycle' = [lastLifecycle EXCEPT ![g] = room.state]
      /\ lastLifecycle'[g] = room.state
  BY DEF Persist, PersistThrows, StoreInv, StoreTypeOK
<1>5. id \in Nat /\ lastLifecycle \in [Games -> States \cup {None}]
  BY <1>1 DEF StoreInv, StoreTypeOK, HostTypeOK
<1> HIDE DEF id
<1>6. rows' \in {rows, Put(rows, id, TRUE)}
  BY <1>1 DEF Persist, PersistThrows, FlushBingo
<1>7. OpenRows' \subseteq {id}
  <2>1. OpenRows \subseteq {id}
    BY <1>1 DEF StoreInv, ClosedStaysClosed, id
  <2>2. \A x : x \in DOMAIN rows' /\ rows'[x] /\ x # id => x \in DOMAIN rows /\ rows[x]
    BY <1>6 DEF Put
  <2> QED BY <2>1, <2>2 DEF OpenRows
<1>8. ClosedStaysClosed'
  BY <1>1, <1>7 DEF ClosedStaysClosed
<1>9. OpenIsOnDisk'
  <2>1. CASE rows' = rows
    BY <1>1, <2>1 DEF StoreInv, OpenIsOnDisk, id
  <2>2. CASE rows' = Put(rows, id, TRUE)
    BY <1>1, <2>2 DEF Put, OpenIsOnDisk
  <2> QED BY <1>6, <2>1, <2>2
<1>10. YutOnDisk'
  <2>1. CASE g = "bingo"
    <3>1. yutRows' = yutRows /\ Room("yutnori")' = Room("yutnori")
          /\ ("yutnori" \in unwritten' <=> "yutnori" \in unwritten)
      BY <1>1, <2>1, GamesAre DEF Persist, PersistThrows
    <3>2. ReplayYut(id)' = ReplayYut(id)
      BY <3>1 DEF ReplayYut, id, Changes
    <3> QED BY <1>1, <3>1, <3>2 DEF StoreInv, YutOnDisk, ReplayYut, id
  <2>2. CASE g = "yutnori" /\ Persist(g, room)
    <3>1. yutRows' = Put(yutRows, id, room)
      BY <1>1, <2>2 DEF Persist
    <3>2. id \in DOMAIN yutRows' /\ yutRows'[id] = room
      BY <3>1 DEF Put
    <3> QED BY <1>1, <2>2, <3>2 DEF YutOnDisk, ReplayYut
  <2>3. CASE g = "yutnori" /\ PersistThrows(g, room)
    BY <2>3 DEF PersistThrows, YutOnDisk
  <2> QED BY <1>3, <2>1, <2>2, <2>3
<1>11. BingoOnDisk'
  <2> SUFFICES ASSUME ~second
               PROVE  /\ lastLifecycle'["bingo"] \in {None, Room("bingo")'.state}
                      /\ dirty' # None => dirty'.state = Room("bingo")'.state
                      /\ "bingo" \notin unwritten' =>
                            (id \in DOMAIN bingoRows' /\ bingoRows'[id].state # "SETUP"
                             <=> Room("bingo")'.state # "SETUP")
    <3>1. (SetUp(ReadBingo(id)) <=> id \in DOMAIN bingoRows /\ bingoRows[id].state # "SETUP")'
      <4>1. id' \in Nat
        BY <1>1, <1>5 DEF id
      <4> QED BY <1>1, <4>1, CreateType DEF ReadBingo, SetUp, RoomRecords, id
    <3> QED BY <1>1, <3>1 DEF BingoOnDisk, SetUp, id
  <2>0. /\ lastLifecycle["bingo"] \in {None, Room("bingo").state}
        /\ dirty # None => dirty.state = Room("bingo").state
        /\ "bingo" \notin unwritten =>
              (id \in DOMAIN bingoRows /\ bingoRows[id].state # "SETUP"
               <=> Room("bingo").state # "SETUP")
    BY <1>1, <1>5, ReadBingoFacts DEF StoreInv, BingoOnDisk, SetUp, id
  <2>1. CASE g = "yutnori"
    <3>1. bingoRows' = bingoRows /\ dirty' = dirty /\ Room("bingo")' = Room("bingo")
          /\ lastLifecycle'["bingo"] = lastLifecycle["bingo"]
          /\ ("bingo" \in unwritten' <=> "bingo" \in unwritten)
      BY <1>1, <1>4, <1>5, <2>1, GamesAre DEF Persist, PersistThrows
    <3> QED BY <2>0, <3>1
  <2>2. CASE g = "bingo" /\ Persist(g, room) /\ Moved(g, room)
    <3>1. bingoRows' = Put(bingoRows, id, room) /\ dirty' = None
      BY <1>1, <2>2 DEF Persist, FlushBingo
    <3> QED BY <1>1, <1>4, <2>2, <3>1 DEF Put
  <2>3. CASE g = "bingo" /\ Persist(g, room) /\ ~Moved(g, room)
    <3>1. bingoRows' = bingoRows /\ dirty' = room /\ unwritten' = unwritten
      BY <1>1, <2>3 DEF Persist, AtOnceWrite
    <3>2. Room("bingo").state = room.state
      BY <1>1, <2>0, <2>3 DEF Moved
    <3> QED BY <1>1, <1>4, <2>0, <2>3, <3>1, <3>2
  <2>4. CASE g = "bingo" /\ PersistThrows(g, room)
    BY <1>1, <1>4, <2>4 DEF PersistThrows
  <2> QED BY <1>3, <2>1, <2>2, <2>3, <2>4
<1> QED BY <1>2, <1>8, <1>9, <1>10, <1>11 DEF StoreInv
(* What a restart finds where the event's row was written.                 *)
LEMMA CrashRecovers ==
    ASSUME StoreInv, Crash
    PROVE  /\ event # None /\ event.id \in DOMAIN rows => event' = Recovered(event.id)
           /\ event' = None \/ (event # None /\ event' = Recovered(event.id))
<1>1. event # None => event.id \in Nat
  BY DEF StoreInv, StoreTypeOK, HostTypeOK, EventRecords
<1>2. CASE OpenRows = {}
  BY <1>2 DEF Crash, StoreInv, OpenIsOnDisk, OpenRows
<1>3. CASE OpenRows # {}
  <2>1. event # None /\ OpenRows = {event.id}
    BY <1>3 DEF StoreInv, ClosedStaysClosed
  <2>2. (CHOOSE id \in OpenRows : \A other \in OpenRows : other <= id) = event.id
    BY <1>1, <2>1
  <2> QED BY <1>3, <2>1, <2>2 DEF Crash
<1> QED BY <1>2, <1>3

LEMMA CrashKeeps ==
    ASSUME StoreInv, Crash
    PROVE  StoreInv'
<1>1. event # None => event.id \in Nat /\ event.id = opened /\ opened # 0
  BY DEF StoreInv, StoreTypeOK, HostTypeOK, EventRecords
<1>2. /\ IsTable(rows, BOOLEAN) /\ IsTable(yutRows, RoomRecords) /\ IsTable(bingoRows, RoomRecords)
      /\ failures \in Nat /\ opened \in Nat
  BY DEF StoreInv, StoreTypeOK, HostTypeOK
<1>3. /\ rows' = rows /\ yutRows' = yutRows /\ bingoRows' = bingoRows
      /\ opened' = opened /\ failures' = failures
  BY DEF Crash, disk
<1>4. event' = None \/ (event # None /\ event' = Recovered(event.id))
  BY CrashRecovers
<1>5. event # None => /\ Recovered(event.id) \in EventRecords /\ Recovered(event.id) # None
                      /\ Recovered(event.id).id = event.id
                      /\ Recovered(event.id).games["bingo"].room = ReadBingo(event.id)
                      /\ Recovered(event.id).games["yutnori"].room = ReplayYut(event.id)
  BY <1>1, <1>2, RecoveredFacts
<1>6. event' \in EventRecords \cup {None}
  BY <1>4, <1>5
<1>7. crowd' \in [Games -> States]
  <2>1. CASE event' = None
    BY <2>1 DEF Crash, States
  <2>2. CASE event' # None
    <3>1. \A g \in Games : event'.games[g].room.state \in States
      BY <1>6, <2>2 DEF EventRecords, RoomRecords
    <3> QED BY <2>2, <3>1 DEF Crash
  <2> QED BY <2>1, <2>2
<1>8. StoreTypeOK'
  <2>1. HostTypeOK'
    <3>1. queue' = [g \in Games |-> <<>>] /\ draining' = FALSE /\ overtaken' = {}
      BY DEF Crash
    <3>2. queue' \in [Games -> Seq(ActionRecords)]
      BY <3>1
    <3> QED BY <1>2, <1>3, <1>6, <1>7, <3>1, <3>2 DEF HostTypeOK
  <2>2. event' # None => event'.id = opened' /\ opened' # 0
    BY <1>1, <1>3, <1>4, <1>5
  <2>3. IsTable(rows, BOOLEAN)' /\ IsTable(yutRows, RoomRecords)' /\ IsTable(bingoRows, RoomRecords)'
    BY <1>2, <1>3 DEF IsTable
  <2>4. /\ dirty' = None /\ timer' = FALSE /\ second' = FALSE /\ unwritten' = {} /\ overtaken' = {}
        /\ lastLifecycle' = [g \in Games |-> None] /\ queue' = [g \in Games |-> <<>>]
    BY DEF Crash
  <2> QED BY <1>2, <1>3, <2>1, <2>2, <2>3, <2>4 DEF StoreTypeOK
<1>9. OpenRows' = OpenRows /\ (OpenRows # {} => event' # None)
  BY <1>3, <1>5, CrashRecovers DEF OpenRows, StoreInv, ClosedStaysClosed
<1>10. ClosedStaysClosed' /\ OpenIsOnDisk'
  BY <1>3, <1>4, <1>5, <1>9 DEF StoreInv, ClosedStaysClosed, OpenIsOnDisk
<1>11. YutOnDisk'
  <2> SUFFICES ASSUME event' # None
               PROVE  ReplayYut(event.id)' = Room("yutnori")'
    BY DEF YutOnDisk
  <2>1. Room("yutnori")' = ReplayYut(event.id) /\ event'.id = event.id
    BY <1>4, <1>5 DEF Room
  <2> QED BY <1>3, <2>1 DEF ReplayYut
<1>12. BingoOnDisk'
  <2>1. dirty' = None /\ unwritten' = {} /\ lastLifecycle'["bingo"] = None
    BY GamesAre DEF Crash
  <2>2. ASSUME event' # None
        PROVE  ReadBingo(event.id)' = Room("bingo")'
    <3>1. Room("bingo")' = ReadBingo(event.id) /\ event'.id = event.id
      BY <1>4, <1>5, <2>2 DEF Room
    <3> QED BY <1>3, <3>1 DEF ReadBingo
  <2> QED BY <2>1, <2>2 DEF BingoOnDisk, SetUp
<1> QED BY <1>8, <1>10, <1>11, <1>12 DEF StoreInv

LEMMA OpenKeeps ==
    ASSUME StoreInv, Open
    PROVE  StoreInv'
<1>1. /\ event = None /\ opened' = opened + 1 /\ event' = NewEvent(opened') /\ queue' = queue
      /\ overtaken' = Overtakes(Games) /\ disk' = disk /\ cache' = cache
      /\ second' = second /\ failures' = failures /\ unwritten' = unwritten
  BY DEF Open, EventCreate, AtOnce, Quiet
<1>2. opened \in Nat /\ HostTypeOK /\ \A g \in Games : queue[g] = <<>>
  BY DEF StoreInv, StoreTypeOK, HostTypeOK
<1>3. HostTypeOK'
  BY <1>2, HostTypeNext DEF Open, HostNext
<1>4. /\ event' # None /\ event'.id = opened'
      /\ \A g \in Games : Room(g)' = Create(opened') /\ Room(g)'.state = "SETUP"
  BY <1>1, <1>2, NewEventType, CreateType, HostNoEvent DEF Room
<1>5. rows' = rows /\ yutRows' = yutRows /\ bingoRows' = bingoRows /\ dirty' = dirty
      /\ timer' = timer /\ lastLifecycle' = lastLifecycle
  BY <1>1 DEF disk, cache
<1>6. IsTable(rows, BOOLEAN)' /\ IsTable(yutRows, RoomRecords)' /\ IsTable(bingoRows, RoomRecords)'
  BY <1>1, <1>2, <1>5 DEF StoreInv, StoreTypeOK, IsTable
<1>7. StoreTypeOK'
  BY <1>1, <1>2, <1>3, <1>4, <1>5, <1>6 DEF StoreInv, StoreTypeOK, Overtakes
<1>8. opened' \notin DOMAIN rows /\ opened' \notin DOMAIN bingoRows
  BY <1>1, <1>2 DEF StoreInv, StoreTypeOK, IsTable
<1>9. ClosedStaysClosed' /\ OpenIsOnDisk'
  BY <1>1, <1>4, <1>5, <1>8 DEF StoreInv, ClosedStaysClosed, OpenIsOnDisk, OpenRows
<1>10. YutOnDisk'
  BY <1>4, GamesAre DEF YutOnDisk
<1>11. BingoOnDisk'
  <2>1. ReadBingo(event.id)' = Create(opened')
    BY <1>4, <1>5, <1>8 DEF ReadBingo
  <2>2. Create(opened').state = "SETUP"
    BY <1>4, GamesAre
  <2> QED BY <1>1, <1>4, <1>5, <2>1, <2>2, GamesAre DEF StoreInv, BingoOnDisk, SetUp
<1> QED BY <1>7, <1>9, <1>10, <1>11 DEF StoreInv

LEMMA CloseKeeps ==
    ASSUME StoreInv, Close
    PROVE  StoreInv'
<1>1. /\ event # None /\ event' = None /\ rows' = Put(rows, event.id, FALSE) /\ second' = TRUE
      /\ yutRows' = yutRows /\ bingoRows' = bingoRows /\ cache' = cache
      /\ failures' = failures /\ unwritten' = unwritten
      /\ queue' = queue /\ opened' = opened /\ overtaken' = overtaken
  BY DEF Close, EventReset, AtOnce, CloseEvent
<1>2. HostTypeOK'
  BY HostTypeNext DEF Close, HostNext, StoreInv, StoreTypeOK
<1>3. event.id \in 1..opened
  BY <1>1, EventParts DEF StoreInv, StoreTypeOK, HostTypeOK
<1>4. IsTable(Put(rows, event.id, FALSE), BOOLEAN)
  BY <1>3, TablePut DEF StoreInv, StoreTypeOK
<1>5. IsTable(rows, BOOLEAN)' /\ IsTable(yutRows, RoomRecords)' /\ IsTable(bingoRows, RoomRecords)'
  BY <1>1, <1>4 DEF StoreInv, StoreTypeOK, IsTable
<1>6. StoreTypeOK'
  BY <1>1, <1>2, <1>5 DEF StoreInv, StoreTypeOK, cache
<1>7. ClosedStaysClosed'
  <2>1. \A x \in DOMAIN rows' : x # event.id => x \in DOMAIN rows /\ rows'[x] = rows[x]
    BY <1>1 DEF Put
  <2>2. rows'[event.id] = FALSE
    BY <1>1 DEF Put
  <2> QED BY <1>1, <2>1, <2>2 DEF StoreInv, ClosedStaysClosed, OpenRows
<1> QED BY <1>1, <1>6, <1>7 DEF StoreInv, OpenIsOnDisk, YutOnDisk, BingoOnDisk

(* The timer writes bingo's room under the open event.                     *)
LEMMA TimerKeeps ==
    ASSUME StoreInv, TimerFires
    PROVE  StoreInv'
<1>1. /\ hvars' = hvars /\ yutRows' = yutRows /\ lastLifecycle' = lastLifecycle
      /\ second' = second /\ failures' = failures /\ dirty' = None /\ timer' = FALSE
      /\ "yutnori" \in unwritten' <=> "yutnori" \in unwritten
      /\ unwritten' \subseteq Games
  BY DEF TimerFires, StoreInv, StoreTypeOK
<1>2. /\ event' = event /\ opened' = opened /\ queue' = queue /\ draining' = draining
      /\ crowd' = crowd /\ overtaken' = overtaken
      /\ \A g \in Games : Room(g)' = Room(g)
  BY <1>1 DEF hvars, Room
<1>3. HostTypeOK'
  BY <1>2 DEF StoreInv, StoreTypeOK, HostTypeOK
<1>4. CASE event = None \/ dirty = None
  <2>1. rows' = rows /\ bingoRows' = bingoRows
    BY <1>4 DEF TimerFires, FlushBingo
  <2>2. IsTable(rows, BOOLEAN)' /\ IsTable(yutRows, RoomRecords)' /\ IsTable(bingoRows, RoomRecords)'
    BY <1>1, <1>2, <2>1 DEF StoreInv, StoreTypeOK, IsTable
  <2>3. StoreTypeOK'
    BY <1>1, <1>2, <1>3, <2>2 DEF StoreInv, StoreTypeOK
  <2>4. ClosedStaysClosed' /\ OpenIsOnDisk'
    BY <1>2, <2>1 DEF StoreInv, ClosedStaysClosed, OpenIsOnDisk, OpenRows
  <2>5. YutOnDisk'
    BY <1>1, <1>2, GamesAre DEF StoreInv, YutOnDisk, ReplayYut
  <2>6. BingoOnDisk'
    <3>1. event # None => unwritten' = unwritten
      BY <1>4 DEF TimerFires
    <3>2. event # None => ReadBingo(event.id)' = ReadBingo(event.id)
      BY <1>2, <2>1 DEF ReadBingo
    <3>3. unwritten = {} => unwritten' = {}
      BY DEF TimerFires
    <3> QED BY <1>1, <1>2, <3>1, <3>2, <3>3, GamesAre DEF StoreInv, BingoOnDisk, SetUp
  <2> QED BY <2>3, <2>4, <2>5, <2>6 DEF StoreInv
<1>5. CASE event # None /\ dirty # None
  <2>1. /\ rows' = Put(rows, event.id, TRUE) /\ bingoRows' = Put(bingoRows, event.id, dirty)
        /\ event.id \in 1..opened /\ event.id \in Nat /\ dirty \in RoomRecords
    BY <1>5, EventParts DEF TimerFires, FlushBingo, StoreInv, StoreTypeOK, HostTypeOK
  <2>2. /\ IsTable(Put(rows, event.id, TRUE), BOOLEAN)
        /\ IsTable(Put(bingoRows, event.id, dirty), RoomRecords)
    BY <2>1, TablePut DEF StoreInv, StoreTypeOK
  <2>3. IsTable(rows, BOOLEAN)' /\ IsTable(yutRows, RoomRecords)' /\ IsTable(bingoRows, RoomRecords)'
    BY <1>1, <1>2, <2>1, <2>2 DEF StoreInv, StoreTypeOK, IsTable
  <2>4. StoreTypeOK'
    BY <1>1, <1>2, <1>3, <2>3 DEF StoreInv, StoreTypeOK
  <2>5. ClosedStaysClosed' /\ OpenIsOnDisk'
    BY <1>2, <1>5, <2>1 DEF Put, StoreInv, ClosedStaysClosed, OpenIsOnDisk, OpenRows
  <2>6. YutOnDisk'
    BY <1>1, <1>2, GamesAre DEF StoreInv, YutOnDisk, ReplayYut
  <2>7. BingoOnDisk'
    <3>1. event.id \in DOMAIN bingoRows' /\ bingoRows'[event.id] = dirty
      BY <2>1 DEF Put
    <3>2. ~second => dirty.state = Room("bingo").state /\ lastLifecycle["bingo"] \in {None, Room("bingo").state}
      BY <1>5 DEF StoreInv, BingoOnDisk
    <3>3. SetUp(ReadBingo(event.id))' <=> dirty.state # "SETUP"
      BY <1>2, <2>1, <3>1, CreateType DEF ReadBingo, SetUp, RoomRecords
    <3> QED BY <1>1, <1>2, <1>5, <3>2, <3>3, GamesAre DEF BingoOnDisk, SetUp
  <2> QED BY <2>4, <2>5, <2>6, <2>7 DEF StoreInv
<1> QED BY <1>4, <1>5
LEMMA StoreInvInit == StoreInit => StoreInv
<1> SUFFICES ASSUME StoreInit PROVE StoreInv
  OBVIOUS
<1>1. HostTypeOK
  BY HostTypeInit DEF StoreInit
<1>2. DOMAIN NoRows = {}
  BY DEF NoRows
<1>3. StoreTypeOK
  BY <1>1, <1>2 DEF StoreInit, HostInit, StoreTypeOK, IsTable
<1> QED BY <1>2, <1>3, GamesAre
      DEF StoreInit, HostInit, StoreInv, ClosedStaysClosed, OpenIsOnDisk, OpenRows, YutOnDisk, BingoOnDisk

LEMMA StoreInvNext == StoreInv /\ [StoreNext]_ssvars => StoreInv'
<1> SUFFICES ASSUME StoreInv, [StoreNext]_ssvars PROVE StoreInv'
  OBVIOUS
<1>1. ASSUME NEW g \in Games, Action(g) \/ ActionUnwritten(g)
      PROVE  StoreInv'
  <2>1. PICK room : /\ Changes(g, room)
                    /\ Persist(g, room) \/ PersistThrows(g, room)
    BY <1>1, ActionChanges DEF StoreInv
  <2> QED BY <2>1, ChangesKeep
<1>2. ASSUME NEW g \in Games, ResetGame(g) \/ ResetUnwritten(g)
      PROVE  StoreInv'
  <2>1. /\ Changes(g, Create(event.id))
        /\ Persist(g, Create(event.id)) \/ PersistThrows(g, Create(event.id))
    BY <1>2, ResetChanges DEF StoreInv
  <2> QED BY <2>1, ChangesKeep
<1>3. CASE (ProjectorSet /\ Quiet) \/ UNCHANGED ssvars
  <2>1. disk' = disk /\ cache' = cache /\ second' = second /\ failures' = failures
        /\ unwritten' = unwritten
    BY <1>3 DEF Quiet, ssvars
  <2>2. rows' = rows /\ yutRows' = yutRows /\ bingoRows' = bingoRows /\ dirty' = dirty
        /\ timer' = timer /\ lastLifecycle' = lastLifecycle
    BY <2>1 DEF disk, cache
  <2>3. /\ queue' = queue /\ overtaken' = overtaken /\ opened' = opened
        /\ event' = None <=> event = None
        /\ event # None => event'.id = event.id /\ \A g \in Games : Room(g)' = Room(g)
    <3>1. CASE ProjectorSet
      <4>1. /\ event # None /\ event' = [event EXCEPT !.lock = None] /\ event \in EventRecords
            /\ queue' = queue /\ overtaken' = overtaken /\ opened' = opened
        BY <3>1 DEF ProjectorSet, AtOnce, StoreInv, StoreTypeOK, HostTypeOK
      <4>2. event'.id = event.id /\ event'.games = event.games /\ event' \in EventRecords
        BY <4>1 DEF EventRecords
      <4> QED BY <4>1, <4>2, HostNoEvent DEF Room
    <3>2. CASE UNCHANGED ssvars
      BY <3>2 DEF ssvars, hvars, Room
    <3> QED BY <1>3, <3>1, <3>2
  <2>4. HostTypeOK'
    BY <1>3, HostTypeNext DEF HostNext, ssvars, StoreInv, StoreTypeOK
  <2>5. StoreTypeOK'
    BY <2>1, <2>2, <2>3, <2>4 DEF StoreInv, StoreTypeOK, IsTable
  <2>6. ClosedStaysClosed' /\ OpenIsOnDisk'
    BY <2>2, <2>3 DEF StoreInv, ClosedStaysClosed, OpenIsOnDisk, OpenRows
  <2>7. YutOnDisk'
    BY <2>1, <2>2, <2>3, GamesAre DEF StoreInv, YutOnDisk, ReplayYut
  <2>8. BingoOnDisk'
    <3>1. event # None => ReadBingo(event.id)' = ReadBingo(event.id)
      BY <2>2, <2>3 DEF ReadBingo
    <3> QED BY <2>1, <2>2, <2>3, <3>1, GamesAre DEF StoreInv, BingoOnDisk, SetUp
  <2> QED BY <2>5, <2>6, <2>7, <2>8 DEF StoreInv
<1> QED BY <1>1, <1>2, <1>3, OpenKeeps, CloseKeeps, TimerKeeps, CrashKeeps DEF StoreNext

(* A closed event is never recovered, however late a snapshot is written.  *)
THEOREM ClosedEventsStayClosed == StoreSpec => []ClosedStaysClosed
<1>1. StoreInv => ClosedStaysClosed
  BY DEF StoreInv
<1> QED BY <1>1, StoreInvInit, StoreInvNext, PTL DEF StoreSpec

(* A crash between any two steps loses neither game's setup and none of
   yutnori's play, and a write that failed costs its own game only.        *)
THEOREM CrashesKeepSetup == StoreSpec => CrashKeepsSetup
<1>1. ASSUME StoreInv, Crash, event # None, event.id \in DOMAIN rows, ~second
      PROVE  SetupKept
  <2>1. event.id \in Nat /\ IsTable(yutRows, RoomRecords)
    BY <1>1 DEF StoreInv, StoreTypeOK, HostTypeOK, EventRecords
  <2>2. event' = Recovered(event.id)
    BY <1>1, CrashRecovers
  <2>3. /\ event' # None /\ event'.id = event.id
        /\ event'.games["bingo"].room = ReadBingo(event.id)
        /\ event'.games["yutnori"].room = ReplayYut(event.id)
    BY <2>1, <2>2, RecoveredFacts
  <2>4. ReadBingo(event.id).state \in {"SETUP", "LOBBY"}
    BY <2>1, ReadBingoFacts
  <2> QED BY <1>1, <2>3, <2>4 DEF StoreInv, YutOnDisk, BingoOnDisk, SetupKept
<1>2. StoreInv /\ [StoreNext]_ssvars =>
        [Crash /\ event # None /\ event.id \in DOMAIN rows /\ ~second => SetupKept]_ssvars
  BY <1>1
<1> QED BY <1>2, StoreInvInit, StoreInvNext, PTL DEF StoreSpec, CrashKeepsSetup
=============================
