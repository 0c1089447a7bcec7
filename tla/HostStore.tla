------------------------------ MODULE HostStore ------------------------------
(***************************************************************************)
(* The host's write-behind layer (master/src/host/persist/persistence.ts)  *)
(* under module Host, and what a restart recovers (recover.ts).  A row per *)
(* event; yutnori's log, written on every action (module YutStore has what *)
(* is in it); bingo's snapshot, of which only the trait list is read back, *)
(* written at once on a transition and within a debounce window otherwise. *)
(* The title, the projector setting and the hidden games, columns of the   *)
(* event's row, are left out, and so is the age limit of recovery.         *)
(***************************************************************************)
EXTENDS Host

CONSTANT MaxFailures   \* bound: writes that fail

ASSUME FailuresAssumption == MaxFailures \in Nat
ASSUME StoreNone          == None \notin States /\ None \notin RoomRecords

VARIABLES
    rows,         \* the events table: id -> is the event open?
    yutRows,      \* event id -> the room yutnori's log is of
    bingoRows,    \* event id -> the room bingo's snapshot was taken of
    dirty,        \* bingo's room not written yet, or None (the Map `dirty')
    timer,        \* is bingo's debounce timer running?
    lastLifecycle,\* per game, the lifecycle last enqueued; None at boot
    second,       \* history variable: has this process had an event before
                  \* the one that is open?
    failures,     \* writes that failed so far
    unwritten     \* history variable: the games whose last write at once failed

disk  == <<rows, yutRows, bingoRows>>
cache == <<dirty, timer, lastLifecycle>>
ssvars == <<hvars, disk, cache, second, failures, unwritten>>

Put(f, k, v) == [x \in DOMAIN f \cup {k} |-> IF x = k THEN v ELSE f[x]]

NoRows == [x \in {} |-> None]

-----------------------------------------------------------------------------
(* flushGame(): the event's row and the game's, under the id of the event
   that is open now; nothing where none is.                                *)
FlushBingo(ev, room) ==
    IF ev = None THEN UNCHANGED <<rows, bingoRows>>
    ELSE /\ rows' = Put(rows, ev.id, TRUE)
         /\ bingoRows' = Put(bingoRows, ev.id, room)

MovedAfterSet(g, room) == FALSE     \* mutant: lastLifecycle is set before it is compared
Moved(g, room) == lastLifecycle[g] # room.state

AtOnceWrite(g, room) == g = "yutnori" \/ Moved(g, room)

(* enqueue() of a committed room.                                          *)
Persist(g, room) ==
    /\ lastLifecycle' = [lastLifecycle EXCEPT ![g] = room.state]
    /\ UNCHANGED failures
    /\ unwritten' = IF AtOnceWrite(g, room) THEN unwritten \ {g} ELSE unwritten
    /\ IF g = "yutnori"
       THEN /\ rows' = Put(rows, event'.id, TRUE)
            /\ yutRows' = Put(yutRows, event'.id, room)
            /\ UNCHANGED <<bingoRows, dirty, timer>>
       ELSE /\ UNCHANGED yutRows
            /\ IF Moved(g, room)
               THEN FlushBingo(event', room) /\ dirty' = None /\ timer' = FALSE
               ELSE dirty' = room /\ timer' = TRUE /\ UNCHANGED <<rows, bingoRows>>

(* enqueue() throws: the database refuses one of the statements, so the event's
   row may be new and the game's too, and the room is dirty no more.       *)
PersistThrows(g, room) ==
    /\ AtOnceWrite(g, room)
    /\ failures < MaxFailures
    /\ failures' = failures + 1
    /\ lastLifecycle' = [lastLifecycle EXCEPT ![g] = room.state]
    /\ unwritten' = unwritten \cup {g}
    /\ IF g = "bingo" THEN dirty' = None /\ timer' = FALSE ELSE UNCHANGED <<dirty, timer>>
    /\ UNCHANGED bingoRows
    /\ \/ UNCHANGED <<rows, yutRows>>
       \/ /\ rows' = Put(rows, event'.id, TRUE)
          /\ yutRows' \in {yutRows} \cup (IF g = "yutnori" THEN {Put(yutRows, event'.id, room)}
                                         ELSE {})

(* The debounce window is over.  (A write that throws here is thrown in a
   timer, which ends the process: Crash.)                                  *)
TimerFires ==
    /\ ~draining
    /\ timer
    /\ timer' = FALSE
    /\ dirty' = None
    /\ IF dirty = None THEN UNCHANGED <<rows, bingoRows, unwritten>>
       ELSE FlushBingo(event, dirty) /\ unwritten' = unwritten \ {"bingo"}
    /\ UNCHANGED <<hvars, yutRows, lastLifecycle, second, failures>>

-----------------------------------------------------------------------------
(* The steps of the host, with what each writes *)

Quiet == UNCHANGED <<disk, cache, second, failures, unwritten>>

(* An action is dispatched on a free chain, so enqueueing it, the turn of the
   loop and its run are one step; module Host has the steps apart.         *)
Actions(g) ==
    {[t |-> t, step |-> 0, before |-> Room(g).state] :
        t \in Routed(g) \cup (IF g \in Ticks THEN {"TICK"} ELSE {})}
    \cup {[t |-> "REVEAL", step |-> step, before |-> Room(g).state] : step \in Steps}

Action(g) ==
    /\ event # None
    /\ \E a \in Actions(g) : Committed(g, a)
    /\ UNCHANGED <<opened, queue, draining, second>>
    /\ Persist(g, event'.games[g].room)

(* An action that was committed when its write threw: it is answered as one
   that failed, and nobody is told.                                        *)
ActionUnwritten(g) ==
    /\ event # None
    /\ \E a \in Actions(g) : \E room \in Apply(Room(g), a) : Commits(g, a, room)
    /\ UNCHANGED <<opened, queue, draining, crowd, overtaken, second>>
    /\ PersistThrows(g, event'.games[g].room)

ResetGame(g) ==
    /\ GameReset(g)
    /\ Persist(g, Create(event.id))
    /\ UNCHANGED second

(* And a reset: the room is new, the other screens have the old one's picture. *)
ResetUnwritten(g) ==
    /\ Renew(g)
    /\ UNCHANGED <<opened, queue, draining, crowd, overtaken, second>>
    /\ PersistThrows(g, Create(event.id))

Open == EventCreate /\ Quiet

CloseEventForgotten(id) == rows     \* mutant
(* closeEvent(): the row says so before the event is forgotten.            *)
CloseEvent(id) == Put(rows, id, FALSE)

Close ==
    /\ EventReset
    /\ rows' = CloseEvent(event.id)
    /\ second' = TRUE
    /\ UNCHANGED <<yutRows, bingoRows, cache, failures, unwritten>>

-----------------------------------------------------------------------------
(* A crash, and the restart *)

(* snapshot.read(): the traits only, on an empty roster.                   *)
ReadBingo(id) ==
    IF id \notin DOMAIN bingoRows \/ bingoRows[id].state = "SETUP" THEN Create(id)
    ELSE [Create(id) EXCEPT !.state = "LOBBY"]

(* replay(): the room of the log, RUNNING where it says SETUP or LOBBY.  (A
   log that does not replay is a fresh room: see YutStore.)                *)
ReplayYut(id) ==
    IF id \notin DOMAIN yutRows THEN Create(id)
    ELSE IF yutRows[id].state \in {"SETUP", "LOBBY"} THEN [yutRows[id] EXCEPT !.state = "RUNNING"]
    ELSE yutRows[id]

OpenRows == {id \in DOMAIN rows : rows[id]}

Recovered(id) ==
    [id |-> id, lock |-> None,
     games |-> [bingo   |-> [enabled |-> TRUE, room |-> ReadBingo(id)],
                yutnori |-> [enabled |-> TRUE, room |-> ReplayYut(id)]]]

(* recoverEvent() takes the newest open event.                             *)
Crash ==
    /\ event' = IF OpenRows = {} THEN None
                ELSE Recovered(CHOOSE id \in OpenRows : \A other \in OpenRows : other <= id)
    /\ queue' = [g \in Games |-> <<>>]
    /\ draining' = FALSE
    /\ crowd' = [g \in Games |-> IF event' = None THEN "SETUP" ELSE event'.games[g].room.state]
    /\ overtaken' = {}
    /\ dirty' = None /\ timer' = FALSE
    /\ lastLifecycle' = [g \in Games |-> None]
    /\ second' = FALSE
    /\ unwritten' = {}
    /\ UNCHANGED <<opened, disk, failures>>

StoreInit ==
    /\ HostInit
    /\ rows = NoRows /\ yutRows = NoRows /\ bingoRows = NoRows
    /\ dirty = None /\ timer = FALSE
    /\ lastLifecycle = [g \in Games |-> None]
    /\ second = FALSE
    /\ failures = 0 /\ unwritten = {}

StoreNext ==
    \/ \E g \in Games : Action(g) \/ ActionUnwritten(g) \/ ResetGame(g) \/ ResetUnwritten(g)
    \/ Open \/ Close \/ TimerFires \/ Crash
    \/ ProjectorSet /\ Quiet

StoreSpec == StoreInit /\ [][StoreNext]_ssvars

-----------------------------------------------------------------------------
(* namespaces.ts:427: event:reset "closes the current one (so a restart will
   not recover it)".  Whatever is written late, no event on disk is open but
   the one in memory.                                                      *)
ClosedStaysClosed ==
    OpenRows \subseteq (IF event = None THEN {} ELSE {event.id})

SetUp(room) == room.state # "SETUP"

(* What a restart gives back.                                              *)
SetupKept ==
    /\ event' # None /\ event'.id = event.id
    /\ "bingo" \notin unwritten => SetUp(event'.games["bingo"].room) = SetUp(Room("bingo"))
    /\ event'.games["bingo"].room.state \in {"SETUP", "LOBBY"}
    /\ "yutnori" \notin unwritten /\ Room("yutnori").state \in {"RUNNING", "ENDED", "REVEAL"}
       => event'.games["yutnori"].room = Room("yutnori")

(* recover.ts:4: a restart restores each game by its own strategy.  A crash at
   any point loses neither game's setup, and none of yutnori's play; bingo
   is back before its start.  (In the first event of a process: a snapshot
   that waits when an event is reset is filed under the next one, and lastLifecycle
   outlives the event, so that a change of the next one may wait.)  A write
   that failed costs its game what it would have written, and no longer than
   until the next write of that game; it costs the other game nothing.     *)
CrashKeepsSetup ==
    [][ Crash /\ event # None /\ event.id \in DOMAIN rows /\ ~second => SetupKept ]_ssvars
=============================================================================
