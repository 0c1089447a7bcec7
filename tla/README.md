# soonot, specified

soonot is a host process for party games at a live event: one master console,
one projector, and up to a hundred phones, over socket.io. Two games are plugged
into it, *bingo* ("find someone who...") and *yutnori* (a Korean board game). All
rooms live in the memory of one Node process; SQLite is a log to restart from.

This directory specifies the program in TLA+, checks it with TLC and proves what
matters most with TLAPS. The code is the reference: every definition that stands
for code is translated from it, and `PROJECT.json` says from which lines.

    tlc -workers 2 -config YutRules_play.cfg MCYutnori
    tlc -workers 2 -config Host.cfg MCHost
    tlc -workers 2 -config Phone.cfg Phone
    tlc -workers 2 -config Screens.cfg MCScreens
    tlapm Yutnori_proofs.tla
    tlapm Host_proofs.tla

## 1. Inventory

Paths are relative to `src/`. "Modelled" names the modules below.

| Component | State | Operations | Hard behaviour | What makes it correct |
|---|---|---|---|---|
| **yutnori board** `yutnori/src/shared/board.ts` | none | `walk`, `destinations`, `stepBefore`, `computeToHome` | branches chosen only from rest; overshoot; flowing through the centre | no throw leaves a mal where it can never move again |
| **yutnori engine** `engine/apply.ts`, `candidates.ts`, `invariants.ts` | `Room`: teams, mals, turn pointer, throw queue, pending throw, pending mini-game, history, clock, lifecycle | 14 actions, one reducer, pure | long legal sequences: bonus throws, catches decided later by a duel, lost challenges, time-up deferred to the end of a turn, undo, endings taken back | a turn is always playable; what is pending describes the board; scores follow from the log; nobody is cheated of a throw |
| **yutnori replay** `engine/replay.ts` | none (rebuilds a Room) | `setupOf`, `freshRunning`, `replay` | re-picks every decision by (mal, destination); serves both undo and crash recovery | replaying the log gives the game it came from |
| **yutnori log** `persist.ts`, `master/src/host/persist/recover.ts` | a row per room, a row per turn event | `writeState`, `writeEvents`, recovery | rows are never updated, only inserted and cut at the tail; a crash at any point | the log mirrors the history; a restart resumes the game |
| **lifecycle** `master/src/shared/lifecycle.ts` | the state and reveal step of either game | allowed actions per state | an ending may be taken back, a reveal may not | every game refines it |
| **yutnori ranking** `engine/ranking.ts`, `master/src/shared/rank.ts` | none | comparator, podium | progress is the shortest way home, which a move past a corner can lengthen | a strict total order of the teams, the same for every screen; a move towards home costs no place |
| **bingo engine** `bingo/src/engine/*`, `shared/lines.ts` | players with cards, fills, used names, lines | SET_TRAITS, JOIN, REJOIN, DISCONNECT, START, FILL, FILL_PICK, CLEAR, END, REVEAL | a pick from a list that is stale; a person once per card; late joins; a bingo that outlives its cells | `usedPlayerIds` is the set of filled names; every full line is found, announced once and kept |
| **bingo ranking** `engine/ranking.ts`, `engine/bingo.ts` | none | points, `lastFillAt`, comparator | points and the time they were reached move together over fills and clears | nobody loses a place by filling a cell |
| **host dispatch** `master/src/host/dispatch.ts`, `event/registry.ts` | one event slot, a promise chain per game, who holds the projector | `enqueue`, host guards, whitelist, reducer, invariants, persist, emit | actions interleave with resets handled outside the chain; a rejected reveal has already taken the screen; whom to push to is decided by a state read earlier | a game keeps to its lifecycle whatever overtakes what; a reveal keeps the screen; the crowd sees every transition |
| **host persistence** `host/persist/*.ts` | last lifecycle per game, debounce timers | write at once on a transition, debounced otherwise; close, recover | a crash inside the debounce window; what outlives an event | a closed event stays closed; a restart loses no setup |
| **sockets** `host/namespaces.ts`, `server.ts` | a viewer per socket, the socket of each player, the 1 Hz ticker | connect, message, disconnect, resets | a phone back on a new socket before the old one is noticed gone; an identity claimed twice | a player's messages reach the phone they hold; a connected player is not shown as away |
| **identity and limits** `identity/*.ts`, `host/tokenbucket.ts`, the routes of `server.ts` | the signing secret; attempts and lockout per address; tokens per socket; the window of reactions | sign in, ask for the session, sign out (everywhere), handshake; `check`, `fail`, `succeed`; `take` | cookies that outlive the secret; answers on their way when everyone is signed out; restarts; windows and lockouts at their boundaries | a lockout is earned, and ends; nobody stays connected on a session that was ended, and no other session is lost while the secret stays |
| **player client** `player/usePlayer.ts` | the phone's identity, its view, its optimistic marks | join, rejoin, fill, pick, clear, reset | reloads and lost connections with answers on their way; a reset or another event in between | the phone comes back as who it was, and its card is the host's |
| **console** `console/*.tsx`, `yutnori/src/client/MasterPane.tsx` | summary, views, drumroll timers, who is signed in | clicks; the drumroll's automatic step | requests from panes that are behind; timers under React's re-rendering; several consoles | what it shows is the event; a place is revealed because somebody asked for it |
| **projector** `projector/App.tsx`, `shared/rank.ts` | summary, views, the automatic channel, callout, roulette | pushes, timers, animations | some changes are pushed in part; timers and animations over two channels | once nothing is on its way it shows the event as it is; a callout before its roulette; the card of a winner of this round |
| **board, rules, scripts** | none | rendering, demos | none | not modelled |

How they interact: a socket message is routed by the game's module (`route()`)
to an action; `registry.enqueue` appends it to the game's promise chain;
`dispatch` checks host guards, the lifecycle whitelist, runs the game's pure
reducer, evaluates its invariants (development only), commits the room, hands
it to persistence, emits. The ticker enqueues a TICK for every enabled game each
second. `game:reset` and `event:reset` replace rooms without the chain.

## 2. Plan

Built, in this order:

1. `YutBoard`, `YutRules`, `Yutnori`: the yutnori engine. It is where the code's
   own logic is longest and where a wrong state takes several moves to show.
2. `GameLifecycle`: the abstract specification both games promise the host;
   `Yutnori` is shown to implement it.
3. `YutStore`: composes `Yutnori` with its log, crashes, recovery and resets.
4. `YutRules_proofs`, `Yutnori_proofs`, `YutStore_proofs`: their
   theorems.
5. `Host`: the registry, the dispatch chains, the projector lock, operations that
   act between an action's enqueueing and its run, over games known by their
   lifecycle (`GameLifecycle`).
6. `HostStore`: composes `Host` with the write-behind layer, crashes and recovery.
7. `Bingo`, parameterised by the grid; it implements `GameLifecycle` too.
8. The ranking of bingo, in `Bingo` (`RanksAbove`).
9. `Phone`: one phone and the host's side of its connections: identity, the socket
   map, the token bucket, rejoin, optimistic marks.

10. `Screens`: a console and the projector, what each keeps of the event and when.
11. A write that fails after its commit, in `HostStore`.
12. `Access`: sessions, the attempt limiter, the window of reactions.
13. `Host_proofs` (of `Host` and `HostStore`), `Bingo_proofs`, `Access_proofs`,
    `Phone_proofs`, `Screens_proofs`.

Left open:

14. The comparator of yutnori's teams, as an operator over `YutRules`.
15. `Phone` over the full room of `Bingo` in place of its abstraction, or a proof that
    the abstraction is one.

## 3. The modules

### YutBoard
The graph. Stations are the integers of the code. `DefaultNext`, `FirstOptions`,
`Walk`, `Destinations`, `StepBefore` are its functions of the same names; a walk
is at most five steps, so it is a tuple and not a recursion. `stepBefore` takes
the first way that matches; no two ways from a station meet after the same
number of steps, which is why `CHOOSE` stands for it. `ToHome` is the
breadth-first search of the ranking.

### YutRules
The rules as operators on a setup `c` and a game `g`. The split of a `Room` in
two is the code's own: `setupOf()` keeps `c` (and the lifecycle and clock, which
are variables of `Yutnori`), and `g` is what `replay()` rebuilds.

- A team is its 1-based place in the turn order; a mal is `<<team, number>>`.
- Names, colours, rosters and emitted messages are left out, and so is the
  attack-or-flow wording of an event.
- `Candidates` is a set where the code has a list: a candidate is found by its
  mal and destination, and no two have the same. The order only matters on the
  console.
- `Team.finishedAt` is left out: nothing sets it to anything but null. A mal
  that gets home goes back to waiting, so no team is ever finished and the
  `allFinished` ending cannot be reached; the guards on it are kept.
- `Replay` is None where the reducer throws on a logged decision.

### Yutnori
One room. One action per case of the reducer's switch, its guards the whitelist
`ALLOWED` and the reducer's refusals. An action that is refused changes nothing
and is not a step. `Tick` is the tick that ends the game; the others change
nothing. `Commit` is the host's `invariants()` hook, on (`CheckInvariants`) in
development and off in production. `dropped` is a history variable: an ending
has thrown a throw away since the game was last rebuilt from its log.

The host runs one action of a game at a time and a reducer is synchronous, so
every action is atomic.

### YutStore
`saved` is what SQLite holds: the setup row and the event rows. An action and
its write are one step because the write is synchronous and in the same turn of
the loop. `WriteEvents` is `ON CONFLICT DO NOTHING` plus the deletion past the
tail. `Crash` is a process that dies between two steps and recovers. `Reset` is
`game:reset`. The event's own row, its six-hour age limit and the enabled flags
are left out.

### GameLifecycle
SETUP, LOBBY, RUNNING, ENDED, REVEAL and the reveal steps, with one parameter:
may an ending be taken back. `Yutnori` (TRUE) and `Bingo` (FALSE) refine it, and
`Host` states of its rooms that between resets they follow it.

### Host
`event` is the registry's slot, `queue[g]` the promise chain of a game.

- *The event loop.* A handler of a socket message runs to its end. Handlers of
  packets that were read together run one after the other before the promise
  jobs they have queued. So handlers may pile actions up (`Message`, `Tick`) and
  host operations may act between them (`GameReset`, `EventReset`,
  `EventCreate`, ...), and then, after `Drain`, the chains are emptied before
  another handler runs. The jobs of the two games may interleave in any order
  (`Run(g)`); within a game they are in order.
- *An action* carries `before`, the lifecycle its handler read when it was
  enqueued, which later decides whether the crowd is told. `Dispatch` and `Reject`
  are the two outcomes of the job: the host's guards, the whitelist, the
  reducer, the commit, the release of the lock, the push.
- *A game* is what the host may know of it: a lifecycle, a reveal step and the
  event it was made for. `Apply` gives the rooms a reducer may return, `MayRefuse`
  the actions it may refuse for reasons of its own (or the invariants hook
  may). PLAY stands for every action that leaves the lifecycle alone. That this
  is what the two reducers do is what `FollowsLifecycle` and
  `BingoFollowsLifecycle` show. The DISCONNECT of a phone is one of them, although
  the real one pushes nothing; the crowd of bingo does not need it, for every transition of
  bingo is pushed.
- *Left out:* `master:tick`, the tick a console may ask for, which is the ticker's own.
- `crowd[g]` is the lifecycle in the last full picture sent to the phones and
  the board. `overtaken` is a history variable: an action still in the chain was
  enqueued before a reset.

### HostStore
`rows`, `yutRows`, `bingoRows` are the tables, `dirty`, `timer`, `lastLifecycle`
what `createSqlitePersistence()` keeps in memory. `FlushBingo` and `Persist` take
the event that is open when they run, as the closure `event()` does. An action's
enqueueing and its run are one step here: what `HostStore` is about is when
things are written, and `Host` has the interleavings. `Crash` loses what
is in memory and recovers.

A write at once may fail (`ActionUnwritten`, `ResetUnwritten`): the database throws
out of `enqueue()`, between the commit and the pushes. The room stays committed,
`lastLifecycle` is set and `dirty` empty, the event's row or the setup of the game may
have been written by then, and the request is answered as refused. A write that fails in the debounce
timer is an uncaught exception, which ends the process, and is `Crash`. `unwritten` is
a history variable: the games whose last write at once failed.

### Bingo
One room. A player is the number given on joining, and `players` a sequence, so
`byNumber` and `nameIndex` are lookups. A refused or ambiguous query changes
nothing and is not a step; `FILL_PICK` is checked like a fill. The card is
`GRID` by `GRID`; its permutation of the traits is left out, because no rule
reads it, but for whether it was dealt. `RanksAbove` is `compareForRank`: players
join one after the other and numbers follow, so the number stands for `joinedAt`
as well. The order of the console's list of leaders, which is another (section 6), and
`lateJoin`, which nothing reads, are left out.

### Phone
One phone of a bingo player: `page` is the state of `usePlayer.ts`, `stored` its
localStorage; `socks`, `playerSockets` and the buckets are what `namespaces.ts` keeps;
`up` and `down` are the messages on their way over each connection.

- *The network.* Either end finds out by itself that a connection is gone: the page
  in `GoneOffline`, or by a `Reload`; the host in `Disconnect`, which may be long after
  the page is back on another. Within a connection messages keep their order,
  as they do over socket.io. One assumption is made: what the page sent over a connection is
  read before it connects anew, or never.
- *The host.* A handler, the dispatch it starts and the answer are one step (`Host` has
  the interleavings). Who the request comes from is settled first, then the bucket is
  asked, then the room. The bucket is refilled by time: a bucket found empty may or
  may not have a token again, which is all the next request can tell. A disabled
  bingo, a full room and refusals of the other cells are among those a fill may
  get at any time; the join code is at hand. A first join that is refused (a full room, a
  nickname with nothing in it) leaves the phone at its form, and is left out.
- *The room* is its lifecycle and, for each identity this phone was given,
  whether it is connected and which cells it has filled.
- *The summary and the full picture* always follow each other within one handler
  and are one message.
- *Restart* is the host process, dying and recovering what `persist.ts` reads back of
  bingo: the traits.
- *The screens* of `App.tsx` are there as far as they decide what can be tapped: the
  join form, a cell's sheet, which stays open when the game ends, and the list of
  namesakes.
- `ignored` is a history variable: the cells whose last request was answered in a
  way the page does not listen to.

### Screens
What a console's page (`con`) and the projector's (`pj`) keep of the event, and how it
gets there. `event` is the host as its screens are told of it: the setting, the lock,
the spotlight, the prize box, and of each game what its view shows.

- *Bursts.* What one handler sends to one screen (granular emits, the summary, views, in
  this order) is one message, and is rendered before the next is read. Each handler
  sends what it sends: an action the summary and its game's view, the tick that ends
  a game no summary, a refused reveal that has taken the screen nothing but an error to
  its sender, the leaving of a phone nothing. `unsaid` is a history variable: what the
  host has changed and told no screen.
- *The others.* Everyone else (other consoles, phones, the clock) acts on the host at any
  time (`Others`). This operator's own requests are actions of their own where they
  depend on what the pane shows, or on a timer of it; they wait in `up` while the
  page is disconnected, as socket.io keeps them.
- *The drumroll.* `DrumAfter` is the effect after a render: idle, armed (the timer
  runs) or spent. `Touch` is a render that nothing from the host caused.
- *Time.* The 20 s of the automatic channel, the 2.5 s of the drumroll and animations end
  at any time. Of the two that the code plays against each other, callout (1.6 s)
  and roulette (2 s), the callout ends first, unless it waits undrawn under the other channel.
- *Left out:* several bursts read before React renders once; the `setEvent(null)` in the
  answer to event:reset, which a null summary precedes; hidden games; a reload while
  the network is away; the other operators' own spotlight and prize. When a burst
  carries the views of both games, as on a new connection, the automatic channel takes bingo
  (`BumpAll`); React may run the updater of `setAutoGame` only after both were marked active,
  and then leaves yutnori.

### Access
`cookie`, `page`, `wire` are a browser: its cookie, the state of `useConsole.ts`, the one
request it has on its way, and then the answer to it. A token is its secret and its
expiry, and verifies as `verify()` says; secrets are numbered, and a number is
never drawn twice (`FreshSecret`). `Restart` draws a new one, or takes that of
SESSION_SECRET (`given`, `StartingSecret`). `everywhere` and `boots` are history
variables: how often everyone was signed out, and how often the host was restarted. A token is
marked with both, so that a session that was ended on purpose and one that a restart ended
are told apart.
`Kicked` is `disconnectSockets()`: a page the host disconnects stays as it is, because
socket.io-client does not reconnect by itself from a disconnect of the server's.
`buckets` is the limiter's Map, where an address without a bucket has an empty one.
`Prune`, `Check` and `Fail` are its functions, and `Younger` the filter by age they
and the window of reactions share: times are pushed in order, so it drops the beginning; `fails`, against which the property is
stated, counts failures on its own. An event is open throughout, for the sign-out
buttons are in its bar; a sign-out is answered to a page that is still there, or is lost. The gap
between reactions is the connection's, so a phone that reconnects has a fresh one.

## 4. The runs

| Run | Question | Bounds |
|---|---|---|
| `YutRules_play` | do the rules keep turns, throws, catches, duels, scores and replay consistent? | two teams of one mal, all four modes, throws of 1, 3 and 5 steps, four events |
| `YutClock` | do pauses, extensions, endings taken back and the tick keep time, and does a game out of time end wherever it stands? | one mode with duels, throws of 1 and 5 steps, three events, limit up to 3, time up to 3 |
| `YutStore` | does the log mirror the game, and a restart resume it? | three of the modes, throws of 1 and 5 steps, three events, time up to 1, crash and reset at every point |
| `Host` | do rooms, screen and crowd stay right however messages, ticks and operations interleave? | both games, two actions in one turn of the loop, reveal steps 0 and 1, two events |
| `HostStore` | is a closed event left closed, and a restart without loss of setup? | two events, crash and timer at every point, one write that fails |
| `Bingo` | are cards consistent and bingos found, announced and kept? | four people, two of one name; a card of 2 by 2, three cells of one card and two of another; three bingos; time up to 1 |
| `Phone` | does a phone come back as who it was, to the card the host has? | two connections, one cell, two identities, three operations of the master or restarts, three taps, a bucket of two |
| `Screens` | do console and projector show the event, and reveal what was asked for? | three evenings to begin with, two actions of the others, one click, one connection lost or page reloaded; any number of renders and timers |
| `Access` | is a lockout earned, and does a console follow its session? | two consoles of one address, two phones, five requests, losses and restarts, time up to 5; two attempts in a window of 2 lock out for 3, a session lasts 3 |
| the `_claim` runs | three statements of the documentation; each is violated | as small as shows it |

*Why the bounds are enough.* Throws of 1, 3 and 5 give a non-bonus and a bonus
throw and combine to every outer-ring and shortcut station within two moves
(5 is the first branch, 5+5 the second, 5+3 the centre), mini-game stations (1,
3, 6, 8, the centre) and plain ones. Four events hold a catch (two moves), its duel,
its bonus throw, and the turn that follows. Two teams suffice for a catch, and a
defender is then unique; the theorems hold for any number of teams and both
numbers of mals. In `Host` two actions in one turn are
what a stale `before` needs, and with an operation between them, or a new event,
what is overtaken. In `Bingo` on a 2 by 2 card a cell is on a row, a column and a
diagonal; three cells of it make lines one and two at a time, and four people
are as many as a third fill on one card needs. In `Phone` two connections are a
reconnect, and the late notice of the first; three operations hold a start and a reset,
or the end of one event and the beginning of the next; three taps are a join, a
fill and another request, one more than the bucket has tokens for with the rejoin. The
last connection holds, so that there is a rest to state properties of. In `Screens` two actions of the others with the drumroll's
own hold a reveal and a second console's step, a reset and a new event, a mini-game and its judgment
or the switch of channel between; the evenings it begins with put bingo before its start,
before its reveal and in the middle of it. In `Access` a window, a lockout and a
session each end before `MaxTime`, with time left after; five requests hold two
sign-ins, a sign-out everywhere and a restart. In `HostStore` one failing write at any point
is enough to ask what it costs, and whether the next one mends it. In `YutClock` the limit, an
extension and a pause fit before `MaxTime`, and the clock may be at zero before any of three
moves or after: a bonus throw, a branch to choose at, a catch and its duel, an undo of
each; a turn that the bound on events cuts short is excepted by name (`CutShort`).

*What they show.* The properties are stated in the modules, each with its
meaning. The main ones:

- `EveryThrowHasAMove`: the refusal NO_CANDIDATES is unreachable, as its comment
  in `apply.ts` says.
- `PendingMatchesBoard`: nothing between a throw and its move, or a move and its
  judgment, makes them stale.
- `NoSharedStation`: teams share a station only during the duel about it. With
  station challenges on this fails by design: a lost challenge puts a mal
  back without catching.
- `ScoresMatchHistory`, `ThrowsAccounted`: laps, points and throws follow from
  the log.
- `ReplayFidelity`: replaying the log gives the game, unless an ending threw a
  throw away.
- `TimeupBetweenTurns`, `OnlyExtensionsAddTime`: time-up never cuts a turn, and
  nothing but an extension gives time back.
- `TimeupEndsTheGame`: a game out of time ends, wherever it stands, if only the operator
  lets the turn under way finish. It rests on every turn being one that can be
  finished: with nothing pending, mid-turn means that a throw is owed. The exception is a throw that an
  ending threw away (section 6).
- `LogStaysExact`, `CrashResumesPlay`: the log and recovery. Their exceptions are
  the findings below, named in the formulas.
- `FollowsLifecycle`, `BingoFollowsLifecycle`: the refinements.
- `RoomsFollowLifecycle`: an action that waited is judged by the room it finds,
  so a reset in between cannot make a game jump.
- `CrowdUpToDate`: when the loop is at rest, the crowd has been sent the state
  each game is in, although the comparison is with a state read earlier. The
  exception is in the formula: an action of bingo that a reset overtook.
- `RevealKeepsScreen`: no action but another reveal takes the projector from
  a game in REVEAL. (The master's own switch, an operation, may.)
- `EveryActionSettles`: refused actions do not wedge a chain.
- `ClosedStaysClosed`, `CrashKeepsSetup`: late timers, crashes and writes that fail. A
  failing write costs its own game what it would have written, until the next write
  of that game, and nothing else.
- `CardsConsistent`, `NoBingoMissed`, `BingosAreAnnounced`, `BingosArePermanent`:
  the assertions of `invariants.ts` and what they leave unsaid, that the
  detection through one cell misses no line and announces none twice.
- `PlacesAreEarned`: by the order of `ranking.ts`, no right fill, whatever was cleared before
  it, costs its player a place, on points or on the tie-break. The documentation has another
  order (section 6).
- `RegisteredSocketIsOpen`, `UnicastsReachPhone`: the map of sockets, through late
  disconnects and identities claimed again.
- `CardRestored`: once nothing is in flight, a phone that keeps the identity of a
  player in the room shows that player's card as the host has it.
- `GreenIsSettled`: no optimistic mark outlives its answer but those the page does
  not listen for (section 6).
- `DrumrollOpensOnlyThird`: whichever timers and operators ask at the same time, no
  place after the third is opened but by a button that named its step.
- `ScreensShowTheEvent`: at rest a connected screen shows the event as it is. The
  exceptions are what the host tells no screen of, and are in the formula.
- `SpotlightIsOfThisRound`, `CalloutFirst`: the card on the screen, and the callout
  before its roulette. The exceptions are a click of a pane that was behind, and a callout that
  waited.
- `LockoutIsEarned`: an address is locked out when and only when that many wrong
  passcodes fell in one window, and for so long after; the record of a lockout that
  has passed does not renew it.
- `ConsolesFollowSessions`, in two parts. `EndedSessionsAreOver`: nobody stays connected,
  or is let in, on a session from before everyone was signed out, unless a restart brings an old
  secret back (section 6).
  `SessionsLast`: a session nobody ended stays good while the host runs, and over restarts
  with SESSION_SECRET unless an old secret comes back. Without it a restart ends every
  session, and the property says so (section 6).
- `ReactionsBounded`: up to twice the cap in any second, and no more.

*Fairness.* `FairSpec` adds weak fairness of the tick that ends a game, and of
nothing else: the master may stop acting at any time. `server.ts` runs the ticker
every second while the process lives, for every enabled game of an open event.
A game the master disables is not ticked; that is not modelled, and the
liveness property is about enabled games. Of the operator nothing is assumed in the
specification; `TimeupEndsTheGame` says under which conduct it holds (`OperatorFinishes`): from some
point on he resumes pauses, judges mini-games, moves on throws and enters the throws
still owed, none of which need be a bonus, and does nothing else.

`HostFairSpec` adds weak fairness of the loop's progress
(`Drain \/ \E g : Run(g)`): promise jobs are run before Node waits for
anything else. Messages, ticks and operations have none.

`FairScreens`, of `Drumroll_claim`, adds weak fairness of what the machines do by
themselves: the console reads what has come, the host what was sent, the projector
too, connections come back, the drumroll's timer fires. Nobody has to click.

*Deadlock.* A room after its last reveal step stays as it is, so the yutnori
and bingo runs switch the deadlock check off, and so does `Host`, where the last
event of the bound may be closed, and `Phone`, `Screens` and `Access`, which rest when their
bounds are used up. `YutStore` and `HostStore` keep it: a reset, or
a restart, is always possible.

## 5. The proofs

TLAPS proves, for every value of the constants:

| Module | Theorem | Property |
|---|---|---|
| `Yutnori_proofs` | `Invariance` | `IInv`, the inductive invariant of a room |
| | `TypesHold` | `TypeOK` |
| | `TurnCanBePlayed` | `EveryThrowHasAMove` |
| | `PendingHolds` | `PendingMatchesBoard` |
| | `StationsAreHeld` | `NoSharedStation` |
| | `ClockRunsDown` | `OnlyExtensionsAddTime` |
| | `LifecycleImplemented` | `FollowsLifecycle`, a refinement |
| | `LogInvariance` | `Logged`, what a room owes its log |
| | `LogReplays` | `ReplayFidelity` |
| | `ThrowsAreAccounted` | `ThrowsAccounted` |
| | `ScoresAreTold` | `ScoresMatchHistory` |
| | `TimeupIsFair` | `TimeupBetweenTurns` |
| `YutStore_proofs` | `StoreInvariance` | `SInv`, a room and its rows through crashes and resets |
| | `LogIsExact` | `LogStaysExact` |
| | `CrashesResumePlay` | `CrashResumesPlay` |
| `Host_proofs` | `HostTypesHold` | `HostTypeOK` |
| | `RevealHoldsScreen` | `RevealKeepsScreen` |
| | `RoomsKeepLifecycle` | `RoomsFollowLifecycle`, a refinement for each game |
| | `CrowdIsTold` | `CrowdUpToDate` |
| | `ClosedEventsStayClosed` | `ClosedStaysClosed` |
| | `CrashesKeepSetup` | `CrashKeepsSetup` |
| `Bingo_proofs` | `BingoInvariance` | `BingoInv`, the inductive invariant |
| | `BingoTypesHold` | `BingoTypeOK` |
| | `CardsAgree` | `CardsConsistent` |
| | `EveryBingoIsHeld` | `NoBingoMissed` |
| | `EveryBingoIsAnnounced` | `BingosAreAnnounced` |
| | `BingosStay` | `BingosArePermanent` |
| | `BingoImplementsLifecycle` | `BingoFollowsLifecycle`, a refinement |
| | `PlacesEarned` | `PlacesAreEarned` |
| `Access_proofs` | `LockoutsAreEarned` | `LockoutIsEarned` |
| | `ConsolesKeepToSessions` | `ConsolesFollowSessions` |
| | `ReactionsAreBounded` | `ReactionsBounded` |
| `Phone_proofs` | `PhoneInvariance` | `PhoneInv`, a phone and the host's side of it |
| | `PhoneTypesHold` | `PhoneTypeOK` |
| | `RegisteredSocketsAreOpen` | `RegisteredSocketIsOpen` |
| | `UnicastsArrive` | `UnicastsReachPhone` |
| | `CardsAreRestored` | `CardRestored` |
| | `GreenSettles` | `GreenIsSettled` |
| `Screens_proofs` | `ScreensInvariance` | `ScreensInv`, the event, the wires and both pages |
| | `ScreensTypeCorrect` | `ScreensTypeOK` |
| | `OnlyThirdByItself` | `DrumrollOpensOnlyThird` |
| | `CardOfThisRound` | `SpotlightIsOfThisRound` |
| | `CalloutBeforeRoulette` | `CalloutFirst` |
| | `ScreensShow` | `ScreensShowTheEvent` |

So every invariant and every action property of a passing run has its theorem.

`YutRules_proofs` holds the lemmas about the rules and about
replay that the theorems of `Yutnori_proofs` and `YutStore_proofs` rest on.

*Assumptions.* They are named where the constants are declared, and TLC evaluates them
in every run. Of yutnori: null is not a number nor a mini-game record
(`NoneAssumption`, `NullAssumption`), setups are setups (`SetupsAssumption`), limits
and extensions are positive, which the console's validation ensures
(`TimesAssumption`), throws are throws (`SticksAssumption`), and null is not the row
of a room (`LogAssumption`). Of bingo: a card has at least one cell (`GridIsACard`), hands are
dealt on it (`CellsOnCard`), nicknames are a list of names (`NicknamesInOrder`). Of
the host: null is apart from the records it stands beside (`HostNoneAssumption`,
`HostNoEvent`, `StoreNone`), `bingo`'s reveal steps are numbers (`StepsAssumption`). Of access:
periods and limits are positive, and a window of attempts is no longer than the lockout it
leads to (`AccessPeriods`; one minute and fifteen in `ratelimit.ts`, and with a longer
window the limiter would keep attempts from before a lockout). Of the phone: null is no
number, cell, state, marker, set of cells or picture (`PhoneNone`), and there is at least one
connection and one token in a fresh bucket (`PhoneBounds`). Of the screens: null is no number, winner,
game, callout, view, event or summary (`ScreensNone`), and the rooms of an evening are rooms
(`ScreensStarts`). The bounds of the runs are any natural
numbers.

### Yutnori
None of the properties is inductive alone. A judgment, for instance, keeps
`NoSharedStation` only if the mini-game is about the last event, and if the station
the attacker goes back to is still free. So `YutRules_proofs` proves one invariant of
a game, `GameInv` (its type, a turn that is a team's, the pending throw and mini-game
matching the board, stations shared only in a duel), kept by each rule: `CommitInv`,
`ThrowInv`, `MoveInv`, `ResolveInv`, `SpinInv`. Between them runs `Clear`, the same
with nothing pending, in which the lemmas on the tail of a move are stated.

Undo rebuilds the game, so `ReplayInv` is needed: every successful replay ends in a
game that satisfies `GameInv`. That is an induction over the log. The provers cannot
instantiate the library's induction theorem, so it goes by the least index at which
the run breaks the invariant.

The properties of the log need more of the game: `YutRules_proofs` goes on to prove `GoodGame`,
which is `GameInv` with `Accounted` (in each turn of the log, throws owed are throws
made, lost or queued), `Scored` (the scores are counts over the log) and `Faithful` (the
replay of the log is the game, less its pending throw). Each rule keeps it, and so
every replay, of any log that replays at all, ends in a good game (`ReplayIsGood`): an undo cuts
the log, and the shorter log is one of those. Counts over a log are sums over sets of
its indices, compared before and after an event is appended or its outcome rewritten. `Logged` puts this into the room.

### YutStore
`SInv` says that the room is either a good one or *hollow* (recovered from a log whose
room had been reset: RUNNING, and without teams), and that the rows tell what the
room is. `LogIsExact` compares rows and history, entry by entry, over each kind of
write. `CrashesResumePlay` rests on replay of the recovered log being replay of the
room's own, an outcome of a mini-game excepted: `ReplayWins` says what a challenge
in progress becomes. `TimeupBetweenTurns` is not part of `SInv`, because a crash that loses the
outcome of a challenge may hand a throw back to a game that is over (section 6).

### Host and HostStore
`RoomsFollowLifecycle` needs nothing of the queues: `dispatch` checks the state when it
runs. `CrowdUpToDate` does: whom to push to is decided by the state an action was enqueued in.
`CrowdInv` has it that no queued action of bingo was sent to a later state than
the game is in, and that ticks were sent to a running game (`QueueFollows`); bingo
never goes back, so what the action leaves is what the crowd is told.
`StoreInv` says what is on disk for each game of the open event, by what may still be
waiting for a timer and what a failed write owes (`OpenIsOnDisk`, `YutOnDisk`, `BingoOnDisk`).

### Bingo
`BingoInv` is the conjunction of the properties and of `TimesPast` (no fill is in the
future, without which a right fill might cost a place). The proof of `NoBingoMissed` is that a
line not through the filled cell is as full after the fill as before, and that a
line is found by its key: lines are as many as the card's size says, not a list.

### Access
*Attempts.* `Tallied`: the attempts a bucket keeps are the end of the failures since
the last success, what it does not keep is too old for the window, and a lockout is the one its last
`MAX_ATTEMPTS` failures earned. *Sessions.* `Good`, of every
token a browser holds or an answer brings: its secret was drawn no later than the token was
issued, so a secret drawn later is another; one that verifies was issued since the last sign-out
everywhere; and one that was verifies while its process runs, and afterwards with SESSION_SECRET and
not without. What is said across a restart with SESSION_SECRET needs that no old
secret came back (`SecretIsBack`). *Reactions.* `Floated`: of the reactions that are
remembered all but a first part, no longer than the cap, are of the present window. Lists of times
are ordered, so that a filter by age is a suffix.

### Phone
The properties speak of a phone with nothing in flight; `PhoneInv` says, message by
message, why it will get there. `WireInv`: a connection begins with its connect and at
most one rejoin, over a socket nobody has used, and only the last connection has
requests on it. `HereInv`: an identity is registered to the socket that has it, and
the page's own is at its connection's socket or in the rejoin that waits to be read
there. `JoinInv`: a page that knows who it is has joined or will get the answer to a
rejoin. `ViewInv`: what is on the way down to a player of the room ends with the room's
picture of them, or they show it already (`EndsWith`, `Shows`). `GreenInv`: for a marked cell a request
is going up, something that settles it is coming down (`Heals`), or the answer is
one the page does not heed. Three facts carry most of the induction: no other
request can stand before a rejoin, a rejoin claims an identity that was issued, and
every request that is read is answered before anything later. A message is
read at one end and what follows it is appended at the other, so the proof is of lemmas
about the head, the rest and the end of lists of messages, then one lemma per
action.

### Screens
The properties speak of a page that has read everything, or of what it shows at one moment;
`ScreensInv` says what the bursts on their way will make of it. What a page knows of
the event after the first `n` bursts is what the last of them that spoke said, and of a game
what the last that carried its view showed (`SaidBy`, `ViewBy`), which needs no
recursion: a burst appended or read off the head moves an index, and the lemmas about lists follow
without induction.

- `WireInv` has, of either page: `Shows`, that once it has read all it agrees with the event but
  for what is in `unsaid`; and of the projector: `Rounds`, that however far it has
  read, its card is of the round of its bingo view, which is why a reset and a new
  event must send the summary and the view in one burst; and `Heralds`, that a callout comes with the
  view of yutnori, and one that comes with a mini-game finds none shown before it.
- `HostInv` and `UpInv`: a step past third place that is open, or requested by a button and on its
  way, was asked for; a drumroll's request is of the first step only.
- `PageInv`: `OneAtATime`, that the roulette is not drawn with a callout at play that started, or with
  one that is still to come after a judgment.

A handler of the host is shown once to keep the wires, by what it sends and what
it leaves unsaid (`Tells`, `Untold`), and each action then says that it is such a handler.

### Model-checked only
`TimeupEndsTheGame` and `EveryActionSettles`, for liveness under fairness is out of the
prover's reach; and what a recursive definition computes for every input.

## 6. Where the code departs from its documentation

1. `YutOutcome_claim`: the outcome of a mini-game is recorded "so [it]
   survives recovery". It is stamped on an event whose row is already
   written and never updated, so after a restart every duel was won.
2. `PhoneAway_claim`: a player is "connected: false while disconnected". The late
   disconnect of a connection the phone has left already does not unregister its new
   one, but it still marks the player as away, until their next rejoin.
3. `Drumroll_claim`: the podium is to go on to third place "so the operator doesn't
   have to click again". Any render of the console in the 2.5 s of the drumroll clears
   its timer, and it is not set again.

Met while modelling, without a run of its own. Of the games and their log:

- `yutnori/spec.md:530` promises that replaying a log reproduces the state. An ENDED game
  that had a throw waiting forgets it without giving it back, and an ending can be
  taken back. After that the log and the game disagree. (`dropped` in `Yutnori`.)
- `apply.ts:464`, "the current team finishes its turn first. The end fires on the first
  tick after that" (and `yutnori/req.md:385`). If the throw that was forgotten was the last one owed to a
  team that had moved before in this turn, the team is still in mid-turn and every throw
  is refused: nobody can finish the turn, and the tick waits for ever. An undo or
  another END gets the room out of it. (The exception `dropped` in `TimeupEndsTheGame`.)
- `invariants.ts:43` forbids an ended room with a mini-game pending. END makes one. In
  development the master cannot end the game during a mini-game, against
  `yutnori/req.md:139`; in production the room carries it along.
- A room set up and not yet started, or reset, is RUNNING after a restart, with a clock
  that never starts, against `persistence.ts:97`. (The exception in
  `CrashResumesPlay`.)

Of bingo:

- The order of the players. `bingo/spec.md:270` has `ranking.ts` implement `bingo/req.md`
  section 9 exactly, with the tie-break by `firstBingoSeq`; section 9 (also `req.md:336`,
  `rank.ts:4`, `master/spec.md:255`) ranks by the first bingo, all who have one
  before all who have none; `RUNNING.md:53` by the number of bingos. The code ranks by
  points, then the latest fill, then who joined first, as the comment at `ranking.ts:13`
  says, and never looks at the first bingo. `PlacesAreEarned` is about this order.
- `ranking.ts:11`, the order is "used everywhere so the live ladder, the reveal podium and
  the winner list always agree", and `bingo/spec.md:275`, the dashboard is "asserted equal" to it. The
  console's leaders are sorted by the first bingo (`project.ts:250`), and show places that the
  podium then contradicts. No test compares the two.

Of the host:

- A write that fails after its commit (`dispatch.ts:117`): the action is answered as
  refused and has happened, no screen is told, and it is not tried again before the
  next write. In event:reset it leaves a closed event in the registry.
- `event.ts:32` and `dispatch.ts:72` say the projector's lock lasts as long as the
  reveal. `hostGuards` sets it before the action is accepted, so a REVEAL that is
  refused takes the screen, and its game will not leave a REVEAL it is not in. The
  master's `projector:set` clears it.
- `persistence.ts:97`, "a lifecycle change is never debounced": the last lifecycle is
  remembered per game and outlives `event:reset`. When the next event's bingo gets
  its traits, LOBBY may already be the remembered state, and a crash within the
  window loses them. For the same reason a snapshot that was waiting is written
  under the next event's id.
- `bingo/req.md:235`, a cell "must revert if the server rejects": the page takes back
  the mark of a fill that is refused, but not of one the bucket dropped, and not of
  a pick or a clear that is refused, as it is when the game ends under an open
  sheet. This is the exception in `GreenIsSettled`.
- `event:reset` sends the phones an empty summary and nothing else. A phone that had
  joined stays on its old card until it reconnects.
- `board.ts:98` has the advancement of a station "rising to the max" towards home. It
  is the shortest way home from the start, 11 steps, less the shortest way home from
  the station (`AdvancementOf`), so a mal that moves past a corner without resting
  there falls back: from 4 at station 4 to 1 at station 6. `ranking.ts:15` gives the
  range as 0..20; it is 0..11.
- `session.ts:9`, "a server restart mid-event does not sign the master out" (and
  `master/spec.md:293` and 297, the secret is generated on first boot and kept in the
  database). It is in memory only: without SESSION_SECRET a restart draws another and signs everyone
  out. (The last part of `SessionsLast`.)
- `session.ts:26`, rotating the secret "invalidates every outstanding token at once" (and
  `master/req.md:144`). With SESSION_SECRET a restart brings the old secret back, and with it
  the sessions that were signed out everywhere, and ends the later ones. (`SecretIsBack`,
  the exception of `ConsolesFollowSessions`.)
- A sign-out everywhere disconnects the other consoles from the server's side. Their pages
  stay signed in and disconnected, and what is clicked there is kept for a connection
  that does not come.
- A sign-in whose answer is lost leaves the form busy until the page is reloaded.
- `namespaces.ts:59`, "a rolling 1-second window": it is a fixed one, and lets through up
  to twice its limit.

Of the screens:

- `event.ts:30`, "`'auto'` resolves server-side so every screen agrees": each projector
  page resolves it for itself, and a phone that joins is activity enough to bring up bingo.
- A refused REVEAL tells no screen that it has taken the projector; a tick that ends a
  game pushes no summary, so the console's tab says RUNNING until the next one; a phone
  that leaves is pushed to no screen, so the "always who's actually here" of
  `BingoPane.tsx:149` is not.
- `namespaces.ts:357`, "a stale value is harmless": a card clicked in a pane that has not
  seen the reset yet is on the screen when the new round is revealed, if its number is
  among the winners again.
- The console marks a place as on the screen from its step on; the projector shows one
  place per step until the last.
- A callout that waited while the other game had the screen plays over the roulette.
- A join whose answer is lost leaves a player in the room whom no phone knows; the
  phone joins again as another.

## 7. Not modelled, and why

What section 2 lists as left open. Never: rendering (layout, SVG, the board of the
crowd), hashing and the syntax of cookies (library calls), demo scripts, environment
variables, and the texts the games announce.

In `YutStore` a room that was reset and then recovered may be RUNNING without teams
(section 6), so the properties of a playable game are stated of `Spec` and not
of `StoreSpec`.
