-------------------------------- MODULE Phone --------------------------------
(***************************************************************************)
(* One phone of a bingo player and the host: the page of usePlayer.ts, its *)
(* connections to /b, and the host's side of them in namespaces.ts.        *)
(*                                                                         *)
(* A connection carries messages in order both ways.  Each end finds out   *)
(* by itself, and at any time, that it is gone.  What the page had sent is *)
(* read before it connects anew or never (the one assumption made of the   *)
(* network); the host may well notice the old connection later than that.  *)
(*                                                                         *)
(* Of the room the model keeps its lifecycle and, of the identities this   *)
(* phone was given, who is in it; the other players are taken to suffice   *)
(* for a start.  A fill may be refused for reasons of the other cells, or  *)
(* answered with candidates, whatever this phone knows.                    *)
(***************************************************************************)
EXTENDS Integers, Sequences

CONSTANTS
    None,
    Cells,         \* the cells of the card that are tapped
    BURST,         \* tokens of a fresh bucket
    MaxConns,      \* bound: connections; the last one holds
    MaxIds,        \* bound: identities issued
    MaxActs,       \* bound: what the master does
    MaxTaps        \* bound: what the player does

ASSUME PhoneBounds == /\ BURST \in Nat \ {0} /\ MaxConns \in Nat \ {0}
                      /\ MaxIds \in Nat /\ MaxActs \in Nat /\ MaxTaps \in Nat

VARIABLES
    event,           \* is an event open?
    state, players,  \* its bingo room: id -> [connected, fills]
    socks,           \* by connection: [open, playerId, tokens]
    playerSockets,   \* where unicasts to an identity go
    issued,          \* identities issued
    up, down,        \* messages on their way, by connection
    page, stored,    \* the page, and the identity in localStorage
    ignored,         \* history: the cells asked about with no answer the page heeds
    used, acts, taps \* bounds: connections, operations and taps so far

room   == <<event, state, players>>
host   == <<room, socks, playerSockets, issued>>
wires  == <<up, down>>
bounds == <<used, acts, taps>>
pvars  == <<host, wires, page, stored, ignored, bounds>>

Conns  == 1..MaxConns
Ids    == 1..MaxIds
States == {"SETUP", "LOBBY", "RUNNING", "ENDED", "REVEAL"}

InRoom(id) == event /\ id \in DOMAIN players

-----------------------------------------------------------------------------
(* Messages to the page *)

Card == [t |-> "card"]              \* card:assigned, card:restore

Views == [state : States, me : (SUBSET Cells) \cup {None}]

(* null is no number, cell, state, marker, set of cells or view.           *)
ASSUME PhoneNone ==
    /\ None \notin Nat \cup Cells \cup States \cup {"filling", "clearing", "error"}
    /\ None \notin Views /\ \A fills \in SUBSET Cells : None # fills

ViewOf(s, ps, id) ==
    [state |-> s, me |-> IF id \in DOMAIN ps THEN ps[id].fills ELSE None]

(* pushState, after an action of the phone's own. *)
PushState(s, ps, id) == <<[t |-> "room:state", view |-> ViewOf(s, ps, id)]>>

(* The summary and the picture that always follows it, as one message; of no
   event there is no picture.                                              *)
Summary(isOpen, s, ps, id) ==
    <<[t |-> "event:summary", state |-> IF isOpen THEN s ELSE None,
       view |-> IF isOpen THEN ViewOf(s, ps, id) ELSE None]>>

(* Send to every connection c the messages msgs[c]; what is sent to one the
   host has closed is lost.                                                *)
Send(msgs) ==
    down' = [c \in Conns |-> IF socks[c].open THEN down[c] \o msgs[c] ELSE down[c]]

-----------------------------------------------------------------------------
(* The host and its sockets *)

Closed == [open |-> FALSE, playerId |-> None, tokens |-> BURST]

Request(c) == Head(up[c])

Adopts(c) ==
    \/ Request(c).t = "room:rejoin"
    \/ Request(c).t = "room:join" /\ socks[c].playerId = None

(* Whom the request is taken to come from: an identity is issued at the first
   join of a socket, claimed by a rejoin, and the socket's otherwise.       *)
Viewer(c) ==
    CASE Request(c).t = "room:rejoin" -> Request(c).id
      [] Request(c).t = "room:join" /\ socks[c].playerId = None -> issued + 1
      [] OTHER -> socks[c].playerId

(* take(): a bucket found empty may have been given a token since; as much as
   a token is all the next request can tell.                               *)
LeftBelow(c) == socks[c].tokens - 1                     \* mutant: below empty
Left(c) == IF socks[c].tokens > 0 THEN socks[c].tokens - 1 ELSE 0

Empty(c) == socks[c].tokens = 0

(* The head of attachPlayer's handler: identity first, then a token.        *)
Read(c, tokens) ==
    /\ up' = [up EXCEPT ![c] = Tail(@)]
    /\ socks' = [socks EXCEPT ![c].playerId = Viewer(c), ![c].tokens = tokens]
    /\ playerSockets' =
          IF Adopts(c) THEN [playerSockets EXCEPT ![Viewer(c)] = c] ELSE playerSockets
    /\ issued' = IF Viewer(c) = issued + 1 THEN issued + 1 ELSE issued

Pending(c) == socks[c].open /\ up[c] # <<>> /\ (Adopts(c) => Viewer(c) \in Ids)

(* What dispatch and the reducer refuse. *)
Allowed(c) ==
    LET here == Viewer(c) \in DOMAIN players IN
    /\ event /\ Viewer(c) # None
    /\ CASE Request(c).t = "room:join"   -> state \in {"LOBBY", "RUNNING"} /\ ~here
         [] Request(c).t = "room:rejoin" -> state # "SETUP" /\ here
         [] OTHER                        -> state = "RUNNING" /\ here

Ack(c, ok, error) == [t |-> "ack", to |-> Request(c), ok |-> ok, error |-> error, id |-> Viewer(c)]

Alone(c, msgs) == [d \in Conns |-> IF d = c THEN msgs ELSE <<>>]

(* The page heeds the refusal of a fill; those of pick and clear it drops. *)
Unheeded(c, error) ==
    IF Request(c).t \in {"pick", "clear"} \/ (Request(c).t = "fill" /\ ~error)
    THEN ignored \cup {Request(c).k} ELSE ignored

(* Without a token the request is dropped with a hint that is no error.    *)
Throttle(c) ==
    /\ Pending(c) /\ Viewer(c) # None /\ Empty(c)
    /\ Read(c, 0)
    /\ Send(Alone(c, <<Ack(c, FALSE, FALSE)>>))
    /\ ignored' = Unheeded(c, FALSE)
    /\ UNCHANGED <<room, page, stored, bounds>>

Refuse(c) ==
    /\ Pending(c)
    /\ ~Allowed(c)
    /\ Read(c, IF Viewer(c) = None THEN socks[c].tokens ELSE Left(c))
    /\ Send(Alone(c, <<Ack(c, FALSE, TRUE)>>))
    /\ ignored' = Unheeded(c, TRUE)
    /\ UNCHANGED <<room, page, stored, bounds>>

PictureBack(c, ps) == PushState(state, ps, Viewer(c))

(* The reducer leaves ps and emits unicasts; the acting phone then gets its own
   picture and the ack.                                                    *)
Accept(c, ps, emits) ==
    /\ Pending(c) /\ Allowed(c)
    /\ Read(c, Left(c))
    /\ players' = ps
    /\ Send([d \in Conns |-> (IF d = playerSockets'[Viewer(c)] THEN emits ELSE <<>>)
                             \o (IF d = c THEN Append(PictureBack(c, ps), Ack(c, TRUE, FALSE))
                                          ELSE <<>>)])
    /\ UNCHANGED <<event, state, page, stored, ignored, bounds>>

Seated(ps, id) ==
    [x \in DOMAIN ps \cup {id} |->
        IF x = id THEN [connected |-> TRUE, fills |-> {}] ELSE ps[x]]

Joined(c) ==
    /\ Request(c).t = "room:join"
    /\ Accept(c, Seated(players, Viewer(c)),
              IF state = "RUNNING" THEN <<Card>> ELSE <<>>)

Rejoined(c) ==
    /\ Request(c).t = "room:rejoin"
    /\ Accept(c, [players EXCEPT ![Viewer(c)].connected = TRUE], <<Card>>)

Result(k, ok) == <<[t |-> "cell:result", k |-> k, ok |-> ok]>>

Filled(c) ==
    /\ Request(c).t \in {"fill", "pick"}
    /\ LET id == Viewer(c)  k == Request(c).k  isFree == k \notin players[id].fills
       IN  \/ isFree /\ Accept(c, [players EXCEPT ![id].fills = @ \cup {k}], Result(k, TRUE))
           \/ Accept(c, players, Result(k, FALSE))
           \/ /\ isFree /\ Request(c).t = "fill"
              /\ Accept(c, players, <<[t |-> "cell:candidates", k |-> k]>>)

Cleared(c) ==
    /\ Request(c).t = "clear"
    /\ LET id == Viewer(c)  k == Request(c).k
       IN  Accept(c, [players EXCEPT ![id].fills = @ \ {k}],
                  IF k \in players[id].fills THEN Result(k, TRUE) ELSE <<>>)

Serve(c) ==
    /\ Pending(c) /\ Allowed(c)
    /\ Joined(c) \/ Rejoined(c) \/ Filled(c) \/ Cleared(c)

ForgottenNever(c) == playerSockets                                       \* mutant
ForgottenAlways(c) ==               \* mutant: whichever socket is registered
    [id \in Ids |-> IF id = socks[c].playerId THEN None ELSE playerSockets[id]]
Forgotten(c) == [id \in Ids |-> IF playerSockets[id] = c THEN None ELSE playerSockets[id]]

(* The host notices that a connection is gone: DISCONNECT, not in SETUP.    *)
Disconnect(c) ==
    /\ socks[c].open
    /\ c = page.conn => c < MaxConns
    /\ socks' = [socks EXCEPT ![c] = Closed]
    /\ playerSockets' = Forgotten(c)
    /\ players' = IF InRoom(socks[c].playerId) /\ state # "SETUP"
                  THEN [players EXCEPT ![socks[c].playerId].connected = FALSE]
                  ELSE players
    /\ up' = [up EXCEPT ![c] = <<>>]
    /\ UNCHANGED <<event, state, issued, down, page, stored, ignored, bounds>>

(* The host stops and comes back with what it recovers of a bingo room: the
   traits.  Players, sockets and buckets are gone.                         *)
Restart ==
    /\ acts < MaxActs /\ acts' = acts + 1
    /\ page.conn # None => page.conn < MaxConns
    /\ socks' = [c \in Conns |-> Closed]
    /\ playerSockets' = [id \in Ids |-> None]
    /\ players' = <<>>
    /\ state' = IF state = "SETUP" THEN "SETUP" ELSE "LOBBY"
    /\ up' = [c \in Conns |-> <<>>]
    /\ UNCHANGED <<event, issued, down, page, stored, ignored, used, taps>>

-----------------------------------------------------------------------------
(* The master *)

Act == acts < MaxActs /\ acts' = acts + 1
       /\ UNCHANGED <<socks, playerSockets, issued, up, page, stored, ignored, used, taps>>

(* What every phone is sent: unicasts, the summary, the room, a last word.  *)
Tell(isOpen, s, ps, first, last) ==
    Send([c \in Conns |-> first[c] \o Summary(isOpen, s, ps, socks[c].playerId) \o last])

Nothing == [c \in Conns |-> <<>>]

NewRoom == state' = "SETUP" /\ players' = <<>>

EventCreate ==
    /\ Act /\ ~event /\ event' = TRUE /\ NewRoom
    /\ Tell(TRUE, "SETUP", <<>>, Nothing, <<>>)

EventReset ==
    /\ Act /\ event /\ event' = FALSE /\ NewRoom
    /\ Tell(FALSE, None, <<>>, Nothing, <<>>)

GameReset ==
    /\ Act /\ event /\ NewRoom /\ UNCHANGED event
    /\ Tell(TRUE, "SETUP", <<>>, Nothing, <<[t |-> "room:reset"]>>)

Transition(from, to) ==
    LET dealt == [c \in Conns |->
            IF to = "RUNNING" /\ \E id \in DOMAIN players : playerSockets[id] = c
            THEN <<Card>> ELSE <<>>]
    IN  /\ Act /\ event /\ state = from /\ state' = to
        /\ UNCHANGED <<event, players>>
        /\ Tell(TRUE, to, players, dealt, <<>>)

Master ==
    \/ EventCreate \/ EventReset \/ GameReset
    \/ Transition("SETUP", "LOBBY")   \/ Transition("LOBBY", "RUNNING")
    \/ Transition("RUNNING", "ENDED") \/ Transition("ENDED", "REVEAL")

-----------------------------------------------------------------------------
(* The page *)

NewPage ==
    [conn |-> None, connected |-> FALSE, pid |-> None, joined |-> FALSE, busy |-> FALSE,
     summary |-> None, view |-> None, cells |-> [k \in Cells |-> None], picker |-> None,
     sheet |-> None]

(* The screen; a join code is taken to be at hand.                         *)
Phase(p) ==
    CASE ~p.connected -> "connecting"
      [] p.connected /\ p.joined ->
            (IF p.view # None THEN p.view.state ELSE p.summary)
      [] p.connected /\ ~p.joined /\ p.summary = None -> "no-event"
      [] p.connected /\ ~p.joined /\ p.summary = "SETUP" -> "setup-wait"
      [] OTHER -> "need-join"

CardShown(p) == p.joined /\ Phase(p) \in {"RUNNING", "ENDED", "REVEAL"}

(* What a screen keeps goes with it: the join form's wait, the card's sheet. *)
Shown(p) == [p EXCEPT !.busy = @ /\ Phase(p) = "need-join",
                      !.sheet = IF CardShown(p) THEN @ ELSE None]

Markers == {"filling", "clearing"}

(* The authoritative view drops the optimistic markers, not the errors.    *)
WithView(p, view) ==
    [p EXCEPT !.view = view,
              !.cells = [k \in Cells |-> IF view.me # None /\ @[k] \in Markers
                                         THEN None ELSE @[k]]]

Marked(p, k, marker) == [p EXCEPT !.cells[k] = marker]

RejoinOnLoad == IF page.pid = None THEN stored ELSE None   \* mutant: not on a reconnect
Known == IF page.pid # None THEN page.pid ELSE stored

(* Anything the page sends over a connection the host has closed is lost.  *)
Emit(m) == up' = IF socks[page.conn].open
                 THEN [up EXCEPT ![page.conn] = Append(@, m)] ELSE up

Arrived == Head(down[page.conn])

(* The page takes a message t and becomes p, its localStorage id.          *)
Take(t, p, id) ==
    /\ page.conn # None
    /\ down[page.conn] # <<>>
    /\ Arrived.t = t
    /\ page' = Shown(p) /\ stored' = id
    /\ down' = [down EXCEPT ![page.conn] = Tail(@)]
    /\ UNCHANGED <<host, ignored, bounds>>

OnConnect ==
    /\ Take("connect", [page EXCEPT !.connected = TRUE, !.pid = Known], stored)
    /\ IF Known = None THEN UNCHANGED up ELSE Emit([t |-> "room:rejoin", id |-> Known])

WithSummary(p, m) ==
    LET q == [p EXCEPT !.summary = m.state]
    IN  IF m.view = None THEN q ELSE WithView(q, m.view)

OnSummary == Take("event:summary", WithSummary(page, Arrived), stored) /\ UNCHANGED up

OnState == Take("room:state", WithView(page, Arrived.view), stored) /\ UNCHANGED up

OnCard == Take("card", [page EXCEPT !.joined = TRUE], stored) /\ UNCHANGED up

OnResult ==
    /\ Take("cell:result", Marked(page, Arrived.k, IF Arrived.ok THEN None ELSE "error"), stored)
    /\ UNCHANGED up

OnCandidates ==
    /\ Take("cell:candidates",
            [Marked(page, Arrived.k, None) EXCEPT !.picker = Arrived.k], stored)
    /\ UNCHANGED up

OnReset ==
    /\ Take("room:reset", [NewPage EXCEPT !.conn = page.conn, !.connected = page.connected,
                                          !.summary = page.summary], None)
    /\ UNCHANGED up

FillRefusedQuietly(p, k) == p       \* mutant: the refusal of a fill is not heeded
FillRefused(p, k) == Marked(p, k, "error")

AfterAck(m) ==
    CASE m.to.t = "room:rejoin" /\ m.ok  -> [page EXCEPT !.joined = TRUE]
      [] m.to.t = "room:rejoin" /\ ~m.ok -> [page EXCEPT !.pid = None, !.joined = FALSE]
      [] m.to.t = "room:join" /\ m.ok    -> [page EXCEPT !.pid = m.id, !.joined = TRUE]
      [] m.to.t = "room:join" /\ ~m.ok   -> [page EXCEPT !.busy = FALSE]
      [] m.to.t = "fill" /\ m.error      -> FillRefused(page, m.to.k)
      [] OTHER                           -> page

StoredAfterAck(m) ==
    CASE m.to.t = "room:rejoin" /\ ~m.ok -> None
      [] m.to.t = "room:join" /\ m.ok    -> m.id
      [] OTHER                           -> stored

OnAck == Take("ack", AfterAck(Arrived), StoredAfterAck(Arrived)) /\ UNCHANGED up

Receive == OnConnect \/ OnSummary \/ OnState \/ OnCard \/ OnResult \/ OnCandidates
           \/ OnReset \/ OnAck

(* The page connects: the host sends the summary and an anonymous picture. *)
Connect ==
    /\ page.conn = None /\ used < MaxConns
    /\ LET c == used + 1
       IN  /\ page' = [page EXCEPT !.conn = c]
           /\ socks' = [socks EXCEPT ![c] = [Closed EXCEPT !.open = TRUE]]
           /\ down' = [down EXCEPT ![c] = <<[t |-> "connect"]>>
                                          \o Summary(event, state, players, None)]
    /\ up' = [c \in Conns |-> <<>>]
    /\ used' = used + 1
    /\ UNCHANGED <<room, playerSockets, issued, stored, ignored, acts, taps>>

(* The page finds its connection gone, or is loaded anew.                  *)
Lose(p) ==
    /\ page.conn # None /\ page.conn < MaxConns
    /\ page' = Shown([p EXCEPT !.conn = None, !.connected = FALSE])
    /\ down' = [down EXCEPT ![page.conn] = <<>>]
    /\ UNCHANGED <<host, up, stored, ignored, bounds>>

GoneOffline == Lose(page)
Reload      == Lose(NewPage)

Tap(m, p) ==
    /\ taps < MaxTaps /\ taps' = taps + 1
    /\ Emit(m)
    /\ page' = p
    /\ ignored' = IF m.t = "room:join" THEN ignored ELSE ignored \ {m.k}
    /\ UNCHANGED <<host, down, stored, used, acts>>

Join == /\ Phase(page) = "need-join" /\ ~page.busy
        /\ Tap([t |-> "room:join"], [page EXCEPT !.busy = TRUE])

(* What the card shows in a cell: the marker over the view.                *)
ShownFilled(k) ==
    \/ page.cells[k] = "filling"
    \/ page.cells[k] # "clearing" /\ page.view # None /\ page.view.me # None
                                  /\ k \in page.view.me

(* A cell's sheet is opened while the game runs and stays open when it ends;
   opening it drops the cell's marker, whichever it is.                    *)
OpenSheet(k) ==
    /\ CardShown(page) /\ Phase(page) = "RUNNING"
    /\ page.sheet = None
    /\ page' = [Marked(page, k, None) EXCEPT !.sheet = k]
    /\ UNCHANGED <<host, wires, stored, ignored, bounds>>

CloseSheet ==
    /\ CardShown(page)
    /\ \/ page.sheet # None  /\ page' = [page EXCEPT !.sheet = None]
       \/ page.picker # None /\ page' = [page EXCEPT !.picker = None]
    /\ UNCHANGED <<host, wires, stored, ignored, bounds>>

(* It offers people for an empty cell, and to clear a filled one.          *)
Offers(k, what) == page.sheet = k /\ what = (IF ShownFilled(k) THEN "clear" ELSE "fill")

Fill(k) == /\ Offers(k, "fill")
           /\ Tap([t |-> "fill", k |-> k],
                  [Marked(page, k, "filling") EXCEPT !.sheet = None,
                                                     !.picker = IF @ = k THEN None ELSE @])

Pick(k) == /\ CardShown(page) /\ page.picker = k
           /\ Tap([t |-> "pick", k |-> k], [Marked(page, k, "filling") EXCEPT !.picker = None])

Clear(k) == /\ Offers(k, "clear")
            /\ Tap([t |-> "clear", k |-> k], [Marked(page, k, "clearing") EXCEPT !.sheet = None])

Player == \/ Join \/ CloseSheet
          \/ \E k \in Cells : OpenSheet(k) \/ Fill(k) \/ Pick(k) \/ Clear(k)

-----------------------------------------------------------------------------
(* A host starts with no event, or with one it recovered. *)
Init ==
    /\ players = <<>>
    /\ \/ event = FALSE /\ state = "SETUP"
       \/ event = TRUE /\ state = "LOBBY"
    /\ socks = [c \in Conns |-> Closed]
    /\ playerSockets = [id \in Ids |-> None] /\ issued = 0
    /\ up = [c \in Conns |-> <<>>] /\ down = [c \in Conns |-> <<>>]
    /\ page = NewPage /\ stored = None /\ ignored = {}
    /\ used = 0 /\ acts = 0 /\ taps = 0

Next ==
    \/ \E c \in Conns : Throttle(c) \/ Refuse(c) \/ Serve(c) \/ Disconnect(c)
    \/ Restart \/ Master \/ Player
    \/ Connect \/ Receive \/ GoneOffline \/ Reload

PhoneSpec == Init /\ [][Next]_pvars

-----------------------------------------------------------------------------
PhoneTypeOK ==
    /\ event \in BOOLEAN /\ state \in States
    /\ DOMAIN players \subseteq Ids
    /\ \A id \in DOMAIN players :
          players[id] \in [connected : BOOLEAN, fills : SUBSET Cells]
    /\ socks \in [Conns -> [open : BOOLEAN, playerId : Ids \cup {None}, tokens : 0..BURST]]
    /\ playerSockets \in [Ids -> Conns \cup {None}]
    /\ page.conn \in Conns \cup {None} /\ page.pid \in Ids \cup {None}
    /\ page.cells \in [Cells -> Markers \cup {"error", None}]
    /\ stored \in Ids \cup {None}

(* Nothing is on its way over the page's connection.                       *)
Quiet == /\ page.connected /\ socks[page.conn].open
         /\ up[page.conn] = <<>> /\ down[page.conn] = <<>>

(* namespaces.ts:180, 244: through reconnects, reloads and identities used
   again, an identity is registered to a socket that is open and has adopted
   it; whatever closes later takes no other socket's place away.           *)
RegisteredSocketIsOpen ==
    \A id \in Ids : playerSockets[id] # None =>
        socks[playerSockets[id]].open /\ socks[playerSockets[id]].playerId = id

(* master/spec.md 4.4, "the map is what makes unicast work at all": once
   nothing is in flight, a phone whose player is in the room is registered
   under its present connection.                                           *)
UnicastsReachPhone ==
    Quiet /\ page.joined /\ InRoom(page.pid) => playerSockets[page.pid] = page.conn

(* bingo/req.md 806, "100% restore": once nothing is in flight, a phone that
   keeps the identity of a player in the room has come back as that player and
   was sent the card as the host has it, in the state the host is in, whatever
   was lost, reset, dropped or came late on the way.                       *)
CardRestored ==
    Quiet /\ InRoom(stored) =>
        /\ page.joined /\ page.pid = stored
        /\ page.view = ViewOf(state, players, stored)

(* bingo/req.md 235, as far as the code goes: once nothing is in flight an
   optimistic marker is left only where the host dropped the request, or
   refused a pick or a clear, which the page does not listen for.          *)
GreenIsSettled ==
    Quiet /\ page.joined /\ InRoom(page.pid) =>
        {k \in Cells : page.cells[k] \in Markers} \subseteq ignored

(* bingo/req.md 177, "false while disconnected": once nothing is in flight and
   the host has noticed every connection that is gone, the player of a
   connected phone is connected.                                           *)
AwayMeansAway ==
    Quiet /\ (\A c \in Conns \ {page.conn} : ~socks[c].open)
          /\ page.joined /\ InRoom(page.pid)
       => players[page.pid].connected
=============================================================================
