-------------------------------- MODULE Access --------------------------------
(***************************************************************************)
(* Who is signed in, and how often: the sessions of the operator's consoles *)
(* (identity/session.ts, identity/guard.ts, the identity routes of          *)
(* server.ts, console/useConsole.ts), the limit on attempts to sign in      *)
(* (identity/ratelimit.ts) and the cap on reactions (namespaces.ts).        *)
(*                                                                         *)
(* A console is one page in one browser.  It has one request to the host on *)
(* its way at a time; a handler is one step.  The host restarts at any time. *)
(* Time advances on its own, in units smaller than every period below.      *)
(***************************************************************************)
EXTENDS Integers, Sequences, FiniteSets

CONSTANTS
    None,
    Consoles,
    KeyOf,                         \* the address a console's requests come from
    Phones,
    MAX_ATTEMPTS, WINDOW_MS, LOCKOUT_MS, DEFAULT_TTL_MS,
    REACTIONS_PER_SEC, SECOND,     \* the window of reactions
    REACT_GAP,                     \* between two reactions of one phone
    MaxTime,                       \* bound: the clock
    MaxAsked                       \* bound: requests, reloads, losses, restarts, reactions

ASSUME AccessPeriods ==
    /\ WINDOW_MS \in Nat \ {0} /\ LOCKOUT_MS \in Nat /\ DEFAULT_TTL_MS \in Nat
    /\ WINDOW_MS <= LOCKOUT_MS
    /\ SECOND \in Nat \ {0} /\ REACT_GAP \in Nat
ASSUME AccessLimits == MAX_ATTEMPTS \in Nat \ {0} /\ REACTIONS_PER_SEC \in Nat \ {0}
ASSUME AccessKeys   == Consoles = DOMAIN KeyOf

VARIABLES
    now,
    given,         \* SESSION_SECRET is in the environment
    secret,        \* the signing secret; 0 is the one the process began with
    buckets,       \* the attempts of each address
    reactionWindow,
    lastReactAt,   \* per phone, on the connection it has
    cookie,        \* what each browser holds: None, or a token
    page,          \* the console's page
    wire,          \* its request, and then the answer
    everywhere,    \* history: how often everyone was signed out
    boots,         \* history: how often the host was restarted
    fails,         \* history: the wrong passcodes of an address since a right one
    floated,       \* history: when reactions went to the projector, of late
    asked          \* counts up to MaxAsked

sessions  == <<given, secret, everywhere, boots>>
limiter   == <<buckets, fails>>
browsers  == <<cookie, page, wire>>
reactions == <<reactionWindow, lastReactAt, floated>>
avars     == <<now, sessions, limiter, browsers, reactions, asked>>

Keys == {KeyOf[c] : c \in Consoles}

Spent == asked < MaxAsked /\ asked' = asked + 1

-----------------------------------------------------------------------------
(* Sessions: the cookie is the session *)

(* A secret drawn anew is none that was used before.                       *)
FreshSecret == everywhere + boots + 1

StartingSecretDrawn == FreshSecret         \* mutant: SESSION_SECRET is not read

(* The one a process begins with: that of the environment, or a new one.   *)
StartingSecret == IF given THEN 0 ELSE FreshSecret

(* `at' and `boot' are history fields: how often everyone had been signed out
   and the host restarted when the token was issued.                       *)
Issue == [secret |-> secret, exp |-> now + DEFAULT_TTL_MS, at |-> everywhere, boot |-> boots]

Verify(token) == token # None /\ token.secret = secret /\ token.exp > now

-----------------------------------------------------------------------------
(* The attempt limiter *)

NoAttempts == [attempts |-> <<>>, lockedUntil |-> 0]

(* filter(t => at - t < age) of a list of times: they were pushed in order, so
   what is dropped is its beginning.                                       *)
Younger(times, at, age) ==
    LET dropped == CHOOSE n \in 0..Len(times) :
                      \A i \in DOMAIN times : i <= n <=> at - times[i] >= age
    IN  SubSeq(times, dropped + 1, Len(times))

PruneNever(bucket) == bucket               \* mutant: attempts are never forgotten
Prune(bucket) == [bucket EXCEPT !.attempts = Younger(@, now, WINDOW_MS)]

LockIfFull(bucket) ==
    IF Len(bucket.attempts) >= MAX_ATTEMPTS
    THEN [bucket EXCEPT !.lockedUntil = now + LOCKOUT_MS] ELSE bucket

(* check(): the bucket as it leaves it; it refuses if that is locked.      *)
Check(bucket) == IF bucket.lockedUntil > now THEN bucket ELSE LockIfFull(Prune(bucket))

Refuses(bucket) == Check(bucket).lockedUntil > now

Fail(bucket) == LockIfFull([Prune(bucket) EXCEPT !.attempts = Append(@, now)])

-----------------------------------------------------------------------------
(* The page *)

(* A page is loaded: it asks for its session.                              *)
Loading == [auth |-> "checking", busy |-> FALSE, sock |-> "none", event |-> FALSE, at |-> 0]

SignedIn(p)  == [p EXCEPT !.auth = "signed-in", !.sock = "connecting"]
SignedOut(p) == [p EXCEPT !.auth = "signed-out", !.sock = "none"]

Asking(t, flag) == [t |-> t, flag |-> flag]
Answer(to, ok, token) == [t |-> "answer", to |-> to, ok |-> ok, token |-> token]

Load(c) ==
    /\ Spent
    /\ page' = [page EXCEPT ![c] = Loading]
    /\ wire' = [wire EXCEPT ![c] = Asking("session", FALSE)]
    /\ UNCHANGED <<now, sessions, limiter, cookie, reactions>>

Ask(c, p, request) ==
    /\ Spent
    /\ wire[c] = None
    /\ page' = [page EXCEPT ![c] = p]
    /\ wire' = [wire EXCEPT ![c] = request]
    /\ UNCHANGED <<now, sessions, limiter, cookie, reactions>>

SignIn(c, right) ==
    /\ page[c].auth = "signed-out" /\ ~page[c].busy
    /\ Ask(c, [page[c] EXCEPT !.busy = TRUE], Asking("auth", right))

(* The buttons are in the bar of an event, which is taken to be open.      *)
SignOut(c, everyone) ==
    /\ page[c].auth = "signed-in" /\ page[c].event
    /\ Ask(c, page[c], Asking("signout", everyone))

(* The answer comes.                                                       *)
AfterAnswer(p, answer) ==
    CASE answer.to = "session" -> IF answer.ok THEN SignedIn(p) ELSE SignedOut(p)
      [] answer.to = "auth" ->
            IF answer.ok THEN SignedIn([p EXCEPT !.busy = FALSE]) ELSE [p EXCEPT !.busy = FALSE]
      [] answer.to = "signout" -> SignedOut([p EXCEPT !.event = FALSE])

Receive(c) ==
    /\ wire[c] # None /\ wire[c].t = "answer"
    /\ page' = [page EXCEPT ![c] = AfterAnswer(@, wire[c])]
    /\ cookie' = [cookie EXCEPT ![c] = IF wire[c].to = "session" THEN @
                                       ELSE IF wire[c].to = "auth" /\ ~wire[c].ok THEN @
                                       ELSE wire[c].token]
    /\ wire' = [wire EXCEPT ![c] = None]
    /\ UNCHANGED <<now, sessions, limiter, reactions, asked>>

(* fetch() fails: only the question for the session is caught, and the form
   stays busy.                                                             *)
AfterLoss(p, request) ==
    IF request # None /\ "session" \in {request.t, IF request.t = "answer" THEN request.to ELSE ""}
    THEN SignedOut(p) ELSE p

Lose(c) ==
    /\ Spent
    /\ wire[c] # None
    /\ page' = [page EXCEPT ![c] = AfterLoss(@, wire[c])]
    /\ wire' = [wire EXCEPT ![c] = None]
    /\ UNCHANGED <<now, sessions, limiter, cookie, reactions>>

(* The handshake of /master, with the cookie of the moment.  Refused, it is
   connect_error NOT_MASTER.                                               *)
Connect(c) ==
    /\ page[c].auth = "signed-in" /\ page[c].sock = "connecting"
    /\ page' = [page EXCEPT ![c] =
                  IF Verify(cookie[c])
                  THEN [@ EXCEPT !.sock = "open", !.event = TRUE, !.at = cookie[c].at]
                  ELSE SignedOut(@)]
    /\ UNCHANGED <<now, sessions, limiter, cookie, wire, reactions, asked>>

Disconnect(c) ==
    /\ Spent
    /\ page[c].sock = "open"
    /\ page' = [page EXCEPT ![c].sock = "connecting"]
    /\ UNCHANGED <<now, sessions, limiter, cookie, wire, reactions>>

-----------------------------------------------------------------------------
(* The identity routes *)

Asks(c, t) == wire[c] # None /\ wire[c].t = t

Reply(c, ok, token) == wire' = [wire EXCEPT ![c] = Answer(@.t, ok, token)]

HandleSession(c) ==
    /\ Asks(c, "session")
    /\ Reply(c, Verify(cookie[c]), None)
    /\ UNCHANGED <<now, sessions, limiter, cookie, page, reactions, asked>>

HandleAuth(c) ==
    LET key    == KeyOf[c]
        bucket == buckets[key]
    IN  /\ Asks(c, "auth")
        /\ \/ /\ Refuses(bucket)
              /\ buckets' = [buckets EXCEPT ![key] = Check(bucket)]
              /\ Reply(c, FALSE, None)
              /\ UNCHANGED fails
           \/ /\ ~Refuses(bucket) /\ wire[c].flag
              /\ buckets' = [buckets EXCEPT ![key] = NoAttempts]
              /\ fails' = [fails EXCEPT ![key] = <<>>]
              /\ Reply(c, TRUE, Issue)
           \/ /\ ~Refuses(bucket) /\ ~wire[c].flag
              /\ buckets' = [buckets EXCEPT ![key] = Fail(Check(bucket))]
              /\ fails' = [fails EXCEPT ![key] = Append(@, now)]
              /\ Reply(c, FALSE, None)
        /\ UNCHANGED <<now, sessions, cookie, page, reactions, asked>>

(* disconnectSockets(): a page that is disconnected by the host does not
   connect again.                                                          *)
Kicked(p) == IF p.sock = "open" THEN [p EXCEPT !.sock = "kicked"] ELSE p

HandleSignOut(c) ==
    /\ Asks(c, "signout")
    /\ Reply(c, TRUE, None)
    /\ IF wire[c].flag
       THEN /\ secret' = FreshSecret
            /\ everywhere' = everywhere + 1
            /\ page' = [d \in Consoles |-> Kicked(page[d])]
       ELSE UNCHANGED <<secret, everywhere, page>>
    /\ UNCHANGED <<now, given, boots, limiter, cookie, reactions, asked>>

(* The process dies, and starts with the secret of the environment or with a
   new one.                                                                *)
Restart ==
    /\ Spent
    /\ secret' = StartingSecret
    /\ boots' = boots + 1
    /\ buckets' = [k \in Keys |-> NoAttempts]
    /\ fails' = [k \in Keys |-> <<>>]
    /\ page' = [c \in Consoles |->
                  LET p == AfterLoss(page[c], wire[c])
                  IN  IF p.sock = "open" THEN [p EXCEPT !.sock = "connecting"] ELSE p]
    /\ wire' = [c \in Consoles |-> None]
    /\ reactionWindow' = [since |-> 0 - SECOND, count |-> 0]
    /\ lastReactAt' = [p \in Phones |-> 0 - REACT_GAP]
    /\ floated' = <<>>
    /\ UNCHANGED <<now, given, everywhere, cookie>>

-----------------------------------------------------------------------------
(* Reactions *)

OpenedWindow == IF now - reactionWindow.since >= SECOND
                THEN [since |-> now, count |-> 0] ELSE reactionWindow

AllowedBeyond(window) == window.count <= REACTIONS_PER_SEC    \* mutant: one too many
Allowed(window)       == window.count < REACTIONS_PER_SEC

React(p) ==
    /\ Spent
    /\ now - lastReactAt[p] >= REACT_GAP
    /\ Allowed(OpenedWindow)
    /\ reactionWindow' = [OpenedWindow EXCEPT !.count = @ + 1]
    /\ lastReactAt' = [lastReactAt EXCEPT ![p] = now]
    /\ floated' = Append(floated, now)
    /\ UNCHANGED <<now, sessions, limiter, browsers>>

(* lastReactAt is the connection's.                                        *)
PhoneReconnects(p) ==
    /\ Spent
    /\ lastReactAt' = [lastReactAt EXCEPT ![p] = 0 - REACT_GAP]
    /\ UNCHANGED <<now, sessions, limiter, browsers, reactionWindow, floated>>

-----------------------------------------------------------------------------
Clock ==
    /\ now < MaxTime
    /\ now' = now + 1
    /\ floated' = Younger(floated, now', SECOND)
    /\ UNCHANGED <<sessions, limiter, browsers, reactionWindow, lastReactAt, asked>>

Init ==
    /\ now = 0 /\ given \in BOOLEAN /\ secret = 0
    /\ everywhere = 0 /\ boots = 0
    /\ buckets = [k \in Keys |-> NoAttempts] /\ fails = [k \in Keys |-> <<>>]
    /\ cookie = [c \in Consoles |-> None]
    /\ page = [c \in Consoles |-> SignedOut(Loading)]
    /\ wire = [c \in Consoles |-> None]
    /\ reactionWindow = [since |-> 0 - SECOND, count |-> 0]
    /\ lastReactAt = [p \in Phones |-> 0 - REACT_GAP]
    /\ floated = <<>> /\ asked = 0

Next ==
    \/ \E c \in Consoles :
          \/ Load(c) \/ Receive(c) \/ Lose(c) \/ Connect(c) \/ Disconnect(c)
          \/ HandleSession(c) \/ HandleAuth(c) \/ HandleSignOut(c)
          \/ \E flag \in BOOLEAN : SignIn(c, flag) \/ SignOut(c, flag)
    \/ \E p \in Phones : React(p) \/ PhoneReconnects(p)
    \/ Restart \/ Clock

AccessSpec == Init /\ [][Next]_avars

-----------------------------------------------------------------------------
(* ratelimit.ts:4: MAX_ATTEMPTS wrong passcodes within one window, without a
   right one in between, lock the address out for LOCKOUT_MS, and nothing else
   does: neither older attempts, nor those of a lockout that has passed.   *)
LockoutIsEarned ==
    \A k \in Keys :
        Refuses(buckets[k]) <=>
            \E i \in 1..(Len(fails[k]) - MAX_ATTEMPTS + 1) :
                LET last == fails[k][i + MAX_ATTEMPTS - 1]
                IN  last - fails[k][i] < WINDOW_MS /\ now - last < LOCKOUT_MS

(* rotate() does not outlive a restart with SESSION_SECRET: the secret is again
   the one that a sign-out everywhere had replaced.                        *)
SecretIsBack == secret = 0 /\ everywhere > 0

(* req.md:144: once everyone was signed out, no console stays connected or is
   let in on a session from before, whatever the other consoles, answers under
   way, the network and restarts do.  The exception is a secret that came
   back.                                                                    *)
EndedSessionsAreOver ==
    ~SecretIsBack =>
        \A c \in Consoles :
            /\ page[c].sock = "open" => page[c].at = everywhere
            /\ Verify(cookie[c]) => cookie[c].at = everywhere

(* A session that has not expired, and that no sign-out everywhere ended.   *)
Lasting(token) == token # None /\ token.exp > now /\ token.at = everywhere

(* req.md:143: signing out on one device does not sign out the others.  Such a
   session is good for as long as the host runs, and over its restarts too if
   the secret is in the environment, but for one that brings an old secret
   back.  If it is not, a restart ends every session, the ones nobody ended
   included, against session.ts:9, "a server restart mid-event does not sign
   the master out".                                                        *)
SessionsLast ==
    \A c \in Consoles :
        Lasting(cookie[c]) =>
            /\ cookie[c].boot = boots => Verify(cookie[c])
            /\ given /\ ~SecretIsBack => Verify(cookie[c])
            /\ ~given /\ cookie[c].boot < boots => ~Verify(cookie[c])

(* The two together: the consoles that are let in are those whose session was
   not ended, neither by a sign-out everywhere nor by a restart that drew
   another secret.                                                          *)
ConsolesFollowSessions == EndedSessionsAreOver /\ SessionsLast

(* namespaces.ts:57: reactions on the projector are capped.  A window that
   starts anew lets through up to twice the cap in one second, not more.    *)
ReactionsBounded == Len(floated) <= 2 * REACTIONS_PER_SEC
=============================================================================
