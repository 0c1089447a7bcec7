----------------------------- MODULE Phone_proofs -----------------------------
(***************************************************************************)
(* What holds of a phone and of the host's side of it for any number of    *)
(* connections, identities and requests, and a card of any size.           *)
(***************************************************************************)
EXTENDS Phone, SequenceTheorems, TLAPS

-----------------------------------------------------------------------------
(* What is sent *)

Requests == [t : {"room:join"}] \cup [t : {"room:rejoin"}, id : Ids]
            \cup [t : {"fill", "pick", "clear"}, k : Cells]

Pictures  == [t : {"room:state"}, view : Views]
Summaries == [t : {"event:summary"}, state : States \cup {None}, view : Views \cup {None}]
Answers   == [t : {"ack"}, to : Requests, ok : BOOLEAN, error : BOOLEAN, id : Ids \cup {None}]
Results   == [t : {"cell:result"}, k : Cells, ok : BOOLEAN]
Pickers   == [t : {"cell:candidates"}, k : Cells]
Plain     == [t : {"connect", "card", "room:reset"}]
Messages  == Pictures \cup Summaries \cup Answers \cup Results \cup Pickers \cup Plain

(* A request for a cell; what answers a rejoin, and what grants a join.    *)
Asks(m, k)       == m.t \in {"fill", "pick", "clear"} /\ m.k = k
AnswersRejoin(m) == m.t = "ack" /\ m.to.t = "room:rejoin"
Grants(m)        == m.t = "ack" /\ m.to.t = "room:join" /\ m.ok

(* What brings a picture, and what changes the one the page has.           *)
Brings(m)  == m.t = "room:state" \/ (m.t = "event:summary" /\ m.view # None)
Carries(m) == Brings(m) \/ m.t = "room:reset"

(* What takes an optimistic marker off a cell.                             *)
Settles(m, k) ==
    \/ Brings(m) /\ m.view.me # None
    \/ m.t = "room:reset"
    \/ m.t \in {"cell:result", "cell:candidates"} /\ m.k = k
    \/ m.t = "ack" /\ m.to.t = "fill" /\ m.error /\ m.to.k = k

Members(s) == {s[i] : i \in DOMAIN s}
Later(s)   == {s[i] : i \in DOMAIN s \ {1}}

(* The last picture that is brought.                                       *)
EndsWith(msgs, view) ==
    \E i \in DOMAIN msgs : /\ Brings(msgs[i]) /\ msgs[i].view = view
                           /\ \A j \in DOMAIN msgs : j > i => ~Carries(msgs[j])

(* What the page, which has `old', shows once it has read the messages.    *)
Shows(msgs, old, view) ==
    EndsWith(msgs, view) \/ (old = view /\ \A m \in Members(msgs) : ~Carries(m))

-----------------------------------------------------------------------------
(* The inductive invariant, in parts *)

Marks == Markers \cup {"error", None}
Pages == [conn : Conns \cup {None}, connected : BOOLEAN, pid : Ids \cup {None}, joined : BOOLEAN,
          busy : BOOLEAN, summary : States \cup {None}, view : Views \cup {None},
          cells : [Cells -> Marks], picker : Cells \cup {None}, sheet : Cells \cup {None}]
Sockets == [open : BOOLEAN, playerId : Ids \cup {None}, tokens : 0..BURST]
Players == [connected : BOOLEAN, fills : SUBSET Cells]

IsRoster(ps) == DOMAIN ps \subseteq Ids /\ \A id \in DOMAIN ps : ps[id] \in Players

(* The room is empty before it is open, and of identities that were issued. *)
RoomInv ==
    /\ event \in BOOLEAN /\ state \in States /\ IsRoster(players)
    /\ ~event => state = "SETUP"
    /\ state = "SETUP" => DOMAIN players = {}
    /\ issued \in 0..MaxIds /\ DOMAIN players \subseteq 1..issued

PageInv ==
    /\ page \in Pages /\ stored \in {None} \cup 1..issued /\ used \in 0..MaxConns
    /\ page.connected => page.conn # None
    /\ page.conn # None => page.conn = used
    /\ page.sheet # None => page.connected
    /\ page.pid # None => page.pid = stored
    /\ page.connected => page.pid = stored

Fresh == [Closed EXCEPT !.open = TRUE]

(* A connection begins with the connect and at most one rejoin, over a socket
   nobody has used; only the last one has requests on it.                  *)
WireInv ==
    /\ socks \in [Conns -> Sockets]
    /\ up \in [Conns -> Seq(Requests)] /\ down \in [Conns -> Seq(Messages)]
    /\ \A c \in Conns :
          /\ socks[c].playerId # None => socks[c].playerId \in 1..issued
          /\ c > used => socks[c] = Closed /\ down[c] = <<>>
          /\ up[c] # <<>> => c = used /\ socks[c].open
          /\ down[c] # <<>> /\ Head(down[c]).t = "connect" =>
                page.conn = c /\ ~page.connected /\ up[c] = <<>> /\ (socks[c].open => socks[c] = Fresh)
          /\ \A m \in Later(down[c]) : m.t # "connect"
          /\ \A m \in Members(down[c]) : m.t = "ack" => m.id \in {None} \cup 1..issued
          /\ up[c] # <<>> /\ Head(up[c]).t = "room:rejoin" =>
                Head(up[c]).id \in 1..issued /\ socks[c] = Fresh
          /\ \A m \in Later(up[c]) : m.t # "room:rejoin"

Rejoining(c) == up[c] # <<>> /\ Head(up[c]).t = "room:rejoin"

(* An identity is registered to a socket that has it; the last connection is
   where its own is, and the page's, and the one a join was granted.       *)
HereInv ==
    /\ playerSockets \in [Ids -> Conns \cup {None}]
    /\ RegisteredSocketIsOpen
    /\ \A c \in Conns :
          socks[c].open =>
             /\ c = used /\ socks[c].playerId # None => playerSockets[socks[c].playerId] = c
             /\ c = page.conn /\ page.connected /\ page.pid # None =>
                   \/ socks[c].playerId = page.pid
                   \/ Rejoining(c) /\ Head(up[c]).id = page.pid
             /\ \A m \in Members(down[c]) :
                   c = page.conn /\ Grants(m) => m.id # None /\ m.id = socks[c].playerId

(* A page that knows who it is has joined, or is about to hear.            *)
JoinInv ==
    \A c \in Conns :
        /\ c = page.conn /\ socks[c].open
        /\ page.connected /\ page.pid # None /\ ~page.joined
        => Rejoining(c) \/ \E m \in Members(down[c]) : AnswersRejoin(m)

(* A page whose player is in the room shows that player, in the end.       *)
ViewInv ==
    \A c \in Conns :
        c = page.conn /\ socks[c].open /\ InRoom(socks[c].playerId) =>
            Shows(down[c], page.view, ViewOf(state, players, socks[c].playerId))

(* A marker is about to be settled, or is one the host dropped.            *)
Heals(c, k) == \/ \E m \in Members(up[c]) : Asks(m, k)
               \/ \E m \in Members(down[c]) : Settles(m, k)

GreenInv ==
    \A c \in Conns, k \in Cells :
        c = page.conn /\ socks[c].open /\ page.cells[k] \in Markers /\ k \notin ignored =>
            /\ page.connected /\ page.pid # None =>
                  \/ Heals(c, k)
                  \/ Rejoining(c)
                  \/ \E m \in Members(down[c]) : AnswersRejoin(m) /\ ~m.ok
            /\ (\E m \in Members(down[c]) : Grants(m)) => Heals(c, k)

PhoneInv == RoomInv /\ PageInv /\ WireInv /\ HereInv /\ JoinInv /\ ViewInv /\ GreenInv
-----------------------------------------------------------------------------
(* Lists of messages *)

LEMMA MembersNone == Members(<<>>) = {} /\ Later(<<>>) = {}
BY DEF Members, Later

LEMMA MembersOne ==
    ASSUME NEW m
    PROVE  Members(<<m>>) = {m} /\ Later(<<m>>) = {}
BY DEF Members, Later

LEMMA ConcatAt ==
    ASSUME NEW S, NEW s \in Seq(S), NEW t \in Seq(S)
    PROVE  /\ s \o t \in Seq(S) /\ Len(s \o t) = Len(s) + Len(t)
           /\ DOMAIN s = 1..Len(s) /\ DOMAIN t = 1..Len(t) /\ DOMAIN (s \o t) = 1..(Len(s) + Len(t))
           /\ Len(s) \in Nat /\ Len(t) \in Nat
           /\ \A i \in 1..Len(s) : (s \o t)[i] = s[i]
           /\ \A i \in 1..Len(t) : (s \o t)[Len(s) + i] = t[i]
           /\ \A i \in (Len(s) + 1)..(Len(s) + Len(t)) : (s \o t)[i] = t[i - Len(s)]
<1>1. s \o t \in Seq(S) /\ Len(s \o t) = Len(s) + Len(t)
  BY ConcatProperties
<1>2. \A i \in 1..(Len(s) + Len(t)) : (s \o t)[i] = IF i <= Len(s) THEN s[i] ELSE t[i - Len(s)]
  BY ConcatProperties
<1>3. Len(s) \in Nat /\ Len(t) \in Nat
  OBVIOUS
<1> QED BY <1>1, <1>2, <1>3

LEMMA MembersConcat ==
    ASSUME NEW S, NEW s \in Seq(S), NEW t \in Seq(S)
    PROVE  /\ s \o t \in Seq(S)
           /\ Members(s \o t) = Members(s) \cup Members(t)
           /\ Later(s \o t) \subseteq Later(s) \cup Members(t)
           /\ s # <<>> => s \o t # <<>> /\ Head(s \o t) = Head(s)
           /\ s = <<>> => s \o t = t
<1> DEFINE u == s \o t
<1>1. PICK n \in Nat : n = Len(s)
  OBVIOUS
<1>2. PICK k \in Nat : k = Len(t)
  OBVIOUS
<1>3. /\ u \in Seq(S) /\ Len(u) = n + k
      /\ DOMAIN s = 1..n /\ DOMAIN t = 1..k /\ DOMAIN u = 1..(n + k)
      /\ \A i \in 1..n : u[i] = s[i]
      /\ \A i \in 1..k : u[n + i] = t[i]
      /\ \A i \in (n + 1)..(n + k) : u[i] = t[i - n]
  BY <1>1, <1>2, ConcatAt
<1>4. s = <<>> => u = t
  OBVIOUS
<1> HIDE DEF u
<1>5. Members(s) \subseteq Members(u)
  BY <1>3 DEF Members
<1>6. Members(t) \subseteq Members(u)
  <2> SUFFICES ASSUME NEW i \in 1..k PROVE t[i] \in Members(u)
    BY <1>3 DEF Members
  <2>1. n + i \in 1..(n + k)
    OBVIOUS
  <2> QED BY <2>1, <1>3 DEF Members
<1>7. ASSUME NEW i \in 1..(n + k)
      PROVE  u[i] \in Members(t) \/ (i \in 1..n /\ u[i] = s[i])
  <2>1. CASE i \in 1..n
    BY <2>1, <1>3
  <2>2. CASE i \in (n + 1)..(n + k)
    <3>1. i - n \in 1..k
      BY <2>2
    <3>2. t[i - n] \in Members(t)
      BY <3>1, <1>3 DEF Members
    <3> QED BY <2>2, <3>2, <1>3
  <2> QED BY <2>1, <2>2
<1>8. Members(u) = Members(s) \cup Members(t)
  <2>1. Members(u) \subseteq Members(s) \cup Members(t)
    BY <1>7, <1>3 DEF Members
  <2> QED BY <2>1, <1>5, <1>6
<1>9. Later(u) \subseteq Later(s) \cup Members(t)
  BY <1>7, <1>3 DEF Later
<1>10. s # <<>> => u # <<>> /\ Head(u) = Head(s)
  <2> SUFFICES ASSUME s # <<>> PROVE u # <<>> /\ Head(u) = Head(s)
    OBVIOUS
  <2>1. n # 0
    BY <1>1
  <2>2. 1 \in 1..n /\ u[1] = s[1]
    BY <2>1, <1>3
  <2>3. u # <<>>
    BY <2>1, <1>3
  <2> QED BY <2>2, <2>3, <1>3
<1> QED BY <1>3, <1>4, <1>8, <1>9, <1>10 DEF u

LEMMA MembersTail ==
    ASSUME NEW S, NEW s \in Seq(S), s # <<>>
    PROVE  /\ Tail(s) \in Seq(S) /\ Head(s) \in S /\ Head(s) \in Members(s)
           /\ Members(s) = {Head(s)} \cup Members(Tail(s))
           /\ Members(Tail(s)) = Later(s)
           /\ Later(Tail(s)) \subseteq Later(s)
           /\ Tail(s) # <<>> => Head(Tail(s)) \in Later(s)
<1> DEFINE t == Tail(s)
<1>1. PICK n \in Nat : n = Len(s)
  OBVIOUS
<1>2. n # 0
  BY <1>1
<1>3. /\ t \in Seq(S) /\ Len(t) = n - 1
      /\ \A i \in 1..(n - 1) : t[i] = s[i + 1]
  BY <1>1, <1>2, HeadTailProperties
<1>4. Head(s) = s[1] /\ Head(s) \in S /\ 1 \in 1..n /\ DOMAIN s = 1..n
  BY <1>1, <1>2
<1>5. DOMAIN t = 1..(n - 1)
  BY <1>1, <1>3
<1>6. t # <<>> => Head(t) = t[1] /\ 1 \in 1..(n - 1)
  BY <1>3, <1>1
<1> HIDE DEF t
<1>7. ASSUME NEW i \in 1..(n - 1) PROVE t[i] \in Later(s) /\ i + 1 \in 1..n
  BY <1>3, <1>4 DEF Later
<1>8. ASSUME NEW i \in 1..n, i # 1 PROVE s[i] \in Members(t)
  <2>1. i - 1 \in 1..(n - 1) /\ (i - 1) + 1 = i
    BY <1>8
  <2> QED BY <2>1, <1>3, <1>5 DEF Members
<1>9. Members(t) = Later(s)
  BY <1>7, <1>8, <1>4, <1>5 DEF Members, Later
<1>10. Later(t) \subseteq Later(s)
  BY <1>7, <1>5 DEF Later
<1>11. Members(s) = {Head(s)} \cup Members(t) /\ Head(s) \in Members(s)
  BY <1>9, <1>4 DEF Members, Later
<1> QED BY <1>3, <1>4, <1>6, <1>7, <1>9, <1>10, <1>11 DEF t

LEMMA LaterIsMember == ASSUME NEW s PROVE Later(s) \subseteq Members(s)
BY DEF Members, Later
(* What is added to a list that ends with a picture, or ends with one itself. *)
LEMMA EndsRight ==
    ASSUME NEW S, NEW s \in Seq(S), NEW t \in Seq(S), NEW v, EndsWith(t, v)
    PROVE  EndsWith(s \o t, v)
<1> DEFINE u == s \o t
<1>1. PICK n \in Nat : n = Len(s)
  OBVIOUS
<1>2. PICK k \in Nat : k = Len(t)
  OBVIOUS
<1>3. /\ DOMAIN t = 1..k /\ DOMAIN u = 1..(n + k)
      /\ \A i \in 1..k : u[n + i] = t[i]
      /\ \A i \in (n + 1)..(n + k) : u[i] = t[i - n]
  BY <1>1, <1>2, ConcatAt
<1> HIDE DEF u
<1>4. PICK i \in 1..k : Brings(t[i]) /\ t[i].view = v /\ \A j \in 1..k : j > i => ~Carries(t[j])
  BY <1>3 DEF EndsWith
<1>5. n + i \in 1..(n + k) /\ u[n + i] = t[i]
  BY <1>3
<1>6. ASSUME NEW j \in 1..(n + k), j > n + i PROVE ~Carries(u[j])
  <2>1. j - n \in 1..k /\ j - n > i /\ j \in (n + 1)..(n + k)
    BY <1>6
  <2> QED BY <2>1, <1>3, <1>4
<1>7. Brings(u[n + i]) /\ u[n + i].view = v
  BY <1>4, <1>5
<1>8. EndsWith(u, v)
  BY <1>3, <1>5, <1>6, <1>7 DEF EndsWith
<1> QED BY <1>8 DEF u

LEMMA EndsLeft ==
    ASSUME NEW S, NEW s \in Seq(S), NEW t \in Seq(S), NEW v, EndsWith(s, v),
           \A m \in Members(t) : ~Carries(m)
    PROVE  EndsWith(s \o t, v)
<1> DEFINE u == s \o t
<1>1. PICK n \in Nat : n = Len(s)
  OBVIOUS
<1>2. PICK k \in Nat : k = Len(t)
  OBVIOUS
<1>3. /\ DOMAIN s = 1..n /\ DOMAIN t = 1..k /\ DOMAIN u = 1..(n + k)
      /\ \A i \in 1..n : u[i] = s[i]
      /\ \A i \in (n + 1)..(n + k) : u[i] = t[i - n]
  BY <1>1, <1>2, ConcatAt
<1> HIDE DEF u
<1>4. PICK i \in 1..n : Brings(s[i]) /\ s[i].view = v /\ \A j \in 1..n : j > i => ~Carries(s[j])
  BY <1>3 DEF EndsWith
<1>5. i \in 1..(n + k) /\ u[i] = s[i]
  BY <1>3
<1>6. ASSUME NEW j \in 1..(n + k), j > i PROVE ~Carries(u[j])
  <2>1. CASE j \in 1..n
    BY <2>1, <1>3, <1>4, <1>6
  <2>2. CASE j \in (n + 1)..(n + k)
    <3>1. j - n \in 1..k
      BY <2>2
    <3>2. t[j - n] \in Members(t)
      BY <3>1, <1>3 DEF Members
    <3> QED BY <2>2, <3>2, <1>3
  <2> QED BY <2>1, <2>2
<1>7. Brings(u[i]) /\ u[i].view = v
  BY <1>4, <1>5
<1>8. EndsWith(u, v)
  BY <1>3, <1>5, <1>6, <1>7 DEF EndsWith
<1> QED BY <1>8 DEF u

LEMMA EndsTail ==
    ASSUME NEW S, NEW s \in Seq(S), s # <<>>, NEW v, EndsWith(s, v)
    PROVE  \/ EndsWith(Tail(s), v)
           \/ Brings(Head(s)) /\ Head(s).view = v /\ \A m \in Members(Tail(s)) : ~Carries(m)
<1> DEFINE t == Tail(s)
<1>1. PICK n \in Nat : n = Len(s)
  OBVIOUS
<1>2. n # 0
  BY <1>1
<1>3. /\ DOMAIN s = 1..n /\ DOMAIN t = 1..(n - 1) /\ Head(s) = s[1]
      /\ \A i \in 1..(n - 1) : t[i] = s[i + 1]
  <2>1. t \in Seq(S) /\ Len(t) = n - 1 /\ \A i \in 1..(n - 1) : t[i] = s[i + 1]
    BY <1>1, <1>2, HeadTailProperties
  <2> QED BY <2>1, <1>1, <1>2
<1> HIDE DEF t
<1>4. PICK i \in 1..n : Brings(s[i]) /\ s[i].view = v /\ \A j \in 1..n : j > i => ~Carries(s[j])
  BY <1>3 DEF EndsWith
<1>5. ASSUME NEW j \in 1..(n - 1), j + 1 > i PROVE ~Carries(t[j])
  <2>1. j + 1 \in 1..n
    OBVIOUS
  <2> QED BY <2>1, <1>3, <1>4, <1>5
<1>6. CASE i = 1
  <2>1. \A m \in Members(t) : ~Carries(m)
    BY <1>5, <1>6, <1>3 DEF Members
  <2> QED BY <2>1, <1>4, <1>6, <1>3 DEF t
<1>7. CASE i # 1
  <2>1. i - 1 \in 1..(n - 1) /\ (i - 1) + 1 = i
    BY <1>7
  <2>2. t[i - 1] = s[i]
    BY <2>1, <1>3
  <2>3. Brings(t[i - 1]) /\ t[i - 1].view = v
    BY <2>2, <1>4
  <2>4. \A j \in 1..(n - 1) : j > i - 1 => ~Carries(t[j])
    BY <1>5
  <2>5. EndsWith(t, v)
    BY <2>1, <2>3, <2>4, <1>3 DEF EndsWith
  <2> QED BY <2>5 DEF t
<1> QED BY <1>6, <1>7

LEMMA EndsNever == ASSUME NEW v PROVE ~EndsWith(<<>>, v)
BY DEF EndsWith

LEMMA EndsHere ==
    ASSUME NEW m, NEW v, Brings(m), m.view = v
    PROVE  EndsWith(<<m>>, v)
BY DEF EndsWith

(* What shows a picture still does with other news after it, and with a newer
   picture shows that one.                                                 *)
LEMMA ShowsOn ==
    ASSUME NEW S, NEW s \in Seq(S), NEW t \in Seq(S), NEW old, NEW v, Shows(s, old, v),
           \A m \in Members(t) : ~Carries(m)
    PROVE  Shows(s \o t, old, v)
<1>1. CASE EndsWith(s, v)
  <2>1. EndsWith(s \o t, v)
    BY <1>1, EndsLeft
  <2> QED BY <2>1 DEF Shows
<1>2. CASE old = v /\ \A m \in Members(s) : ~Carries(m)
  <2>1. Members(s \o t) = Members(s) \cup Members(t)
    BY MembersConcat
  <2> QED BY <2>1, <1>2 DEF Shows
<1> QED BY <1>1, <1>2 DEF Shows

LEMMA ShowsNew ==
    ASSUME NEW S, NEW s \in Seq(S), NEW t \in Seq(S), NEW old, NEW v, EndsWith(t, v)
    PROVE  Shows(s \o t, old, v)
BY EndsRight DEF Shows

(* A message taken: the page that heeds it shows what it was going to.     *)
LEMMA ShowsTail ==
    ASSUME NEW S, NEW s \in Seq(S), s # <<>>, NEW old, NEW new, NEW v, Shows(s, old, v),
           Brings(Head(s)) => new = Head(s).view,
           ~Carries(Head(s)) => new = old
    PROVE  Shows(Tail(s), new, v)
<1>1. CASE EndsWith(s, v)
  <2>1. CASE EndsWith(Tail(s), v)
    BY <2>1 DEF Shows
  <2>2. CASE Brings(Head(s)) /\ Head(s).view = v /\ \A m \in Members(Tail(s)) : ~Carries(m)
    BY <2>2 DEF Shows
  <2> QED BY <1>1, <2>1, <2>2, EndsTail
<1>2. CASE old = v /\ \A m \in Members(s) : ~Carries(m)
  <2>1. Members(s) = {Head(s)} \cup Members(Tail(s))
    BY MembersTail
  <2> QED BY <2>1, <1>2 DEF Shows
<1> QED BY <1>1, <1>2 DEF Shows
-----------------------------------------------------------------------------
(* Messages and pictures *)

LEMMA NullFacts ==
    /\ None \notin Nat /\ None \notin Cells /\ None \notin States /\ None \notin Views
    /\ None \notin Markers /\ None # "error"
    /\ \A fills \in SUBSET Cells : None # fills
BY PhoneNone DEF Markers

LEMMA NumberFacts ==
    /\ Conns \subseteq Nat /\ Ids \subseteq Nat /\ MaxConns \in Nat /\ MaxIds \in Nat
    /\ \A c \in Conns : c # None
    /\ \A id \in Ids : id # None
    /\ \A n \in Nat : n # None
BY NullFacts, PhoneBounds DEF Conns, Ids

LEMMA MessageKinds ==
    ASSUME NEW m \in Messages
    PROVE  /\ m.t = "ack" => m \in Answers
           /\ m.t = "room:state" => m \in Pictures
           /\ m.t = "event:summary" => m \in Summaries
           /\ m.t = "cell:result" => m \in Results
           /\ m.t = "cell:candidates" => m \in Pickers
           /\ m.t \in {"ack", "room:state", "event:summary", "cell:result", "cell:candidates",
                       "connect", "card", "room:reset"}
BY DEF Messages, Answers, Pictures, Summaries, Results, Pickers, Plain

LEMMA RequestKinds ==
    ASSUME NEW m \in Requests
    PROVE  /\ m.t = "room:rejoin" => m.id \in Ids
           /\ m.t \in {"fill", "pick", "clear"} => m.k \in Cells
           /\ m.t \in {"room:join", "room:rejoin", "fill", "pick", "clear"}
BY DEF Requests

LEMMA ViewFacts ==
    ASSUME NEW s \in States, NEW ps, IsRoster(ps), NEW id
    PROVE  /\ ViewOf(s, ps, id) \in Views /\ ViewOf(s, ps, id) # None
           /\ ViewOf(s, ps, id).state = s
           /\ id \in DOMAIN ps => ViewOf(s, ps, id).me = ps[id].fills /\ ps[id].fills # None
<1>1. id \in DOMAIN ps => ps[id].fills \in SUBSET Cells /\ ps[id].fills # None
  BY NullFacts DEF IsRoster, Players
<1>2. PICK me : me = IF id \in DOMAIN ps THEN ps[id].fills ELSE None
  OBVIOUS
<1>3. me \in (SUBSET Cells) \cup {None}
  BY <1>1, <1>2
<1>4. ViewOf(s, ps, id) = [state |-> s, me |-> me]
  BY <1>2 DEF ViewOf
<1>5. [state |-> s, me |-> me] \in Views
  BY <1>3 DEF Views
<1> QED BY <1>1, <1>2, <1>4, <1>5, NullFacts

(* What the host says of its own accord: no answers, no connect.           *)
IsNews(msgs) == msgs \in Seq(Messages)
                /\ \A m \in Members(msgs) : m.t # "connect" /\ m.t # "ack"

LEMMA NewsConcat ==
    ASSUME NEW s, NEW t, IsNews(s), IsNews(t)
    PROVE  IsNews(s \o t)
BY MembersConcat DEF IsNews

LEMMA NoNews == IsNews(<<>>)
BY MembersNone DEF IsNews

LEMMA OneNews ==
    ASSUME NEW m \in Messages, m.t # "connect", m.t # "ack"
    PROVE  IsNews(<<m>>)
BY MembersOne DEF IsNews

LEMMA CardNews == IsNews(<<Card>>) /\ ~Carries(Card)
<1>1. Card \in Messages /\ Card.t = "card"
  BY DEF Card, Messages, Plain
<1> QED BY <1>1, OneNews DEF Carries, Brings

LEMMA SummaryNews ==
    ASSUME NEW s \in States, NEW ps, IsRoster(ps), NEW id
    PROVE  /\ IsNews(Summary(TRUE, s, ps, id)) /\ Summary(TRUE, s, ps, id) # <<>>
           /\ EndsWith(Summary(TRUE, s, ps, id), ViewOf(s, ps, id))
           /\ IsNews(Summary(FALSE, None, ps, id)) /\ Summary(FALSE, None, ps, id) # <<>>
<1>1. PICK v : v = ViewOf(s, ps, id)
  OBVIOUS
<1>2. v \in Views /\ v # None
  BY <1>1, ViewFacts
<1>3. PICK m : m = [t |-> "event:summary", state |-> s, view |-> v]
  OBVIOUS
<1>4. m \in Messages /\ m.t = "event:summary" /\ m.view = v
  BY <1>2, <1>3 DEF Messages, Summaries
<1>5. Summary(TRUE, s, ps, id) = <<m>>
  BY <1>1, <1>3 DEF Summary
<1>6. PICK w : w = [t |-> "event:summary", state |-> None, view |-> None]
  OBVIOUS
<1>7. w \in Messages /\ w.t = "event:summary"
  BY <1>6 DEF Messages, Summaries
<1>8. Summary(FALSE, None, ps, id) = <<w>>
  BY <1>6 DEF Summary
<1>9. EndsWith(<<m>>, v)
  BY <1>4, <1>2, EndsHere DEF Brings
<1>10. IsNews(<<m>>) /\ IsNews(<<w>>)
  BY <1>4, <1>7, OneNews
<1>11. <<m>> # <<>> /\ <<w>> # <<>>
  OBVIOUS
<1> QED BY <1>1, <1>5, <1>8, <1>9, <1>10, <1>11

-----------------------------------------------------------------------------
(* The page *)

LEMMA NotConnected ==
    ASSUME NEW p, p.connected = FALSE
    PROVE  Phase(p) = "connecting" /\ ~CardShown(p) /\ Phase(p) # "need-join"
<1>1. Phase(p) = "connecting"
  BY DEF Phase
<1> QED BY <1>1 DEF CardShown

(* All that Shown() may do to a page.                                      *)
Alike(q, p) ==
    /\ q \in Pages
    /\ q.conn = p.conn /\ q.connected = p.connected /\ q.pid = p.pid /\ q.joined = p.joined
    /\ q.summary = p.summary /\ q.view = p.view /\ q.cells = p.cells /\ q.picker = p.picker

LEMMA ShownFacts ==
    ASSUME NEW p \in Pages
    PROVE  /\ Alike(Shown(p), p)
           /\ Shown(p).sheet # None => Shown(p).connected
<1>1. PICK b \in BOOLEAN : b = (p.busy /\ Phase(p) = "need-join")
  BY DEF Pages
<1>2. PICK s : s = IF CardShown(p) THEN p.sheet ELSE None
  OBVIOUS
<1>3. s \in Cells \cup {None}
  BY <1>2 DEF Pages
<1>4. Shown(p) = [p EXCEPT !.busy = b, !.sheet = s]
  BY <1>1, <1>2 DEF Shown
<1>5. Shown(p) \in Pages
  BY <1>3, <1>4 DEF Pages
<1>6. s # None => p.connected
  BY <1>2, NotConnected DEF Pages
<1> QED BY <1>4, <1>5, <1>6 DEF Alike, Pages

LEMMA WithViewFacts ==
    ASSUME NEW p \in Pages, NEW v \in Views, NEW q, q = WithView(p, v)
    PROVE  /\ q \in Pages /\ q.conn = p.conn /\ q.connected = p.connected /\ q.pid = p.pid
           /\ q.joined = p.joined /\ q.view = v
           /\ \A k \in Cells : q.cells[k] \in Markers => p.cells[k] \in Markers /\ v.me = None
<1>1. PICK cs : cs = [k \in Cells |-> IF v.me # None /\ p.cells[k] \in Markers
                                      THEN None ELSE p.cells[k]]
  OBVIOUS
<1>2. cs \in [Cells -> Marks]
  BY <1>1 DEF Pages, Marks
<1>3. q = [p EXCEPT !.view = v, !.cells = cs]
  BY <1>1 DEF WithView
<1>4. q \in Pages /\ q.cells = cs
  BY <1>2, <1>3 DEF Pages
<1>5. \A k \in Cells : cs[k] \in Markers => p.cells[k] \in Markers /\ v.me = None
  BY <1>1, NullFacts
<1> QED BY <1>3, <1>4, <1>5 DEF Pages

LEMMA MarkedFacts ==
    ASSUME NEW p \in Pages, NEW k \in Cells, NEW marker \in Marks, NEW q, q = Marked(p, k, marker)
    PROVE  /\ q \in Pages /\ q.conn = p.conn /\ q.connected = p.connected /\ q.pid = p.pid
           /\ q.joined = p.joined /\ q.view = p.view /\ q.busy = p.busy /\ q.summary = p.summary
           /\ q.picker = p.picker /\ q.sheet = p.sheet
           /\ q.cells[k] = marker /\ \A j \in Cells \ {k} : q.cells[j] = p.cells[j]
<1>1. PICK cs : cs = [p.cells EXCEPT ![k] = marker]
  OBVIOUS
<1>2. cs \in [Cells -> Marks] /\ cs[k] = marker /\ \A j \in Cells \ {k} : cs[j] = p.cells[j]
  BY <1>1 DEF Pages
<1>3. q = [p EXCEPT !.cells = cs]
  BY <1>1 DEF Marked
<1> QED BY <1>2, <1>3 DEF Pages
-----------------------------------------------------------------------------
(* A message taken *)

(* Whom the page is, has joined as, and will come back as, once it has heeded
   message m.                                                              *)
Identifies(m) ==
    \/ m.t = "room:reset" /\ page'.pid = None /\ ~page'.joined /\ stored' = None
    \/ AnswersRejoin(m) /\ m.ok /\ page'.pid = page.pid /\ page'.joined /\ stored' = stored
    \/ AnswersRejoin(m) /\ ~m.ok /\ page'.pid = None /\ stored' = None
    \/ Grants(m) /\ page'.pid = m.id /\ page'.joined /\ stored' = m.id
    \/ /\ ~AnswersRejoin(m) /\ ~Grants(m) /\ m.t # "room:reset"
       /\ page'.pid = page.pid /\ stored' = stored
       /\ page'.joined = page.joined \/ page'.joined

Heeds(c, m) ==
    /\ c \in Conns /\ c = page.conn /\ down[c] # <<>> /\ m = Head(down[c])
    /\ m \in Messages /\ m.t # "connect"
    /\ down' = [down EXCEPT ![c] = Tail(@)]
    /\ UNCHANGED <<host, up, ignored, bounds>>
    /\ page' \in Pages /\ page'.conn = c /\ page'.connected = page.connected
    /\ page'.sheet # None => page'.connected
    /\ Identifies(m)
    /\ Brings(m) => page'.view = m.view
    /\ ~Carries(m) => page'.view = page.view
    /\ \A k \in Cells : page'.cells[k] \in Markers => page.cells[k] \in Markers /\ ~Settles(m, k)

(* What there is to show of a message but its pages.                       *)
LEMMA TakeHeeds ==
    ASSUME PageInv, WireInv, NEW t, t # "connect", NEW p \in Pages, NEW id, Take(t, p, id),
           UNCHANGED up, p.conn = page.conn, p.connected = page.connected,
           NEW m, m = Arrived
    PROVE  /\ page.conn \in Conns /\ m \in Messages /\ m.t = t
           /\ stored' = id /\ Alike(page', p)
           /\ /\ Identifies(m)
              /\ Brings(m) => p.view = m.view
              /\ ~Carries(m) => p.view = page.view
              /\ \A k \in Cells : p.cells[k] \in Markers =>
                                      page.cells[k] \in Markers /\ ~Settles(m, k)
              => Heeds(page.conn, m)
<1>1. page.conn \in Conns /\ down[page.conn] \in Seq(Messages) /\ down[page.conn] # <<>>
  BY DEF Take, PageInv, Pages, WireInv
<1>2. m = Head(down[page.conn]) /\ m.t = t /\ m \in Messages
  BY <1>1, MembersTail DEF Take, Arrived
<1>3. Alike(page', p) /\ (page'.sheet # None => page'.connected)
  BY ShownFacts DEF Take
<1>4. stored' = id /\ down' = [down EXCEPT ![page.conn] = Tail(@)]
      /\ UNCHANGED <<host, up, ignored, bounds>>
  BY DEF Take
<1>5. page' \in Pages /\ page'.conn = page.conn /\ page'.connected = page.connected
      /\ page'.view = p.view /\ page'.cells = p.cells
  BY <1>3 DEF Alike
<1>6. \A k \in Cells : (page'.cells[k] \in Markers) = (p.cells[k] \in Markers)
  BY <1>5
<1> QED BY <1>1, <1>2, <1>3, <1>4, <1>5, <1>6 DEF Heeds

LEMMA SummaryHeeds ==
    ASSUME PageInv, WireInv, OnSummary
    PROVE  Heeds(page.conn, Arrived)
<1>1. PICK m : m = Arrived
  OBVIOUS
<1>2. PICK p : p = WithSummary(page, m)
  OBVIOUS
<1>3. Take("event:summary", p, stored) /\ UNCHANGED up
  BY <1>1, <1>2 DEF OnSummary
<1>4. m \in Summaries /\ m.t = "event:summary" /\ page \in Pages
  <2>1. page.conn \in Conns /\ down[page.conn] \in Seq(Messages) /\ down[page.conn] # <<>>
    BY <1>3 DEF Take, PageInv, Pages, WireInv
  <2>2. m \in Messages /\ m.t = "event:summary"
    BY <1>1, <1>3, <2>1, MembersTail DEF Take, Arrived
  <2> QED BY <2>2, MessageKinds DEF PageInv
<1>5. PICK q : q = [page EXCEPT !.summary = m.state]
  OBVIOUS
<1>6. q \in Pages /\ q.conn = page.conn /\ q.connected = page.connected /\ q.pid = page.pid
      /\ q.joined = page.joined /\ q.view = page.view /\ q.cells = page.cells
  BY <1>4, <1>5 DEF Pages, Summaries
<1>7. p = IF m.view = None THEN q ELSE WithView(q, m.view)
  BY <1>2, <1>5 DEF WithSummary
<1>8. m.view # None => m.view \in Views
  BY <1>4 DEF Summaries
<1>9. /\ p \in Pages /\ p.conn = page.conn /\ p.connected = page.connected /\ p.pid = page.pid
      /\ p.joined = page.joined
      /\ p.view = IF m.view = None THEN page.view ELSE m.view
      /\ \A k \in Cells : p.cells[k] \in Markers =>
            page.cells[k] \in Markers /\ (m.view # None => m.view.me = None)
  BY <1>6, <1>7, <1>8, WithViewFacts
<1>10. /\ Brings(m) => p.view = m.view
       /\ ~Carries(m) => p.view = page.view
       /\ \A k \in Cells : p.cells[k] \in Markers => page.cells[k] \in Markers /\ ~Settles(m, k)
  BY <1>4, <1>9 DEF Brings, Carries, Settles
<1>11. stored' = stored /\ Alike(page', p)
  BY <1>1, <1>3, <1>9, TakeHeeds
<1>12. Identifies(m)
  BY <1>4, <1>9, <1>11 DEF Identifies, AnswersRejoin, Grants, Alike
<1> QED BY <1>1, <1>3, <1>9, <1>10, <1>12, TakeHeeds

LEMMA StateHeeds ==
    ASSUME PageInv, WireInv, OnState
    PROVE  Heeds(page.conn, Arrived)
<1>1. PICK m : m = Arrived
  OBVIOUS
<1>2. PICK p : p = WithView(page, m.view)
  OBVIOUS
<1>3. Take("room:state", p, stored) /\ UNCHANGED up
  BY <1>1, <1>2 DEF OnState
<1>4. m \in Pictures /\ m.t = "room:state" /\ page \in Pages
  <2>1. page.conn \in Conns /\ down[page.conn] \in Seq(Messages) /\ down[page.conn] # <<>>
    BY <1>3 DEF Take, PageInv, Pages, WireInv
  <2>2. m \in Messages /\ m.t = "room:state"
    BY <1>1, <1>3, <2>1, MembersTail DEF Take, Arrived
  <2> QED BY <2>2, MessageKinds DEF PageInv
<1>5. m.view \in Views
  BY <1>4 DEF Pictures
<1>6. /\ p \in Pages /\ p.conn = page.conn /\ p.connected = page.connected /\ p.pid = page.pid
      /\ p.joined = page.joined /\ p.view = m.view
      /\ \A k \in Cells : p.cells[k] \in Markers => page.cells[k] \in Markers /\ m.view.me = None
  BY <1>2, <1>4, <1>5, WithViewFacts
<1>7. /\ Brings(m) => p.view = m.view
      /\ ~Carries(m) => p.view = page.view
      /\ \A k \in Cells : p.cells[k] \in Markers => page.cells[k] \in Markers /\ ~Settles(m, k)
  BY <1>4, <1>6 DEF Brings, Carries, Settles
<1>8. stored' = stored /\ Alike(page', p)
  BY <1>1, <1>3, <1>6, TakeHeeds
<1>9. Identifies(m)
  BY <1>4, <1>6, <1>8 DEF Identifies, AnswersRejoin, Grants, Alike
<1> QED BY <1>1, <1>3, <1>6, <1>7, <1>9, TakeHeeds

LEMMA CardHeeds ==
    ASSUME PageInv, WireInv, OnCard
    PROVE  Heeds(page.conn, Arrived)
<1>1. PICK m : m = Arrived
  OBVIOUS
<1>2. PICK p : p = [page EXCEPT !.joined = TRUE]
  OBVIOUS
<1>3. Take("card", p, stored) /\ UNCHANGED up
  BY <1>2 DEF OnCard
<1>4. page \in Pages
  BY DEF PageInv
<1>5. /\ p \in Pages /\ p.conn = page.conn /\ p.connected = page.connected /\ p.pid = page.pid
      /\ p.joined /\ p.view = page.view /\ p.cells = page.cells
  BY <1>2, <1>4 DEF Pages
<1>6. m.t = "card" /\ stored' = stored /\ Alike(page', p)
  BY <1>1, <1>3, <1>5, TakeHeeds
<1>7. /\ Brings(m) => p.view = m.view
      /\ ~Carries(m) => p.view = page.view
      /\ \A k \in Cells : p.cells[k] \in Markers => page.cells[k] \in Markers /\ ~Settles(m, k)
  BY <1>5, <1>6 DEF Brings, Carries, Settles
<1>8. Identifies(m)
  BY <1>5, <1>6 DEF Identifies, AnswersRejoin, Grants, Alike
<1> QED BY <1>1, <1>3, <1>5, <1>7, <1>8, TakeHeeds
LEMMA ResultHeeds ==
    ASSUME PageInv, WireInv, OnResult
    PROVE  Heeds(page.conn, Arrived)
<1>1. PICK m : m = Arrived
  OBVIOUS
<1>2. PICK marker : marker = IF m.ok THEN None ELSE "error"
  OBVIOUS
<1>3. PICK p : p = Marked(page, m.k, marker)
  OBVIOUS
<1>4. Take("cell:result", p, stored) /\ UNCHANGED up
  BY <1>1, <1>2, <1>3 DEF OnResult
<1>5. m \in Results /\ m.t = "cell:result" /\ page \in Pages
  <2>1. page.conn \in Conns /\ down[page.conn] \in Seq(Messages) /\ down[page.conn] # <<>>
    BY <1>4 DEF Take, PageInv, Pages, WireInv
  <2>2. m \in Messages /\ m.t = "cell:result"
    BY <1>1, <1>4, <2>1, MembersTail DEF Take, Arrived
  <2> QED BY <2>2, MessageKinds DEF PageInv
<1>6. m.k \in Cells /\ marker \in Marks /\ marker \notin Markers
  BY <1>2, <1>5, NullFacts DEF Results, Marks, Markers
<1>7. /\ p \in Pages /\ p.conn = page.conn /\ p.connected = page.connected /\ p.pid = page.pid
      /\ p.joined = page.joined /\ p.view = page.view
      /\ p.cells[m.k] = marker /\ \A j \in Cells \ {m.k} : p.cells[j] = page.cells[j]
  BY <1>3, <1>5, <1>6, MarkedFacts
<1>8. /\ Brings(m) => p.view = m.view
      /\ ~Carries(m) => p.view = page.view
      /\ \A k \in Cells : p.cells[k] \in Markers => page.cells[k] \in Markers /\ ~Settles(m, k)
  BY <1>5, <1>6, <1>7 DEF Brings, Carries, Settles
<1>9. stored' = stored /\ Alike(page', p)
  BY <1>1, <1>4, <1>7, TakeHeeds
<1>10. Identifies(m)
  BY <1>5, <1>7, <1>9 DEF Identifies, AnswersRejoin, Grants, Alike
<1> QED BY <1>1, <1>4, <1>7, <1>8, <1>10, TakeHeeds

LEMMA CandidatesHeeds ==
    ASSUME PageInv, WireInv, OnCandidates
    PROVE  Heeds(page.conn, Arrived)
<1>1. PICK m : m = Arrived
  OBVIOUS
<1>2. PICK q : q = Marked(page, m.k, None)
  OBVIOUS
<1>3. PICK p : p = [q EXCEPT !.picker = m.k]
  OBVIOUS
<1>4. Take("cell:candidates", p, stored) /\ UNCHANGED up
  BY <1>1, <1>2, <1>3 DEF OnCandidates
<1>5. m \in Pickers /\ m.t = "cell:candidates" /\ page \in Pages
  <2>1. page.conn \in Conns /\ down[page.conn] \in Seq(Messages) /\ down[page.conn] # <<>>
    BY <1>4 DEF Take, PageInv, Pages, WireInv
  <2>2. m \in Messages /\ m.t = "cell:candidates"
    BY <1>1, <1>4, <2>1, MembersTail DEF Take, Arrived
  <2> QED BY <2>2, MessageKinds DEF PageInv
<1>6. m.k \in Cells /\ None \in Marks /\ None \notin Markers
  BY <1>5, NullFacts DEF Pickers, Marks
<1>7. /\ q \in Pages /\ q.conn = page.conn /\ q.connected = page.connected /\ q.pid = page.pid
      /\ q.joined = page.joined /\ q.view = page.view
      /\ q.cells[m.k] = None /\ \A j \in Cells \ {m.k} : q.cells[j] = page.cells[j]
  BY <1>2, <1>5, <1>6, MarkedFacts
<1>8. /\ p \in Pages /\ p.conn = page.conn /\ p.connected = page.connected /\ p.pid = page.pid
      /\ p.joined = page.joined /\ p.view = page.view
      /\ p.cells[m.k] = None /\ \A j \in Cells \ {m.k} : p.cells[j] = page.cells[j]
  BY <1>3, <1>6, <1>7 DEF Pages
<1>9. /\ Brings(m) => p.view = m.view
      /\ ~Carries(m) => p.view = page.view
      /\ \A k \in Cells : p.cells[k] \in Markers => page.cells[k] \in Markers /\ ~Settles(m, k)
  BY <1>5, <1>6, <1>8 DEF Brings, Carries, Settles
<1>10. stored' = stored /\ Alike(page', p)
  BY <1>1, <1>4, <1>8, TakeHeeds
<1>11. Identifies(m)
  BY <1>5, <1>8, <1>10 DEF Identifies, AnswersRejoin, Grants, Alike
<1> QED BY <1>1, <1>4, <1>8, <1>9, <1>11, TakeHeeds

LEMMA NewPageType ==
    /\ NewPage \in Pages /\ NewPage.pid = None /\ ~NewPage.joined /\ NewPage.sheet = None
    /\ ~NewPage.connected
    /\ \A k \in Cells : NewPage.cells[k] = None
BY DEF NewPage, Pages, Marks

LEMMA ResetHeeds ==
    ASSUME PageInv, WireInv, OnReset
    PROVE  Heeds(page.conn, Arrived)
<1>1. PICK m : m = Arrived
  OBVIOUS
<1>2. PICK p : p = [NewPage EXCEPT !.conn = page.conn, !.connected = page.connected,
                                   !.summary = page.summary]
  OBVIOUS
<1>3. Take("room:reset", p, None) /\ UNCHANGED up
  BY <1>2 DEF OnReset
<1>4. page \in Pages
  BY DEF PageInv
<1>5. /\ p \in Pages /\ p.conn = page.conn /\ p.connected = page.connected /\ p.pid = None
      /\ ~p.joined /\ \A k \in Cells : p.cells[k] = None
  BY <1>2, <1>4, NewPageType DEF Pages
<1>6. m.t = "room:reset" /\ stored' = None /\ Alike(page', p)
  BY <1>1, <1>3, <1>5, TakeHeeds
<1>7. /\ Brings(m) => p.view = m.view
      /\ ~Carries(m) => p.view = page.view
      /\ \A k \in Cells : p.cells[k] \in Markers => page.cells[k] \in Markers /\ ~Settles(m, k)
  BY <1>5, <1>6, NullFacts DEF Brings, Carries
<1>8. Identifies(m)
  BY <1>5, <1>6 DEF Identifies, Alike
<1> QED BY <1>1, <1>3, <1>5, <1>7, <1>8, TakeHeeds

LEMMA AckHeeds ==
    ASSUME PageInv, WireInv, OnAck
    PROVE  Heeds(page.conn, Arrived)
<1>1. PICK m : m = Arrived
  OBVIOUS
<1>2. PICK p : p = AfterAck(m)
  OBVIOUS
<1>3. PICK id : id = StoredAfterAck(m)
  OBVIOUS
<1>4. Take("ack", p, id) /\ UNCHANGED up
  BY <1>1, <1>2, <1>3 DEF OnAck
<1>5. m \in Answers /\ m.t = "ack" /\ page \in Pages
  <2>1. page.conn \in Conns /\ down[page.conn] \in Seq(Messages) /\ down[page.conn] # <<>>
    BY <1>4 DEF Take, PageInv, Pages, WireInv
  <2>2. m \in Messages /\ m.t = "ack"
    BY <1>1, <1>4, <2>1, MembersTail DEF Take, Arrived
  <2> QED BY <2>2, MessageKinds DEF PageInv
<1>6. PICK to : to = m.to
  OBVIOUS
<1>7. to \in Requests /\ m.ok \in BOOLEAN /\ m.error \in BOOLEAN /\ m.id \in Ids \cup {None}
  BY <1>5, <1>6 DEF Answers
<1>8. to.t \in {"room:join", "room:rejoin", "fill", "pick", "clear"} /\ (to.t = "fill" => to.k \in Cells)
  BY <1>7, RequestKinds
<1>9. /\ to.t = "room:rejoin" /\ m.ok  => p = [page EXCEPT !.joined = TRUE] /\ id = stored
      /\ to.t = "room:rejoin" /\ ~m.ok => p = [page EXCEPT !.pid = None, !.joined = FALSE] /\ id = None
      /\ to.t = "room:join" /\ m.ok    => p = [page EXCEPT !.pid = m.id, !.joined = TRUE] /\ id = m.id
      /\ to.t = "room:join" /\ ~m.ok   => p = [page EXCEPT !.busy = FALSE] /\ id = stored
      /\ to.t = "fill" /\ m.error      => p = Marked(page, to.k, "error") /\ id = stored
      /\ ~(to.t \in {"room:join", "room:rejoin"} \/ (to.t = "fill" /\ m.error)) => p = page /\ id = stored
  BY <1>2, <1>3, <1>6, <1>7, <1>8 DEF AfterAck, StoredAfterAck, FillRefused
<1>10. "error" \in Marks /\ "error" \notin Markers
  BY DEF Marks, Markers
<1>11. CASE to.t = "fill" /\ m.error
  <2>1. /\ p \in Pages /\ p.conn = page.conn /\ p.connected = page.connected /\ p.pid = page.pid
        /\ p.joined = page.joined /\ p.view = page.view
        /\ p.cells[to.k] = "error" /\ \A j \in Cells \ {to.k} : p.cells[j] = page.cells[j]
    BY <1>5, <1>8, <1>9, <1>10, <1>11, MarkedFacts
  <2>2. /\ Brings(m) => p.view = m.view
        /\ ~Carries(m) => p.view = page.view
        /\ \A k \in Cells : p.cells[k] \in Markers => page.cells[k] \in Markers /\ ~Settles(m, k)
    BY <1>5, <1>6, <1>10, <1>11, <2>1 DEF Brings, Carries, Settles
  <2>3. stored' = stored /\ Alike(page', p)
    BY <1>1, <1>4, <1>9, <1>11, <2>1, TakeHeeds
  <2>4. Identifies(m)
    BY <1>5, <1>6, <1>11, <2>1, <2>3 DEF Identifies, AnswersRejoin, Grants, Alike
  <2> QED BY <1>1, <1>4, <2>1, <2>2, <2>4, TakeHeeds
<1>12. CASE ~(to.t = "fill" /\ m.error)
  <2>1. /\ p \in Pages /\ p.conn = page.conn /\ p.connected = page.connected
        /\ p.view = page.view /\ p.cells = page.cells
        /\ to.t = "room:rejoin" /\ m.ok  => p.pid = page.pid /\ p.joined
        /\ to.t = "room:rejoin" /\ ~m.ok => p.pid = None
        /\ to.t = "room:join" /\ m.ok    => p.pid = m.id /\ p.joined
        /\ to.t # "room:rejoin" /\ ~(to.t = "room:join" /\ m.ok) =>
              p.pid = page.pid /\ p.joined = page.joined
    <3>1. CASE to.t = "room:rejoin" /\ m.ok
      BY <1>5, <1>9, <3>1 DEF Pages
    <3>2. CASE to.t = "room:rejoin" /\ ~m.ok
      BY <1>5, <1>9, <3>2 DEF Pages
    <3>3. CASE to.t = "room:join" /\ m.ok
      BY <1>5, <1>7, <1>9, <3>3 DEF Pages
    <3>4. CASE to.t = "room:join" /\ ~m.ok
      BY <1>5, <1>9, <3>4 DEF Pages
    <3>5. CASE to.t \notin {"room:join", "room:rejoin"}
      BY <1>5, <1>9, <1>12, <3>5 DEF Pages
    <3> QED BY <3>1, <3>2, <3>3, <3>4, <3>5
  <2>2. /\ Brings(m) => p.view = m.view
        /\ ~Carries(m) => p.view = page.view
        /\ \A k \in Cells : p.cells[k] \in Markers => page.cells[k] \in Markers /\ ~Settles(m, k)
    BY <1>5, <1>6, <1>12, <2>1 DEF Brings, Carries, Settles
  <2>3. stored' = id /\ Alike(page', p)
    BY <1>1, <1>4, <2>1, TakeHeeds
  <2>4. Identifies(m)
    BY <1>5, <1>6, <1>9, <1>12, <2>1, <2>3 DEF Identifies, AnswersRejoin, Grants, Alike
  <2> QED BY <1>1, <1>4, <2>1, <2>2, <2>4, TakeHeeds
<1> QED BY <1>11, <1>12

(* Every message but the connect is heeded so.                             *)
LEMMA ReceiveHeeds ==
    ASSUME PageInv, WireInv, Receive
    PROVE  OnConnect \/ Heeds(page.conn, Arrived)
BY SummaryHeeds, StateHeeds, CardHeeds, ResultHeeds, CandidatesHeeds, ResetHeeds, AckHeeds
   DEF Receive
LEMMA HeedsStays ==
    ASSUME WireInv, NEW c, NEW m, Heeds(c, m)
    PROVE  /\ event' = event /\ state' = state /\ players' = players /\ issued' = issued
           /\ socks' = socks /\ playerSockets' = playerSockets /\ up' = up
           /\ ignored' = ignored /\ used' = used
           /\ c \in Conns /\ down[c] \in Seq(Messages) /\ down[c] # <<>> /\ m = Head(down[c])
           /\ down' \in [Conns -> Seq(Messages)] /\ down'[c] = Tail(down[c])
           /\ \A d \in Conns \ {c} : down'[d] = down[d]
           /\ m \in Members(down[c]) /\ Members(down[c]) = {m} \cup Members(down'[c])
           /\ Members(down'[c]) = Later(down[c]) /\ Later(down'[c]) \subseteq Later(down[c])
           /\ down'[c] # <<>> => Head(down'[c]) \in Later(down[c])
<1>1. /\ c \in Conns /\ down \in [Conns -> Seq(Messages)] /\ down[c] # <<>> /\ m = Head(down[c])
      /\ down' = [down EXCEPT ![c] = Tail(@)]
  BY DEF Heeds, WireInv
<1>2. PICK s \in Seq(Messages) : s = down[c]
  BY <1>1
<1>3. /\ Tail(s) \in Seq(Messages) /\ Head(s) \in Members(s)
      /\ Members(s) = {Head(s)} \cup Members(Tail(s))
      /\ Members(Tail(s)) = Later(s) /\ Later(Tail(s)) \subseteq Later(s)
      /\ Tail(s) # <<>> => Head(Tail(s)) \in Later(s)
  BY <1>1, <1>2, MembersTail
<1>4. /\ down' \in [Conns -> Seq(Messages)] /\ down'[c] = Tail(s)
      /\ \A d \in Conns \ {c} : down'[d] = down[d]
  BY <1>1, <1>2, <1>3
<1> QED BY <1>1, <1>2, <1>3, <1>4 DEF Heeds, host, room, bounds

LEMMA HeedsPage ==
    ASSUME PageInv, WireInv, NEW c, NEW m, Heeds(c, m)
    PROVE  PageInv'
<1>1. /\ issued' = issued /\ used' = used /\ c \in Conns /\ m \in Members(down[c])
  BY HeedsStays
<1>2. page' \in Pages /\ page'.conn = c /\ c = page.conn /\ page'.connected = page.connected
      /\ (page'.sheet # None => page'.connected) /\ Identifies(m)
  BY DEF Heeds
<1>3. Grants(m) => m.id \in {None} \cup 1..issued
  BY <1>1 DEF WireInv, Grants
<1>4. page.pid # None => page.pid = stored
  BY DEF PageInv
<1>5. stored \in {None} \cup 1..issued /\ (page.connected => page.pid = stored)
  BY DEF PageInv
<1>6. /\ stored' \in {None} \cup 1..issued
      /\ page'.pid # None => page'.pid = stored'
      /\ page'.connected => page'.pid = stored'
  BY <1>2, <1>3, <1>4, <1>5 DEF Identifies
<1>7. c # None
  BY <1>1, NumberFacts
<1> QED BY <1>1, <1>2, <1>6, <1>7 DEF PageInv

LEMMA HeedsWire ==
    ASSUME PageInv, WireInv, NEW c, NEW m, Heeds(c, m)
    PROVE  WireInv'
<1>1. /\ socks' = socks /\ up' = up /\ used' = used /\ issued' = issued /\ c \in Conns
      /\ page'.conn = page.conn /\ page'.connected = page.connected
  BY HeedsStays DEF Heeds
<1>2. /\ down' \in [Conns -> Seq(Messages)]
      /\ \A d \in Conns \ {c} : down'[d] = down[d]
  BY HeedsStays
<1>3. /\ down[c] # <<>> /\ Members(down'[c]) = Later(down[c])
      /\ Later(down'[c]) \subseteq Later(down[c])
      /\ down'[c] # <<>> => Head(down'[c]) \in Later(down[c])
      /\ Members(down'[c]) \subseteq Members(down[c])
  BY HeedsStays
<1>4. \A x \in Later(down[c]) : x.t # "connect"
  BY <1>1 DEF WireInv
<1>5. ~(c > used)
  BY <1>1, <1>3 DEF WireInv
<1>6. socks' \in [Conns -> Sockets] /\ up' \in [Conns -> Seq(Requests)]
  BY <1>1 DEF WireInv
<1>7. ASSUME NEW d \in Conns
      PROVE  /\ socks'[d].playerId # None => socks'[d].playerId \in 1..issued'
             /\ d > used' => socks'[d] = Closed /\ down'[d] = <<>>
             /\ up'[d] # <<>> => d = used' /\ socks'[d].open
             /\ down'[d] # <<>> /\ Head(down'[d]).t = "connect" =>
                   page'.conn = d /\ ~page'.connected /\ up'[d] = <<>>
                   /\ (socks'[d].open => socks'[d] = Fresh)
             /\ \A x \in Later(down'[d]) : x.t # "connect"
             /\ \A x \in Members(down'[d]) : x.t = "ack" => x.id \in {None} \cup 1..issued'
             /\ up'[d] # <<>> /\ Head(up'[d]).t = "room:rejoin" =>
                   Head(up'[d]).id \in 1..issued' /\ socks'[d] = Fresh
             /\ \A x \in Later(up'[d]) : x.t # "room:rejoin"
  <2>1. CASE d = c
    BY <1>1, <1>3, <1>4, <1>5, <2>1 DEF WireInv
  <2>2. CASE d # c
    <3>1. down'[d] = down[d]
      BY <2>2, <1>2
    <3> QED BY <1>1, <3>1 DEF WireInv
  <2> QED BY <2>1, <2>2
<1> QED BY <1>2, <1>6, <1>7 DEF WireInv, Fresh, Closed

LEMMA HeedsHere ==
    ASSUME WireInv, HereInv, NEW c, NEW m, Heeds(c, m)
    PROVE  HereInv'
<1>1. /\ socks' = socks /\ up' = up /\ used' = used /\ playerSockets' = playerSockets
      /\ c \in Conns /\ m \in Members(down[c]) /\ Members(down'[c]) \subseteq Members(down[c])
      /\ c = page.conn /\ page'.conn = page.conn /\ page'.connected = page.connected
      /\ Identifies(m)
  BY HeedsStays DEF Heeds
<1>2. ASSUME NEW d \in Conns, socks[d].open, d = page.conn, page'.connected, page'.pid # None
      PROVE  socks[d].playerId = page'.pid \/ (Rejoining(d) /\ Head(up[d]).id = page'.pid)
  <2>1. d = c
    BY <1>1, <1>2
  <2>2. Grants(m) => m.id = socks[c].playerId
    BY <1>1, <1>2, <2>1 DEF HereInv
  <2>3. page'.pid = page.pid \/ page'.pid = socks[c].playerId
    BY <1>1, <1>2, <2>2 DEF Identifies
  <2> QED BY <1>1, <1>2, <2>1, <2>3 DEF HereInv
<1>3. ASSUME NEW d \in Conns, socks[d].open, d = page.conn, NEW x \in Members(down'[d]), Grants(x)
      PROVE  x.id # None /\ x.id = socks[d].playerId
  <2>1. x \in Members(down[d])
    BY <1>1, <1>3
  <2> QED BY <2>1, <1>3 DEF HereInv
<1>4. RegisteredSocketIsOpen'
  BY <1>1 DEF HereInv, RegisteredSocketIsOpen
<1>5. ASSUME NEW d \in Conns, socks[d].open, d = used, socks[d].playerId # None
      PROVE  playerSockets[socks[d].playerId] = d
  BY <1>5 DEF HereInv
<1>6. playerSockets' \in [Ids -> Conns \cup {None}]
  BY <1>1 DEF HereInv
<1>7. ASSUME NEW d \in Conns PROVE Rejoining(d)' <=> Rejoining(d)
  BY <1>1 DEF Rejoining
<1> QED BY <1>1, <1>2, <1>3, <1>4, <1>5, <1>6, <1>7 DEF HereInv

LEMMA HeedsJoin ==
    ASSUME WireInv, JoinInv, NEW c, NEW m, Heeds(c, m)
    PROVE  JoinInv'
<1>1. /\ socks' = socks /\ up' = up
      /\ c \in Conns /\ Members(down[c]) = {m} \cup Members(down'[c])
      /\ c = page.conn /\ page'.conn = page.conn /\ page'.connected = page.connected
      /\ Identifies(m)
  BY HeedsStays DEF Heeds
<1> SUFFICES ASSUME socks[c].open, page'.connected, page'.pid # None, ~page'.joined
             PROVE  Rejoining(c)' \/ \E x \in Members(down'[c]) : AnswersRejoin(x)
  BY <1>1 DEF JoinInv
<1>2. ~AnswersRejoin(m) /\ page'.pid = page.pid /\ ~page.joined
  BY <1>1 DEF Identifies
<1>3. Rejoining(c) \/ \E x \in Members(down[c]) : AnswersRejoin(x)
  BY <1>1, <1>2 DEF JoinInv
<1>4. Rejoining(c)' <=> Rejoining(c)
  BY <1>1 DEF Rejoining
<1> QED BY <1>1, <1>2, <1>3, <1>4

LEMMA HeedsView ==
    ASSUME WireInv, ViewInv, NEW c, NEW m, Heeds(c, m)
    PROVE  ViewInv'
<1>1. /\ socks' = socks /\ event' = event /\ state' = state /\ players' = players
      /\ c \in Conns /\ down[c] \in Seq(Messages) /\ down[c] # <<>> /\ m = Head(down[c])
      /\ down'[c] = Tail(down[c])
      /\ c = page.conn /\ page'.conn = page.conn
      /\ Brings(m) => page'.view = m.view
      /\ ~Carries(m) => page'.view = page.view
  BY HeedsStays DEF Heeds
<1> SUFFICES ASSUME socks[c].open, InRoom(socks[c].playerId)
             PROVE  Shows(down'[c], page'.view, ViewOf(state, players, socks[c].playerId))
  BY <1>1 DEF ViewInv, InRoom
<1>2. Shows(down[c], page.view, ViewOf(state, players, socks[c].playerId))
  BY <1>1 DEF ViewInv
<1> QED BY <1>1, <1>2, ShowsTail

LEMMA HeedsGreen ==
    ASSUME WireInv, GreenInv, NEW c, NEW m, Heeds(c, m)
    PROVE  GreenInv'
<1>1. /\ socks' = socks /\ up' = up /\ ignored' = ignored
      /\ c \in Conns /\ Members(down[c]) = {m} \cup Members(down'[c])
      /\ c = page.conn /\ page'.conn = page.conn /\ page'.connected = page.connected
      /\ Identifies(m)
      /\ \A k \in Cells : page'.cells[k] \in Markers => page.cells[k] \in Markers /\ ~Settles(m, k)
  BY HeedsStays DEF Heeds
<1> SUFFICES ASSUME NEW k \in Cells, socks[c].open, page'.cells[k] \in Markers, k \notin ignored
             PROVE  /\ page'.connected /\ page'.pid # None =>
                          \/ Heals(c, k)'
                          \/ Rejoining(c)'
                          \/ \E x \in Members(down'[c]) : AnswersRejoin(x) /\ ~x.ok
                    /\ (\E x \in Members(down'[c]) : Grants(x)) => Heals(c, k)'
  BY <1>1 DEF GreenInv
<1>2. page.cells[k] \in Markers /\ ~Settles(m, k)
  BY <1>1
<1>3. Heals(c, k) => Heals(c, k)'
  BY <1>1, <1>2 DEF Heals
<1>4. Rejoining(c)' <=> Rejoining(c)
  BY <1>1 DEF Rejoining
<1>5. /\ page.connected /\ page.pid # None =>
            \/ Heals(c, k)
            \/ Rejoining(c)
            \/ \E x \in Members(down[c]) : AnswersRejoin(x) /\ ~x.ok
      /\ (\E x \in Members(down[c]) : Grants(x)) => Heals(c, k)
  BY <1>1, <1>2 DEF GreenInv
<1>6. (\E x \in Members(down'[c]) : Grants(x)) => Heals(c, k)'
  BY <1>1, <1>3, <1>5
<1>7. ASSUME page'.connected, page'.pid # None
      PROVE  \/ Heals(c, k)'
             \/ Rejoining(c)'
             \/ \E x \in Members(down'[c]) : AnswersRejoin(x) /\ ~x.ok
  <2>1. CASE Grants(m)
    BY <2>1, <1>1, <1>3, <1>5
  <2>2. CASE ~Grants(m)
    <3>1. page'.pid = page.pid /\ ~(AnswersRejoin(m) /\ ~m.ok)
      BY <1>1, <1>7, <2>2, NullFacts DEF Identifies, AnswersRejoin, Grants
    <3> QED BY <3>1, <1>1, <1>3, <1>4, <1>5, <1>7
  <2> QED BY <2>1, <2>2
<1> QED BY <1>6, <1>7
-----------------------------------------------------------------------------
(* The connect taken: a page that has an identity claims it *)

LEMMA OnConnectFacts ==
    ASSUME RoomInv, PageInv, WireInv, OnConnect, NEW c, c = page.conn
    PROVE  /\ event' = event /\ state' = state /\ players' = players /\ issued' = issued
           /\ socks' = socks /\ playerSockets' = playerSockets
           /\ ignored' = ignored /\ used' = used /\ stored' = stored
           /\ c \in Conns /\ c = used /\ (socks[c].open => socks[c] = Fresh) /\ up[c] = <<>>
           /\ down' \in [Conns -> Seq(Messages)] /\ \A d \in Conns \ {c} : down'[d] = down[d]
           /\ Members(down'[c]) = Later(down[c]) /\ Later(down'[c]) \subseteq Later(down[c])
           /\ down'[c] # <<>> => Head(down'[c]) \in Later(down[c])
           /\ Members(down'[c]) \subseteq Members(down[c])
           /\ page' \in Pages /\ page'.conn = c /\ page'.connected /\ page'.pid = stored
           /\ page'.joined = page.joined /\ page'.view = page.view /\ page'.cells = page.cells
           /\ up' \in [Conns -> Seq(Requests)] /\ \A d \in Conns \ {c} : up'[d] = up[d]
           /\ IF socks[c].open /\ stored # None
              THEN up'[c] # <<>> /\ Head(up'[c]).t = "room:rejoin" /\ Head(up'[c]).id = stored
                   /\ Later(up'[c]) = {}
              ELSE up'[c] = <<>> /\ Later(up'[c]) = {}
<1>1. PICK p : p = [page EXCEPT !.connected = TRUE, !.pid = Known]
  OBVIOUS
<1>2. Take("connect", p, stored)
  BY <1>1 DEF OnConnect
<1>3. Known = stored
  BY DEF Known, PageInv
<1>4. /\ p \in Pages /\ p.conn = page.conn /\ p.connected /\ p.pid = stored
      /\ p.joined = page.joined /\ p.view = page.view /\ p.cells = page.cells
  <2>1. stored \in Ids \cup {None}
    BY NumberFacts DEF PageInv, RoomInv, Ids
  <2> QED BY <1>1, <1>3, <2>1 DEF PageInv, Pages
<1>5. Alike(page', p)
  BY <1>2, <1>4, ShownFacts DEF Take
<1>6. c \in Conns /\ down[c] \in Seq(Messages) /\ down[c] # <<>> /\ c = used
  BY <1>2 DEF Take, PageInv, Pages, WireInv
<1>7. Head(down[c]).t = "connect" /\ down' = [down EXCEPT ![c] = Tail(@)]
      /\ stored' = stored /\ UNCHANGED <<host, ignored, bounds>>
  BY <1>2 DEF Take, Arrived
<1>8. up[c] = <<>> /\ (socks[c].open => socks[c] = Fresh)
  BY <1>6, <1>7 DEF WireInv
<1>9. /\ Tail(down[c]) \in Seq(Messages)
      /\ Members(down[c]) = {Head(down[c])} \cup Members(Tail(down[c]))
      /\ Members(Tail(down[c])) = Later(down[c]) /\ Later(Tail(down[c])) \subseteq Later(down[c])
      /\ Tail(down[c]) # <<>> => Head(Tail(down[c])) \in Later(down[c])
  BY <1>6, MembersTail
<1>10. /\ down' \in [Conns -> Seq(Messages)] /\ down'[c] = Tail(down[c])
       /\ \A d \in Conns \ {c} : down'[d] = down[d]
  BY <1>6, <1>7, <1>9 DEF WireInv
<1>11. /\ up' \in [Conns -> Seq(Requests)] /\ \A d \in Conns \ {c} : up'[d] = up[d]
       /\ IF socks[c].open /\ stored # None
          THEN up'[c] # <<>> /\ Head(up'[c]).t = "room:rejoin" /\ Head(up'[c]).id = stored
               /\ Later(up'[c]) = {}
          ELSE up'[c] = <<>> /\ Later(up'[c]) = {}
  <2>1. up \in [Conns -> Seq(Requests)]
    BY DEF WireInv
  <2>2. CASE socks[c].open /\ stored # None
    <3>1. PICK r : r = [t |-> "room:rejoin", id |-> stored]
      OBVIOUS
    <3>2. r \in Requests /\ r.t = "room:rejoin" /\ r.id = stored
      <4>1. stored \in Ids
        BY <2>2, <1>4 DEF Pages
      <4> QED BY <3>1, <4>1 DEF Requests
    <3>3. up' = [up EXCEPT ![c] = Append(up[c], r)]
      BY <1>3, <2>2, <3>1 DEF OnConnect, Emit
    <3>4. Append(up[c], r) = <<r>>
      BY <1>8
    <3>5. up' \in [Conns -> Seq(Requests)] /\ up'[c] = <<r>> /\ \A d \in Conns \ {c} : up'[d] = up[d]
      BY <2>1, <3>2, <3>3, <3>4, <1>6
    <3>6. <<r>> # <<>> /\ Head(<<r>>) = r /\ Later(<<r>>) = {}
      BY MembersOne
    <3> QED BY <2>2, <3>2, <3>5, <3>6
  <2>3. CASE ~(socks[c].open /\ stored # None)
    <3>1. up' = up
      BY <1>3, <2>3 DEF OnConnect, Emit
    <3> QED BY <2>1, <2>3, <3>1, <1>8, MembersNone
  <2> QED BY <2>2, <2>3
<1>12. /\ event' = event /\ state' = state /\ players' = players /\ issued' = issued
       /\ socks' = socks /\ playerSockets' = playerSockets
       /\ ignored' = ignored /\ used' = used /\ stored' = stored
  BY <1>7 DEF host, room, bounds
<1> QED BY <1>4, <1>5, <1>6, <1>8, <1>9, <1>10, <1>11, <1>12 DEF Alike

LEMMA OnConnectPage ==
    ASSUME RoomInv, PageInv, WireInv, OnConnect
    PROVE  PageInv'
<1>1. PICK c : c = page.conn
  OBVIOUS
<1>2. /\ issued' = issued /\ used' = used /\ stored' = stored /\ c \in Conns /\ c = used
      /\ page' \in Pages /\ page'.conn = c /\ page'.connected /\ page'.pid = stored
  BY <1>1, OnConnectFacts
<1>3. stored \in {None} \cup 1..issued /\ used \in 0..MaxConns
  BY DEF PageInv
<1> QED BY <1>2, <1>3, NumberFacts DEF PageInv

LEMMA OnConnectWire ==
    ASSUME RoomInv, PageInv, WireInv, OnConnect
    PROVE  WireInv'
<1>1. PICK c : c = page.conn
  OBVIOUS
<1>2. /\ socks' = socks /\ used' = used /\ issued' = issued /\ c \in Conns /\ c = used
      /\ socks[c].open => socks[c] = Fresh
      /\ page'.conn = page.conn
  BY <1>1, OnConnectFacts
<1>3. /\ down' \in [Conns -> Seq(Messages)]
      /\ \A d \in Conns \ {c} : down'[d] = down[d]
      /\ up' \in [Conns -> Seq(Requests)] /\ \A d \in Conns \ {c} : up'[d] = up[d]
  BY <1>1, OnConnectFacts
<1>4. /\ Later(down'[c]) \subseteq Later(down[c])
      /\ down'[c] # <<>> => Head(down'[c]) \in Later(down[c])
      /\ Members(down'[c]) \subseteq Members(down[c])
  BY <1>1, OnConnectFacts
<1>5. IF socks[c].open /\ stored # None
      THEN up'[c] # <<>> /\ Head(up'[c]).t = "room:rejoin" /\ Head(up'[c]).id = stored
           /\ Later(up'[c]) = {}
      ELSE up'[c] = <<>> /\ Later(up'[c]) = {}
  BY <1>1, OnConnectFacts
<1>6. \A x \in Later(down[c]) : x.t # "connect"
  BY <1>2 DEF WireInv
<1>7. ~(c > used)
  BY <1>2 DEF Conns
<1>8. socks' \in [Conns -> Sockets] /\ stored \in {None} \cup 1..issued
  BY <1>2 DEF WireInv, PageInv
<1>9. ASSUME NEW d \in Conns
      PROVE  /\ socks'[d].playerId # None => socks'[d].playerId \in 1..issued'
             /\ d > used' => socks'[d] = Closed /\ down'[d] = <<>>
             /\ up'[d] # <<>> => d = used' /\ socks'[d].open
             /\ down'[d] # <<>> /\ Head(down'[d]).t = "connect" =>
                   page'.conn = d /\ ~page'.connected /\ up'[d] = <<>>
                   /\ (socks'[d].open => socks'[d] = Fresh)
             /\ \A x \in Later(down'[d]) : x.t # "connect"
             /\ \A x \in Members(down'[d]) : x.t = "ack" => x.id \in {None} \cup 1..issued'
             /\ up'[d] # <<>> /\ Head(up'[d]).t = "room:rejoin" =>
                   Head(up'[d]).id \in 1..issued' /\ socks'[d] = Fresh
             /\ \A x \in Later(up'[d]) : x.t # "room:rejoin"
  <2>1. CASE d = c
    <3>1. /\ socks'[d].playerId # None => socks'[d].playerId \in 1..issued'
          /\ \A x \in Members(down'[d]) : x.t = "ack" => x.id \in {None} \cup 1..issued'
      BY <1>2, <1>4, <2>1 DEF WireInv
    <3> QED BY <1>2, <1>4, <1>5, <1>6, <1>7, <1>8, <2>1, <3>1
  <2>2. CASE d # c
    <3>1. down'[d] = down[d] /\ up'[d] = up[d]
      BY <2>2, <1>3
    <3>2. ~(down[d] # <<>> /\ Head(down[d]).t = "connect")
      BY <1>1, <2>2 DEF WireInv
    <3> QED BY <1>2, <3>1, <3>2 DEF WireInv
  <2> QED BY <2>1, <2>2
<1> QED BY <1>3, <1>8, <1>9 DEF WireInv, Fresh, Closed

LEMMA OnConnectHere ==
    ASSUME RoomInv, PageInv, WireInv, HereInv, OnConnect
    PROVE  HereInv' /\ JoinInv'
<1>1. PICK c : c = page.conn
  OBVIOUS
<1>2. /\ socks' = socks /\ used' = used /\ playerSockets' = playerSockets /\ c \in Conns
      /\ page'.conn = c /\ page'.pid = stored
      /\ Members(down'[c]) \subseteq Members(down[c])
  BY <1>1, OnConnectFacts
<1>3. socks[c].open /\ stored # None => Rejoining(c)' /\ Head(up'[c]).id = stored
  BY <1>1, OnConnectFacts DEF Rejoining
<1>4. RegisteredSocketIsOpen'
  BY <1>2 DEF HereInv, RegisteredSocketIsOpen
<1>5. playerSockets' \in [Ids -> Conns \cup {None}]
  BY <1>2 DEF HereInv
<1>6. ASSUME NEW d \in Conns, socks[d].open
      PROVE  /\ d = used /\ socks[d].playerId # None => playerSockets[socks[d].playerId] = d
             /\ d = c /\ stored # None => Rejoining(d)' /\ Head(up'[d]).id = stored
             /\ \A x \in Members(down'[d]) :
                   d = c /\ Grants(x) => x.id # None /\ x.id = socks[d].playerId
  <2>1. d = used /\ socks[d].playerId # None => playerSockets[socks[d].playerId] = d
    BY <1>6 DEF HereInv
  <2>2. \A x \in Members(down[d]) :
           d = c /\ Grants(x) => x.id # None /\ x.id = socks[d].playerId
    BY <1>1, <1>6 DEF HereInv
  <2> QED BY <2>1, <2>2, <1>2, <1>3, <1>6
<1>7. HereInv'
  BY <1>2, <1>4, <1>5, <1>6 DEF HereInv
<1>8. JoinInv'
  BY <1>2, <1>3 DEF JoinInv
<1> QED BY <1>7, <1>8

LEMMA OnConnectView ==
    ASSUME RoomInv, PageInv, WireInv, HereInv, OnConnect
    PROVE  ViewInv' /\ GreenInv'
<1>1. PICK c : c = page.conn
  OBVIOUS
<1>2. /\ socks' = socks /\ event' = event /\ players' = players /\ c \in Conns
      /\ page'.conn = c /\ page'.pid = stored
      /\ Members(down'[c]) \subseteq Members(down[c])
  BY <1>1, OnConnectFacts
<1>3. socks[c].open => socks[c].playerId = None
  BY <1>1, OnConnectFacts DEF Fresh, Closed
<1>4. None \notin DOMAIN players
  BY NumberFacts DEF RoomInv, IsRoster
<1>5. ViewInv'
  BY <1>2, <1>3, <1>4 DEF ViewInv, InRoom
<1>6. socks[c].open /\ stored # None => Rejoining(c)'
  BY <1>1, OnConnectFacts DEF Rejoining
<1>7. socks[c].open => \A x \in Members(down'[c]) : ~Grants(x)
  BY <1>1, <1>2, <1>3 DEF HereInv
<1>8. GreenInv'
  BY <1>2, <1>6, <1>7 DEF GreenInv
<1> QED BY <1>5, <1>8

LEMMA ReceiveKeeps ==
    ASSUME PhoneInv, Receive
    PROVE  PhoneInv'
<1>1. CASE OnConnect
  <2>1. RoomInv'
    <3>1. event' = event /\ state' = state /\ players' = players /\ issued' = issued
      BY <1>1, OnConnectFacts DEF PhoneInv
    <3> QED BY <3>1 DEF PhoneInv, RoomInv
  <2> QED BY <1>1, <2>1, OnConnectPage, OnConnectWire, OnConnectHere, OnConnectView DEF PhoneInv
<1>2. CASE Heeds(page.conn, Arrived)
  <2>1. PICK c, m : c = page.conn /\ m = Arrived
    OBVIOUS
  <2>2. Heeds(c, m)
    BY <1>2, <2>1
  <2>3. RoomInv'
    <3>1. event' = event /\ state' = state /\ players' = players /\ issued' = issued
      BY <2>2, HeedsStays DEF PhoneInv
    <3> QED BY <3>1 DEF PhoneInv, RoomInv
  <2> QED BY <2>2, <2>3, HeedsPage, HeedsWire, HeedsHere, HeedsJoin, HeedsView, HeedsGreen
          DEF PhoneInv
<1> QED BY <1>1, <1>2, ReceiveHeeds DEF PhoneInv
-----------------------------------------------------------------------------
(* The player *)

(* A tap asks over the page's connection, and marks no cell but the one it
   asks about.                                                             *)
LEMMA TapKeeps ==
    ASSUME PhoneInv, NEW m \in Requests, m.t # "room:rejoin", NEW p \in Pages, Tap(m, p),
           page.connected, p.connected, p.conn = page.conn, p.pid = page.pid,
           p.joined = page.joined, p.view = page.view,
           \A k \in Cells : Asks(m, k) \/ p.cells[k] = page.cells[k]
    PROVE  PhoneInv'
<1>1. PICK c : c = page.conn
  OBVIOUS
<1>2. c \in Conns /\ c = used /\ used \in 0..MaxConns
  BY <1>1 DEF PhoneInv, PageInv, Pages
<1>3. /\ event' = event /\ state' = state /\ players' = players /\ issued' = issued
      /\ socks' = socks /\ playerSockets' = playerSockets /\ down' = down /\ stored' = stored
      /\ used' = used /\ page' = p
      /\ ignored' = IF m.t = "room:join" THEN ignored ELSE ignored \ {m.k}
      /\ Emit(m)
  BY DEF Tap, host, room
<1>5. \A k \in Cells : k \notin ignored' => k \notin ignored \/ Asks(m, k)
  BY <1>3, RequestKinds DEF Asks
<1>6. /\ up \in [Conns -> Seq(Requests)] /\ down \in [Conns -> Seq(Messages)]
      /\ socks \in [Conns -> Sockets]
  BY DEF PhoneInv, WireInv
<1>7. /\ up' \in [Conns -> Seq(Requests)]
      /\ \A d \in Conns \ {c} : up'[d] = up[d]
      /\ ~socks[c].open => up'[c] = up[c]
      /\ Members(up'[c]) \subseteq Members(up[c]) \cup {m}
      /\ Members(up[c]) \subseteq Members(up'[c])
      /\ socks[c].open => m \in Members(up'[c])
      /\ up[c] # <<>> => up'[c] # <<>> /\ Head(up'[c]) = Head(up[c])
      /\ up[c] = <<>> /\ up'[c] # <<>> => Head(up'[c]) = m
      /\ Later(up'[c]) \subseteq Later(up[c]) \cup {m}
  <2>1. CASE socks[c].open
    <3>1. PICK s \in Seq(Requests) : s = up[c]
      BY <1>2, <1>6
    <3>2. PICK u : u = s \o <<m>>
      OBVIOUS
    <3>3. up' = [up EXCEPT ![c] = Append(up[c], m)]
      BY <1>1, <1>3, <2>1 DEF Emit
    <3>4. Append(s, m) = u
      BY <3>2
    <3>5. PICK w : w = <<m>>
      OBVIOUS
    <3>6. /\ u \in Seq(Requests)
          /\ Members(u) = Members(s) \cup {m}
          /\ Later(u) \subseteq Later(s) \cup {m}
          /\ s # <<>> => u # <<>> /\ Head(u) = Head(s)
          /\ s = <<>> => u # <<>> /\ Head(u) = m
      <4>1. w \in Seq(Requests) /\ Members(w) = {m} /\ w # <<>> /\ Head(w) = m
        BY <3>5, MembersOne
      <4>2. u = s \o w
        BY <3>2, <3>5
      <4>3. /\ u \in Seq(Requests)
            /\ Members(u) = Members(s) \cup Members(w)
            /\ Later(u) \subseteq Later(s) \cup Members(w)
            /\ s # <<>> => u # <<>> /\ Head(u) = Head(s)
            /\ s = <<>> => u = w
        BY <4>1, <4>2, MembersConcat
      <4> QED BY <4>1, <4>3
    <3>7. /\ up' \in [Conns -> Seq(Requests)] /\ up'[c] = u
          /\ \A d \in Conns \ {c} : up'[d] = up[d]
      BY <1>2, <1>6, <3>1, <3>3, <3>4, <3>6
    <3> QED BY <2>1, <3>1, <3>6, <3>7
  <2>2. CASE ~socks[c].open
    <3>1. up' = up
      BY <1>1, <1>3, <2>2 DEF Emit
    <3> QED BY <2>2, <3>1, <1>6
  <2> QED BY <2>1, <2>2
<1>8. RoomInv'
  BY <1>3 DEF PhoneInv, RoomInv
<1>9. PageInv'
  BY <1>1, <1>2, <1>3, NumberFacts DEF PhoneInv, PageInv
<1>10. WireInv'
  <2>1. ASSUME NEW d \in Conns
        PROVE  /\ socks[d].playerId # None => socks[d].playerId \in 1..issued
               /\ d > used => socks[d] = Closed /\ down[d] = <<>>
               /\ up'[d] # <<>> => d = used /\ socks[d].open
               /\ ~(down[d] # <<>> /\ Head(down[d]).t = "connect")
               /\ \A x \in Later(down[d]) : x.t # "connect"
               /\ \A x \in Members(down[d]) : x.t = "ack" => x.id \in {None} \cup 1..issued
               /\ up'[d] # <<>> /\ Head(up'[d]).t = "room:rejoin" =>
                     Head(up'[d]).id \in 1..issued /\ socks[d] = Fresh
               /\ \A x \in Later(up'[d]) : x.t # "room:rejoin"
    <3>1. /\ socks[d].playerId # None => socks[d].playerId \in 1..issued
          /\ d > used => socks[d] = Closed /\ down[d] = <<>>
          /\ ~(down[d] # <<>> /\ Head(down[d]).t = "connect")
          /\ \A x \in Later(down[d]) : x.t # "connect"
          /\ \A x \in Members(down[d]) : x.t = "ack" => x.id \in {None} \cup 1..issued
      BY DEF PhoneInv, WireInv
    <3>2. /\ up[d] # <<>> => d = used /\ socks[d].open
          /\ up[d] # <<>> /\ Head(up[d]).t = "room:rejoin" =>
                Head(up[d]).id \in 1..issued /\ socks[d] = Fresh
          /\ \A x \in Later(up[d]) : x.t # "room:rejoin"
      BY DEF PhoneInv, WireInv
    <3>3. CASE d = c
      BY <3>1, <3>2, <3>3, <1>2, <1>7
    <3>4. CASE d # c
      BY <3>1, <3>2, <3>4, <1>7
    <3> QED BY <3>3, <3>4
  <2> QED BY <2>1, <1>3, <1>6, <1>7 DEF WireInv, Fresh, Closed
<1>11. ASSUME NEW d \in Conns, Rejoining(d) PROVE Rejoining(d)' /\ Head(up'[d]) = Head(up[d])
  <2>1. up[d] # <<>> /\ Head(up[d]).t = "room:rejoin"
    BY <1>11 DEF Rejoining
  <2>2. up'[d] # <<>> /\ Head(up'[d]) = Head(up[d])
    BY <2>1, <1>7
  <2> QED BY <2>1, <2>2 DEF Rejoining
<1>12. HereInv'
  <2>1. RegisteredSocketIsOpen' /\ playerSockets' \in [Ids -> Conns \cup {None}]
    BY <1>3 DEF PhoneInv, HereInv, RegisteredSocketIsOpen
  <2>2. ASSUME NEW d \in Conns, socks[d].open
        PROVE  /\ d = used /\ socks[d].playerId # None => playerSockets[socks[d].playerId] = d
               /\ d = page.conn /\ page.pid # None =>
                     socks[d].playerId = page.pid \/ (Rejoining(d)' /\ Head(up'[d]).id = page.pid)
               /\ \A x \in Members(down[d]) :
                     d = page.conn /\ Grants(x) => x.id # None /\ x.id = socks[d].playerId
    BY <2>2, <1>11 DEF PhoneInv, HereInv
  <2> QED BY <1>3, <2>1, <2>2 DEF HereInv
<1>13. JoinInv'
  BY <1>3, <1>11 DEF PhoneInv, JoinInv
<1>14. ViewInv'
  BY <1>3 DEF PhoneInv, ViewInv, InRoom
<1>15. GreenInv'
  <2> SUFFICES ASSUME NEW k \in Cells, socks[c].open, p.cells[k] \in Markers, k \notin ignored'
               PROVE  /\ page.pid # None =>
                            \/ Heals(c, k)'
                            \/ Rejoining(c)'
                            \/ \E x \in Members(down[c]) : AnswersRejoin(x) /\ ~x.ok
                      /\ (\E x \in Members(down[c]) : Grants(x)) => Heals(c, k)'
    <3>1. /\ page' = p /\ socks' = socks /\ down' = down /\ p.conn = c
      BY <1>1, <1>3
    <3> QED BY <3>1 DEF GreenInv
  <2>1. CASE Asks(m, k)
    <3>1. Heals(c, k)'
      BY <2>1, <1>7 DEF Heals
    <3> QED BY <3>1
  <2>2. CASE ~Asks(m, k)
    <3>1. page.cells[k] \in Markers /\ k \notin ignored
      BY <2>2, <1>5
    <3>2. /\ page.pid # None =>
                \/ Heals(c, k)
                \/ Rejoining(c)
                \/ \E x \in Members(down[c]) : AnswersRejoin(x) /\ ~x.ok
          /\ (\E x \in Members(down[c]) : Grants(x)) => Heals(c, k)
      BY <1>1, <1>2, <3>1 DEF PhoneInv, GreenInv
    <3>3. Heals(c, k) => Heals(c, k)'
      BY <1>3, <1>7 DEF Heals
    <3> QED BY <1>2, <1>11, <3>2, <3>3
  <2> QED BY <2>1, <2>2
<1> QED BY <1>8, <1>9, <1>10, <1>12, <1>13, <1>14, <1>15 DEF PhoneInv
LEMMA JoinKeeps ==
    ASSUME PhoneInv, Join
    PROVE  PhoneInv'
<1>1. PICK m : m = [t |-> "room:join"]
  OBVIOUS
<1>2. PICK p : p = [page EXCEPT !.busy = TRUE]
  OBVIOUS
<1>3. m \in Requests /\ m.t = "room:join" /\ \A k \in Cells : ~Asks(m, k)
  BY <1>1 DEF Requests, Asks
<1>4. page \in Pages
  BY DEF PhoneInv, PageInv
<1>5. page.connected
  BY <1>4, NotConnected DEF Join, Pages
<1>6. /\ p \in Pages /\ p.connected = page.connected /\ p.conn = page.conn /\ p.pid = page.pid
      /\ p.joined = page.joined /\ p.view = page.view /\ p.cells = page.cells
  BY <1>2, <1>4 DEF Pages
<1>7. Tap(m, p)
  BY <1>1, <1>2 DEF Join
<1> QED BY <1>3, <1>5, <1>6, <1>7, TapKeeps

LEMMA CellKeeps ==
    ASSUME PhoneInv, NEW k \in Cells, Fill(k) \/ Pick(k) \/ Clear(k)
    PROVE  PhoneInv'
<1>1. page \in Pages /\ k # None /\ {"filling", "clearing"} \subseteq Marks
      /\ (page.sheet # None => page.connected)
  BY NullFacts DEF PhoneInv, PageInv, Marks, Markers
<1>3. CASE Fill(k)
  <2>1. PICK q : q = Marked(page, k, "filling")
    OBVIOUS
  <2>2. PICK p : p = [q EXCEPT !.sheet = None, !.picker = IF @ = k THEN None ELSE @]
    OBVIOUS
  <2>3. PICK m : m = [t |-> "fill", k |-> k]
    OBVIOUS
  <2>4. m \in Requests /\ m.t # "room:rejoin" /\ Asks(m, k)
    BY <2>3 DEF Requests, Asks
  <2>5. /\ q \in Pages /\ q.conn = page.conn /\ q.connected = page.connected /\ q.pid = page.pid
        /\ q.joined = page.joined /\ q.view = page.view
        /\ \A j \in Cells \ {k} : q.cells[j] = page.cells[j]
    BY <1>1, <2>1, MarkedFacts
  <2>6. /\ p \in Pages /\ p.conn = page.conn /\ p.connected = page.connected /\ p.pid = page.pid
        /\ p.joined = page.joined /\ p.view = page.view
        /\ \A j \in Cells \ {k} : p.cells[j] = page.cells[j]
    BY <2>2, <2>5 DEF Pages
  <2>7. Tap(m, p)
    BY <1>3, <2>1, <2>2, <2>3 DEF Fill
  <2>8. page.connected
    BY <1>1, <1>3 DEF Fill, Offers
  <2>9. \A j \in Cells : Asks(m, j) \/ p.cells[j] = page.cells[j]
    BY <2>4, <2>6
  <2> QED BY <2>4, <2>6, <2>7, <2>8, <2>9, TapKeeps
<1>4. CASE Clear(k)
  <2>1. PICK q : q = Marked(page, k, "clearing")
    OBVIOUS
  <2>2. PICK p : p = [q EXCEPT !.sheet = None]
    OBVIOUS
  <2>3. PICK m : m = [t |-> "clear", k |-> k]
    OBVIOUS
  <2>4. m \in Requests /\ m.t # "room:rejoin" /\ Asks(m, k)
    BY <2>3 DEF Requests, Asks
  <2>5. /\ q \in Pages /\ q.conn = page.conn /\ q.connected = page.connected /\ q.pid = page.pid
        /\ q.joined = page.joined /\ q.view = page.view
        /\ \A j \in Cells \ {k} : q.cells[j] = page.cells[j]
    BY <1>1, <2>1, MarkedFacts
  <2>6. /\ p \in Pages /\ p.conn = page.conn /\ p.connected = page.connected /\ p.pid = page.pid
        /\ p.joined = page.joined /\ p.view = page.view
        /\ \A j \in Cells \ {k} : p.cells[j] = page.cells[j]
    BY <2>2, <2>5 DEF Pages
  <2>7. Tap(m, p)
    BY <1>4, <2>1, <2>2, <2>3 DEF Clear
  <2>8. page.connected
    BY <1>1, <1>4 DEF Clear, Offers
  <2>9. \A j \in Cells : Asks(m, j) \/ p.cells[j] = page.cells[j]
    BY <2>4, <2>6
  <2> QED BY <2>4, <2>6, <2>7, <2>8, <2>9, TapKeeps
<1>5. CASE Pick(k)
  <2>1. PICK q : q = Marked(page, k, "filling")
    OBVIOUS
  <2>2. PICK p : p = [q EXCEPT !.picker = None]
    OBVIOUS
  <2>3. PICK m : m = [t |-> "pick", k |-> k]
    OBVIOUS
  <2>4. m \in Requests /\ m.t # "room:rejoin" /\ Asks(m, k)
    BY <2>3 DEF Requests, Asks
  <2>5. /\ q \in Pages /\ q.conn = page.conn /\ q.connected = page.connected /\ q.pid = page.pid
        /\ q.joined = page.joined /\ q.view = page.view
        /\ \A j \in Cells \ {k} : q.cells[j] = page.cells[j]
    BY <1>1, <2>1, MarkedFacts
  <2>6. /\ p \in Pages /\ p.conn = page.conn /\ p.connected = page.connected /\ p.pid = page.pid
        /\ p.joined = page.joined /\ p.view = page.view
        /\ \A j \in Cells \ {k} : p.cells[j] = page.cells[j]
    BY <2>2, <2>5 DEF Pages
  <2>7. Tap(m, p)
    BY <1>5, <2>1, <2>2, <2>3 DEF Pick
  <2>8. page.connected
    BY <1>1, <1>5, NotConnected DEF Pick, Pages
  <2>9. \A j \in Cells : Asks(m, j) \/ p.cells[j] = page.cells[j]
    BY <2>4, <2>6
  <2> QED BY <2>4, <2>6, <2>7, <2>8, <2>9, TapKeeps
<1> QED BY <1>3, <1>4, <1>5

(* A page that only opens or closes a sheet.                               *)
LEMMA LookKeeps ==
    ASSUME PhoneInv, NEW p \in Pages, page' = p, page.connected,
           p.conn = page.conn, p.connected = page.connected, p.pid = page.pid,
           p.joined = page.joined, p.view = page.view,
           \A k \in Cells : p.cells[k] \in Markers => page.cells[k] \in Markers,
           UNCHANGED <<host, wires, stored, ignored, bounds>>
    PROVE  PhoneInv'
<1>1. /\ event' = event /\ state' = state /\ players' = players /\ issued' = issued
      /\ socks' = socks /\ playerSockets' = playerSockets /\ up' = up /\ down' = down
      /\ stored' = stored /\ ignored' = ignored /\ used' = used
  BY DEF host, room, wires, bounds
<1>2. RoomInv'
  BY <1>1 DEF PhoneInv, RoomInv
<1>3. PageInv'
  BY <1>1 DEF PhoneInv, PageInv
<1>4. WireInv'
  BY <1>1 DEF PhoneInv, WireInv
<1>5. RegisteredSocketIsOpen'
  BY <1>1 DEF PhoneInv, HereInv, RegisteredSocketIsOpen
<1>6. \A d \in Conns : Rejoining(d)' <=> Rejoining(d)
  BY <1>1 DEF Rejoining
<1>7. HereInv'
  BY <1>1, <1>5, <1>6 DEF PhoneInv, HereInv
<1>8. JoinInv'
  BY <1>1, <1>6 DEF PhoneInv, JoinInv
<1>9. ViewInv'
  BY <1>1 DEF PhoneInv, ViewInv, InRoom
<1>10. \A d \in Conns, k \in Cells : Heals(d, k)' <=> Heals(d, k)
  BY <1>1 DEF Heals
<1>11. GreenInv'
  BY <1>1, <1>6, <1>10 DEF PhoneInv, GreenInv
<1> QED BY <1>2, <1>3, <1>4, <1>7, <1>8, <1>9, <1>11 DEF PhoneInv

LEMMA SheetKeeps ==
    ASSUME PhoneInv, CloseSheet \/ \E k \in Cells : OpenSheet(k)
    PROVE  PhoneInv'
<1>1. page \in Pages
  BY DEF PhoneInv, PageInv
<1>2. page.connected
  BY <1>1, NotConnected DEF CloseSheet, OpenSheet, Pages
<1>3. CASE CloseSheet
  <2>1. PICK p : page' = p /\ (p = [page EXCEPT !.sheet = None] \/ p = [page EXCEPT !.picker = None])
    BY <1>3 DEF CloseSheet
  <2>2. /\ p \in Pages /\ p.conn = page.conn /\ p.connected = page.connected /\ p.pid = page.pid
        /\ p.joined = page.joined /\ p.view = page.view /\ p.cells = page.cells
    BY <1>1, <2>1 DEF Pages
  <2> QED BY <1>2, <1>3, <2>1, <2>2, LookKeeps DEF CloseSheet
<1>4. CASE \E k \in Cells : OpenSheet(k)
  <2>1. PICK k \in Cells : OpenSheet(k)
    BY <1>4
  <2>2. PICK q : q = Marked(page, k, None)
    OBVIOUS
  <2>3. PICK p : p = [q EXCEPT !.sheet = k]
    OBVIOUS
  <2>4. None \in Marks /\ None \notin Markers
    BY NullFacts DEF Marks
  <2>5. /\ q \in Pages /\ q.conn = page.conn /\ q.connected = page.connected /\ q.pid = page.pid
        /\ q.joined = page.joined /\ q.view = page.view
        /\ q.cells[k] = None /\ \A j \in Cells \ {k} : q.cells[j] = page.cells[j]
    BY <1>1, <2>2, <2>4, MarkedFacts
  <2>6. /\ p \in Pages /\ p.conn = page.conn /\ p.connected = page.connected /\ p.pid = page.pid
        /\ p.joined = page.joined /\ p.view = page.view /\ p.cells = q.cells
    BY <2>3, <2>5 DEF Pages
  <2>7. page' = p /\ UNCHANGED <<host, wires, stored, ignored, bounds>>
    BY <2>1, <2>2, <2>3 DEF OpenSheet
  <2>8. \A j \in Cells : p.cells[j] \in Markers => page.cells[j] \in Markers
    BY <2>4, <2>5, <2>6
  <2> QED BY <1>2, <2>6, <2>7, <2>8, LookKeeps
<1> QED BY <1>3, <1>4

LEMMA PlayerKeeps ==
    ASSUME PhoneInv, Player
    PROVE  PhoneInv'
BY JoinKeeps, CellKeeps, SheetKeeps DEF Player
-----------------------------------------------------------------------------
(* Connections begin and end *)

LEMMA SocketFacts ==
    /\ Closed \in Sockets /\ ~Closed.open /\ Closed.playerId = None
    /\ Fresh \in Sockets /\ Fresh.open /\ Fresh.playerId = None /\ Fresh.tokens = BURST
<1>1. BURST \in 0..BURST
  BY PhoneBounds
<1>2. Closed \in Sockets /\ ~Closed.open /\ Closed.playerId = None /\ Closed.tokens = BURST
  BY <1>1 DEF Closed, Sockets
<1>3. PICK x : x = Closed
  OBVIOUS
<1>4. Fresh = [x EXCEPT !.open = TRUE]
  BY <1>3 DEF Fresh
<1>5. x \in Sockets /\ x.playerId = None /\ x.tokens = BURST
  BY <1>2, <1>3
<1> QED BY <1>2, <1>4, <1>5 DEF Sockets

LEMMA ConnectKeeps ==
    ASSUME PhoneInv, Connect
    PROVE  PhoneInv'
<1>1. PICK c : c = used + 1
  OBVIOUS
<1>2. /\ page.conn = None /\ used < MaxConns
      /\ page' = [page EXCEPT !.conn = c]
      /\ socks' = [socks EXCEPT ![c] = Fresh]
      /\ down' = [down EXCEPT ![c] = <<[t |-> "connect"]>> \o Summary(event, state, players, None)]
      /\ up' = [d \in Conns |-> <<>>]
      /\ used' = c
  BY <1>1 DEF Connect, Fresh
<1>3. /\ event' = event /\ state' = state /\ players' = players /\ issued' = issued
      /\ playerSockets' = playerSockets /\ stored' = stored /\ ignored' = ignored
  BY DEF Connect, room
<1>4. used \in 0..MaxConns /\ c \in Conns /\ c > used /\ c # None
  BY <1>1, <1>2, NumberFacts DEF PhoneInv, PageInv, Conns
<1>5. /\ page' \in Pages /\ page'.conn = c /\ ~page'.connected /\ page'.pid = page.pid
      /\ page'.sheet = page.sheet /\ ~page.connected
  BY <1>2, <1>4 DEF PhoneInv, PageInv, Pages
<1>6. Fresh \in Sockets /\ Fresh.open /\ Fresh.playerId = None
  BY SocketFacts
<1>7. socks' \in [Conns -> Sockets] /\ socks'[c] = Fresh /\ \A d \in Conns \ {c} : socks'[d] = socks[d]
  BY <1>2, <1>4, <1>6 DEF PhoneInv, WireInv
<1>8. socks[c] = Closed /\ ~socks[c].open
  BY <1>4 DEF PhoneInv, WireInv, Closed
<1>9. PICK m : m = [t |-> "connect"]
  OBVIOUS
<1>10. PICK w : w = <<m>>
  OBVIOUS
<1>11. w \in Seq(Messages) /\ Members(w) = {m} /\ Later(w) = {} /\ w # <<>> /\ Head(w) = m
  BY <1>9, <1>10, MembersOne DEF Messages, Plain
<1>12. PICK s : s = Summary(event, state, players, None)
  OBVIOUS
<1>13. IsNews(s)
  <2>1. event \in BOOLEAN /\ state \in States /\ IsRoster(players)
    BY DEF PhoneInv, RoomInv
  <2>2. IsNews(Summary(TRUE, state, players, None))
    BY <2>1, SummaryNews
  <2>3. IsNews(Summary(FALSE, None, players, None))
    BY <2>1, SummaryNews
  <2>4. ~event => Summary(FALSE, None, players, None) = s
    BY <1>12 DEF Summary
  <2>5. event => event = TRUE
    BY <2>1
  <2> QED BY <2>2, <2>3, <2>4, <2>5, <1>12
<1>14. PICK u : u = w \o s
  OBVIOUS
<1>15. /\ u \in Seq(Messages) /\ Members(u) = {m} \cup Members(s) /\ Later(u) \subseteq Members(s)
       /\ u # <<>> /\ Head(u) = m
  BY <1>11, <1>13, <1>14, MembersConcat DEF IsNews
<1>16. \A x \in Members(s) : x.t # "connect" /\ x.t # "ack"
  BY <1>13 DEF IsNews
<1>17. m.t = "connect"
  BY <1>9
<1>18. down' \in [Conns -> Seq(Messages)] /\ down'[c] = u /\ \A d \in Conns \ {c} : down'[d] = down[d]
  BY <1>2, <1>4, <1>9, <1>10, <1>12, <1>14, <1>15 DEF PhoneInv, WireInv
<1>19. up' \in [Conns -> Seq(Requests)] /\ \A d \in Conns : up'[d] = <<>> /\ Later(up'[d]) = {}
  BY <1>2, MembersNone
<1>20. RoomInv'
  BY <1>3 DEF PhoneInv, RoomInv
<1>21. PageInv'
  <2>1. used' \in 0..MaxConns
    BY <1>2, <1>4, NumberFacts DEF Conns
  <2> QED BY <1>2, <1>3, <1>5, <2>1 DEF PhoneInv, PageInv
<1>22. WireInv'
  <2>1. ASSUME NEW d \in Conns
        PROVE  /\ socks'[d].playerId # None => socks'[d].playerId \in 1..issued
               /\ d > c => socks'[d] = Closed /\ down'[d] = <<>>
               /\ up'[d] = <<>>
               /\ down'[d] # <<>> /\ Head(down'[d]).t = "connect" =>
                     c = d /\ (socks'[d].open => socks'[d] = Fresh)
               /\ \A x \in Later(down'[d]) : x.t # "connect"
               /\ \A x \in Members(down'[d]) : x.t = "ack" => x.id \in {None} \cup 1..issued
               /\ \A x \in Later(up'[d]) : x.t # "room:rejoin"
    <3>1. CASE d = c
      <4>1. socks'[d] = Fresh /\ ~(d > c)
        BY <3>1, <1>7, <1>4 DEF Conns
      <4>2. /\ \A x \in Later(down'[d]) : x.t # "connect"
            /\ \A x \in Members(down'[d]) : x.t # "ack"
        BY <3>1, <1>15, <1>16, <1>17, <1>18
      <4>3. up'[d] = <<>> /\ Later(up'[d]) = {}
        BY <1>19
      <4> QED BY <3>1, <4>1, <4>2, <4>3, <1>6
    <3>2. CASE d # c
      <4>1. socks'[d] = socks[d] /\ down'[d] = down[d]
        BY <3>2, <1>7, <1>18
      <4>2. d > c => d > used
        BY <1>1, <1>4 DEF Conns
      <4>3. ~(down[d] # <<>> /\ Head(down[d]).t = "connect")
        BY <1>2, NumberFacts DEF PhoneInv, WireInv
      <4>4. /\ socks[d].playerId # None => socks[d].playerId \in 1..issued
            /\ d > used => socks[d] = Closed /\ down[d] = <<>>
            /\ \A x \in Later(down[d]) : x.t # "connect"
            /\ \A x \in Members(down[d]) : x.t = "ack" => x.id \in {None} \cup 1..issued
        BY DEF PhoneInv, WireInv
      <4> QED BY <4>1, <4>2, <4>3, <4>4, <1>19
    <3> QED BY <3>1, <3>2
  <2> QED BY <2>1, <1>2, <1>3, <1>5, <1>7, <1>18, <1>19 DEF WireInv, Fresh, Closed
<1>23. HereInv'
  <2>1. RegisteredSocketIsOpen'
    <3> SUFFICES ASSUME NEW id \in Ids, playerSockets[id] # None
                 PROVE  socks'[playerSockets[id]].open /\ socks'[playerSockets[id]].playerId = id
      BY <1>3 DEF RegisteredSocketIsOpen
    <3>1. /\ socks[playerSockets[id]].open /\ socks[playerSockets[id]].playerId = id
          /\ playerSockets[id] \in Conns
      BY DEF PhoneInv, HereInv, RegisteredSocketIsOpen
    <3> QED BY <3>1, <1>7, <1>8
  <2>2. ASSUME NEW d \in Conns
        PROVE  /\ d = c => socks'[d].playerId = None
               /\ \A x \in Members(down'[d]) : d = c => ~Grants(x)
    BY <1>6, <1>7, <1>15, <1>16, <1>17, <1>18 DEF Grants
  <2>3. playerSockets' \in [Ids -> Conns \cup {None}]
    BY <1>3 DEF PhoneInv, HereInv
  <2> QED BY <2>1, <2>2, <2>3, <1>2, <1>5 DEF HereInv
<1>24. JoinInv'
  BY <1>5 DEF JoinInv
<1>25. ViewInv'
  <2>1. None \notin DOMAIN players
    BY NumberFacts DEF PhoneInv, RoomInv, IsRoster
  <2> QED BY <2>1, <1>3, <1>5, <1>6, <1>7 DEF ViewInv, InRoom
<1>26. GreenInv'
  <2>1. \A x \in Members(down'[c]) : ~Grants(x)
    BY <1>15, <1>16, <1>17, <1>18 DEF Grants
  <2> QED BY <2>1, <1>5 DEF GreenInv
<1> QED BY <1>20, <1>21, <1>22, <1>23, <1>24, <1>25, <1>26 DEF PhoneInv

LEMMA LoseKeeps ==
    ASSUME PhoneInv, NEW p, Lose(p), p = page \/ p = NewPage
    PROVE  PhoneInv'
<1>1. PICK c : c = page.conn
  OBVIOUS
<1>2. PICK q : q = [p EXCEPT !.conn = None, !.connected = FALSE]
  OBVIOUS
<1>3. /\ page' = Shown(q) /\ down' = [down EXCEPT ![c] = <<>>] /\ c # None
  BY <1>1, <1>2 DEF Lose
<1>4. /\ event' = event /\ state' = state /\ players' = players /\ issued' = issued
      /\ socks' = socks /\ playerSockets' = playerSockets /\ up' = up
      /\ stored' = stored /\ ignored' = ignored /\ used' = used
  BY DEF Lose, host, room, bounds
<1>5. q \in Pages /\ q.conn = None /\ ~q.connected /\ (q.pid = page.pid \/ q.pid = None)
  BY <1>2, NewPageType DEF PhoneInv, PageInv, Pages
<1>6. /\ page' \in Pages /\ page'.conn = None /\ ~page'.connected /\ page'.sheet = None
      /\ page'.pid = page.pid \/ page'.pid = None
  BY <1>3, <1>5, ShownFacts DEF Alike
<1>7. c \in Conns /\ page \in Pages
  BY <1>1, <1>3 DEF PhoneInv, PageInv, Pages
<1>8. down' \in [Conns -> Seq(Messages)] /\ down'[c] = <<>> /\ \A d \in Conns \ {c} : down'[d] = down[d]
  BY <1>3, <1>7 DEF PhoneInv, WireInv
<1>9. RoomInv'
  BY <1>4 DEF PhoneInv, RoomInv
<1>10. PageInv'
  BY <1>4, <1>6 DEF PhoneInv, PageInv
<1>11. WireInv'
  <2>1. ASSUME NEW d \in Conns
        PROVE  /\ socks[d].playerId # None => socks[d].playerId \in 1..issued
               /\ d > used => socks[d] = Closed /\ down'[d] = <<>>
               /\ up[d] # <<>> => d = used /\ socks[d].open
               /\ ~(down'[d] # <<>> /\ Head(down'[d]).t = "connect")
               /\ \A x \in Later(down'[d]) : x.t # "connect"
               /\ \A x \in Members(down'[d]) : x.t = "ack" => x.id \in {None} \cup 1..issued
               /\ up[d] # <<>> /\ Head(up[d]).t = "room:rejoin" =>
                     Head(up[d]).id \in 1..issued /\ socks[d] = Fresh
               /\ \A x \in Later(up[d]) : x.t # "room:rejoin"
    <3>1. /\ socks[d].playerId # None => socks[d].playerId \in 1..issued
          /\ d > used => socks[d] = Closed /\ down[d] = <<>>
          /\ up[d] # <<>> => d = used /\ socks[d].open
          /\ up[d] # <<>> /\ Head(up[d]).t = "room:rejoin" =>
                Head(up[d]).id \in 1..issued /\ socks[d] = Fresh
          /\ \A x \in Later(up[d]) : x.t # "room:rejoin"
      BY DEF PhoneInv, WireInv
    <3>2. CASE d = c
      BY <3>1, <3>2, <1>8, MembersNone
    <3>3. CASE d # c
      <4>1. down'[d] = down[d]
        BY <3>3, <1>8
      <4>2. /\ ~(down[d] # <<>> /\ Head(down[d]).t = "connect")
            /\ \A x \in Later(down[d]) : x.t # "connect"
            /\ \A x \in Members(down[d]) : x.t = "ack" => x.id \in {None} \cup 1..issued
        BY <1>1, <3>3 DEF PhoneInv, WireInv
      <4> QED BY <3>1, <4>1, <4>2
    <3> QED BY <3>2, <3>3
  <2>2. socks \in [Conns -> Sockets] /\ up \in [Conns -> Seq(Requests)]
    BY DEF PhoneInv, WireInv
  <2> QED BY <2>1, <2>2, <1>4, <1>8 DEF WireInv, Fresh, Closed
<1>12. \A d \in Conns : d # page'.conn
  BY <1>6, NumberFacts
<1>13. HereInv'
  <2>1. RegisteredSocketIsOpen' /\ playerSockets' \in [Ids -> Conns \cup {None}]
    BY <1>4 DEF PhoneInv, HereInv, RegisteredSocketIsOpen
  <2>2. \A d \in Conns : socks[d].open =>
           (d = used /\ socks[d].playerId # None => playerSockets[socks[d].playerId] = d)
    BY DEF PhoneInv, HereInv
  <2> QED BY <2>1, <2>2, <1>4, <1>12 DEF HereInv
<1>14. JoinInv' /\ ViewInv' /\ GreenInv'
  BY <1>12 DEF JoinInv, ViewInv, GreenInv
<1> QED BY <1>9, <1>10, <1>11, <1>13, <1>14 DEF PhoneInv
(* A player goes away, or comes back.                                      *)
Presence(ps, id, b) == [ps EXCEPT ![id].connected = b]

LEMMA MarkPresence ==
    ASSUME NEW ps, IsRoster(ps), NEW id, id \in DOMAIN ps, NEW b \in BOOLEAN,
           NEW new, new = Presence(ps, id, b)
    PROVE  /\ IsRoster(new) /\ DOMAIN new = DOMAIN ps
           /\ \A x \in DOMAIN ps : new[x].fills = ps[x].fills
<1>1. PICK old : old = ps[id]
  OBVIOUS
<1>2. PICK r : r = [old EXCEPT !.connected = b]
  OBVIOUS
<1>3. r \in Players /\ r.fills = old.fills
  BY <1>1, <1>2 DEF IsRoster, Players
<1>4. new = [ps EXCEPT ![id] = r]
  BY <1>1, <1>2 DEF Presence
<1>5. DOMAIN new = DOMAIN ps /\ \A x \in DOMAIN ps : new[x] = IF x = id THEN r ELSE ps[x]
  BY <1>4
<1> QED BY <1>1, <1>3, <1>5 DEF IsRoster

LEMMA DisconnectKeeps ==
    ASSUME PhoneInv, NEW c \in Conns, Disconnect(c)
    PROVE  PhoneInv'
<1>1. /\ socks' = [socks EXCEPT ![c] = Closed] /\ up' = [up EXCEPT ![c] = <<>>]
      /\ playerSockets' = [id \in Ids |-> IF playerSockets[id] = c THEN None ELSE playerSockets[id]]
      /\ event' = event /\ state' = state /\ issued' = issued /\ down' = down /\ page' = page
      /\ stored' = stored /\ ignored' = ignored /\ used' = used /\ socks[c].open
  BY DEF Disconnect, Forgotten, bounds
<1>2. IsRoster(players') /\ DOMAIN players' = DOMAIN players
      /\ \A x \in DOMAIN players : players'[x].fills = players[x].fills
  <2>1. IsRoster(players)
    BY DEF PhoneInv, RoomInv
  <2>2. PICK id : id = socks[c].playerId
    OBVIOUS
  <2>3. CASE InRoom(id) /\ state # "SETUP"
    <3>1. players' = [players EXCEPT ![id].connected = FALSE]
      BY <2>2, <2>3 DEF Disconnect
    <3>2. id \in DOMAIN players /\ FALSE \in BOOLEAN
      BY <2>3 DEF InRoom
    <3>3. PICK b \in BOOLEAN : b = FALSE
      OBVIOUS
    <3>4. players' = Presence(players, id, b)
      BY <3>1, <3>3 DEF Presence
    <3> QED BY <2>1, <3>2, <3>4, MarkPresence
  <2>4. CASE ~(InRoom(id) /\ state # "SETUP")
    <3>1. players' = players
      BY <2>2, <2>4 DEF Disconnect
    <3> QED BY <2>1, <3>1
  <2> QED BY <2>3, <2>4
<1>3. /\ socks' \in [Conns -> Sockets] /\ socks'[c] = Closed
      /\ \A d \in Conns \ {c} : socks'[d] = socks[d]
      /\ up' \in [Conns -> Seq(Requests)] /\ up'[c] = <<>>
      /\ \A d \in Conns \ {c} : up'[d] = up[d]
  BY <1>1, SocketFacts DEF PhoneInv, WireInv
<1>4. RoomInv'
  BY <1>1, <1>2 DEF PhoneInv, RoomInv
<1>5. PageInv'
  BY <1>1 DEF PhoneInv, PageInv
<1>6. WireInv'
  <2>1. ASSUME NEW d \in Conns
        PROVE  /\ socks'[d].playerId # None => socks'[d].playerId \in 1..issued
               /\ d > used => socks'[d] = Closed /\ down[d] = <<>>
               /\ up'[d] # <<>> => d = used /\ socks'[d].open
               /\ down[d] # <<>> /\ Head(down[d]).t = "connect" =>
                     page.conn = d /\ ~page.connected /\ up'[d] = <<>>
                     /\ (socks'[d].open => socks'[d] = Fresh)
               /\ \A x \in Later(down[d]) : x.t # "connect"
               /\ \A x \in Members(down[d]) : x.t = "ack" => x.id \in {None} \cup 1..issued
               /\ up'[d] # <<>> /\ Head(up'[d]).t = "room:rejoin" =>
                     Head(up'[d]).id \in 1..issued /\ socks'[d] = Fresh
               /\ \A x \in Later(up'[d]) : x.t # "room:rejoin"
    <3>1. CASE d = c
      <4>1. socks'[d].playerId = None /\ ~socks'[d].open /\ up'[d] = <<>> /\ Later(up'[d]) = {}
        BY <1>3, <3>1, SocketFacts, MembersNone
      <4> QED BY <1>3, <3>1, <4>1 DEF PhoneInv, WireInv
    <3>2. CASE d # c
      <4>1. socks'[d] = socks[d] /\ up'[d] = up[d]
        BY <1>3, <3>2
      <4> QED BY <4>1 DEF PhoneInv, WireInv
    <3> QED BY <3>1, <3>2
  <2>2. down \in [Conns -> Seq(Messages)]
    BY DEF PhoneInv, WireInv
  <2> QED BY <2>1, <2>2, <1>1, <1>3 DEF WireInv, Fresh, Closed
<1>7. ASSUME NEW d \in Conns, socks'[d].open
      PROVE  /\ d # c /\ socks'[d] = socks[d] /\ socks[d].open /\ up'[d] = up[d]
             /\ Rejoining(d)' <=> Rejoining(d)
             /\ \A k \in Cells : Heals(d, k)' <=> Heals(d, k)
  <2>1. d # c
    BY <1>3, <1>7, SocketFacts
  <2>2. socks'[d] = socks[d] /\ up'[d] = up[d]
    BY <2>1, <1>3
  <2> QED BY <2>1, <2>2, <1>1, <1>7 DEF Rejoining, Heals
<1>8. HereInv'
  <2>1. playerSockets \in [Ids -> Conns \cup {None}]
    BY DEF PhoneInv, HereInv
  <2>2. playerSockets' \in [Ids -> Conns \cup {None}]
    BY <1>1, <2>1
  <2>3. RegisteredSocketIsOpen'
    <3> SUFFICES ASSUME NEW id \in Ids, playerSockets'[id] # None
                 PROVE  socks'[playerSockets'[id]].open /\ socks'[playerSockets'[id]].playerId = id
      BY DEF RegisteredSocketIsOpen
    <3>1. playerSockets'[id] = playerSockets[id] /\ playerSockets[id] # c /\ playerSockets[id] \in Conns
      BY <1>1, <2>1
    <3>2. socks[playerSockets[id]].open /\ socks[playerSockets[id]].playerId = id
      BY <3>1 DEF PhoneInv, HereInv, RegisteredSocketIsOpen
    <3> QED BY <3>1, <3>2, <1>3
  <2>4. ASSUME NEW d \in Conns, socks'[d].open, d = used, socks'[d].playerId # None
        PROVE  playerSockets'[socks'[d].playerId] = d
    <3>1. PICK id : id = socks[d].playerId
      OBVIOUS
    <3>2. d # c /\ socks'[d].playerId = id /\ socks[d].open
      BY <1>7, <2>4, <3>1
    <3>3. playerSockets[id] = d /\ id \in Ids
      BY <3>1, <3>2, <2>4 DEF PhoneInv, HereInv, WireInv, Sockets
    <3> QED BY <3>2, <3>3, <1>1
  <2>5. ASSUME NEW d \in Conns, socks'[d].open
        PROVE  /\ d = page.conn /\ page.connected /\ page.pid # None =>
                     socks'[d].playerId = page.pid \/ (Rejoining(d)' /\ Head(up'[d]).id = page.pid)
               /\ \A x \in Members(down[d]) :
                     d = page.conn /\ Grants(x) => x.id # None /\ x.id = socks'[d].playerId
    BY <1>7, <2>5 DEF PhoneInv, HereInv
  <2> QED BY <2>2, <2>3, <2>4, <2>5, <1>1 DEF HereInv
<1>9. JoinInv'
  BY <1>1, <1>7 DEF PhoneInv, JoinInv
<1>10. ViewInv'
  <2> SUFFICES ASSUME NEW d \in Conns, d = page.conn, socks'[d].open,
                      event, socks[d].playerId \in DOMAIN players
               PROVE  Shows(down[d], page.view, ViewOf(state, players', socks[d].playerId))
    BY <1>1, <1>2, <1>7 DEF ViewInv, InRoom
  <2>1. PICK id : id = socks[d].playerId
    OBVIOUS
  <2>2. ViewOf(state, players', id) = ViewOf(state, players, id)
    BY <1>2, <2>1 DEF ViewOf
  <2>3. Shows(down[d], page.view, ViewOf(state, players, id))
    BY <1>7, <2>1 DEF PhoneInv, ViewInv, InRoom
  <2> QED BY <2>1, <2>2, <2>3
<1>11. GreenInv'
  BY <1>1, <1>7 DEF PhoneInv, GreenInv
<1> QED BY <1>4, <1>5, <1>6, <1>8, <1>9, <1>10, <1>11 DEF PhoneInv

LEMMA RestartKeeps ==
    ASSUME PhoneInv, Restart
    PROVE  PhoneInv'
<1>1. /\ socks' = [c \in Conns |-> Closed] /\ up' = [c \in Conns |-> <<>>]
      /\ playerSockets' = [id \in Ids |-> None] /\ players' = <<>>
      /\ state' = IF state = "SETUP" THEN "SETUP" ELSE "LOBBY"
      /\ event' = event /\ issued' = issued /\ down' = down /\ page' = page
      /\ stored' = stored /\ ignored' = ignored /\ used' = used
  BY DEF Restart
<1>2. IsRoster(players') /\ DOMAIN players' = {}
  BY <1>1 DEF IsRoster
<1>3. /\ socks' \in [Conns -> Sockets] /\ up' \in [Conns -> Seq(Requests)]
      /\ \A d \in Conns : /\ socks'[d] = Closed /\ ~socks'[d].open /\ socks'[d].playerId = None
                          /\ up'[d] = <<>> /\ Later(up'[d]) = {}
  BY <1>1, SocketFacts, MembersNone
<1>4. RoomInv'
  BY <1>1, <1>2 DEF PhoneInv, RoomInv, States
<1>5. PageInv'
  BY <1>1 DEF PhoneInv, PageInv
<1>6. WireInv'
  <2>1. ASSUME NEW d \in Conns
        PROVE  /\ d > used => down[d] = <<>>
               /\ down[d] # <<>> /\ Head(down[d]).t = "connect" => page.conn = d /\ ~page.connected
               /\ \A x \in Later(down[d]) : x.t # "connect"
               /\ \A x \in Members(down[d]) : x.t = "ack" => x.id \in {None} \cup 1..issued
    BY DEF PhoneInv, WireInv
  <2>2. down \in [Conns -> Seq(Messages)]
    BY DEF PhoneInv, WireInv
  <2> QED BY <2>1, <2>2, <1>1, <1>3 DEF WireInv, Fresh, Closed
<1>7. HereInv'
  BY <1>1, <1>3 DEF HereInv, RegisteredSocketIsOpen
<1>8. JoinInv' /\ ViewInv' /\ GreenInv'
  BY <1>3 DEF JoinInv, ViewInv, GreenInv
<1> QED BY <1>4, <1>5, <1>6, <1>7, <1>8 DEF PhoneInv
-----------------------------------------------------------------------------
(* The master: every phone is told *)

LEMMA AppendNews ==
    ASSUME NEW s \in Seq(Messages), NEW t, IsNews(t), NEW u, u = s \o t
    PROVE  /\ u \in Seq(Messages) /\ Members(u) = Members(s) \cup Members(t)
           /\ Later(u) \subseteq Later(s) \cup Members(t)
           /\ s # <<>> => u # <<>> /\ Head(u) = Head(s)
           /\ s = <<>> /\ u # <<>> => Head(u) \in Members(t)
           /\ \A x \in Members(t) : x.t # "connect" /\ x.t # "ack"
<1>1. t \in Seq(Messages) /\ \A x \in Members(t) : x.t # "connect" /\ x.t # "ack"
  BY DEF IsNews
<1>2. /\ u \in Seq(Messages) /\ Members(u) = Members(s) \cup Members(t)
      /\ Later(u) \subseteq Later(s) \cup Members(t)
      /\ s # <<>> => u # <<>> /\ Head(u) = Head(s)
      /\ s = <<>> => u = t
  BY <1>1, MembersConcat
<1>3. t # <<>> => Head(t) \in Members(t)
  BY <1>1, MembersTail
<1> QED BY <1>1, <1>2, <1>3

LEMMA ToldKeeps ==
    ASSUME PhoneInv, RoomInv', NEW msgs, \A c \in Conns : IsNews(msgs[c]), Send(msgs),
           UNCHANGED <<socks, playerSockets, issued, up, page, stored, ignored, used>>,
           \A c \in Conns : event' /\ socks[c].playerId \in DOMAIN players' =>
               EndsWith(msgs[c], ViewOf(state', players', socks[c].playerId))
    PROVE  PhoneInv'
<1>1. /\ issued' = issued /\ socks' = socks /\ playerSockets' = playerSockets /\ up' = up
      /\ page' = page /\ stored' = stored /\ ignored' = ignored /\ used' = used
      /\ down' = [c \in Conns |-> IF socks[c].open THEN down[c] \o msgs[c] ELSE down[c]]
  BY DEF Send
<1>2. ASSUME NEW d \in Conns
      PROVE  /\ down'[d] \in Seq(Messages)
             /\ Members(down[d]) \subseteq Members(down'[d])
             /\ \A x \in Members(down'[d]) :
                   x \in Members(down[d]) \/ (x.t # "connect" /\ x.t # "ack")
             /\ \A x \in Later(down'[d]) :
                   x \in Later(down[d]) \/ (x.t # "connect" /\ x.t # "ack")
             /\ down'[d] # <<>> /\ Head(down'[d]).t = "connect" =>
                   down[d] # <<>> /\ Head(down[d]).t = "connect"
             /\ ~socks[d].open => down'[d] = down[d]
             /\ socks[d].open => down'[d] = down[d] \o msgs[d]
  <2>1. PICK s : s = down[d]
    OBVIOUS
  <2>2. PICK t : t = msgs[d]
    OBVIOUS
  <2>3. PICK u : u = down'[d]
    OBVIOUS
  <2>4. s \in Seq(Messages) /\ IsNews(t)
    BY <2>1, <2>2 DEF PhoneInv, WireInv
  <2>5. CASE socks[d].open
    <3>1. u = s \o t
      BY <1>1, <2>1, <2>2, <2>3, <2>5
    <3>2. /\ u \in Seq(Messages) /\ Members(u) = Members(s) \cup Members(t)
          /\ Later(u) \subseteq Later(s) \cup Members(t)
          /\ s # <<>> => u # <<>> /\ Head(u) = Head(s)
          /\ s = <<>> /\ u # <<>> => Head(u) \in Members(t)
          /\ \A x \in Members(t) : x.t # "connect" /\ x.t # "ack"
      BY <2>4, <3>1, AppendNews
    <3> QED BY <2>1, <2>2, <2>3, <2>5, <3>1, <3>2
  <2>6. CASE ~socks[d].open
    <3>1. u = s
      BY <1>1, <2>1, <2>3, <2>6
    <3> QED BY <2>1, <2>3, <2>4, <2>6, <3>1
  <2> QED BY <2>5, <2>6
<1>3. down' \in [Conns -> Seq(Messages)]
  BY <1>1, <1>2
<1>4. PageInv'
  BY <1>1 DEF PhoneInv, PageInv
<1>5. WireInv'
  <2>1. ASSUME NEW d \in Conns
        PROVE  /\ socks[d].playerId # None => socks[d].playerId \in 1..issued
               /\ d > used => socks[d] = Closed /\ down'[d] = <<>>
               /\ up[d] # <<>> => d = used /\ socks[d].open
               /\ down'[d] # <<>> /\ Head(down'[d]).t = "connect" =>
                     page.conn = d /\ ~page.connected /\ up[d] = <<>>
                     /\ (socks[d].open => socks[d] = Fresh)
               /\ \A x \in Later(down'[d]) : x.t # "connect"
               /\ \A x \in Members(down'[d]) : x.t = "ack" => x.id \in {None} \cup 1..issued
               /\ up[d] # <<>> /\ Head(up[d]).t = "room:rejoin" =>
                     Head(up[d]).id \in 1..issued /\ socks[d] = Fresh
               /\ \A x \in Later(up[d]) : x.t # "room:rejoin"
    <3>1. d > used => socks[d] = Closed /\ ~socks[d].open /\ down[d] = <<>>
      BY SocketFacts DEF PhoneInv, WireInv
    <3>2. /\ down[d] # <<>> /\ Head(down[d]).t = "connect" =>
                page.conn = d /\ ~page.connected /\ up[d] = <<>>
                /\ (socks[d].open => socks[d] = Fresh)
          /\ \A x \in Later(down[d]) : x.t # "connect"
          /\ \A x \in Members(down[d]) : x.t = "ack" => x.id \in {None} \cup 1..issued
      BY DEF PhoneInv, WireInv
    <3>3. /\ socks[d].playerId # None => socks[d].playerId \in 1..issued
          /\ up[d] # <<>> => d = used /\ socks[d].open
          /\ up[d] # <<>> /\ Head(up[d]).t = "room:rejoin" =>
                Head(up[d]).id \in 1..issued /\ socks[d] = Fresh
          /\ \A x \in Later(up[d]) : x.t # "room:rejoin"
      BY DEF PhoneInv, WireInv
    <3> QED BY <3>1, <3>2, <3>3, <1>2
  <2>2. socks \in [Conns -> Sockets] /\ up \in [Conns -> Seq(Requests)]
    BY DEF PhoneInv, WireInv
  <2> QED BY <2>1, <2>2, <1>1, <1>3 DEF WireInv, Fresh, Closed
<1>6. \A d \in Conns : Rejoining(d)' <=> Rejoining(d)
  BY <1>1 DEF Rejoining
<1>7. ASSUME NEW d \in Conns, NEW x \in Members(down'[d]), Grants(x)
      PROVE  x \in Members(down[d])
  BY <1>2, <1>7 DEF Grants
<1>8. HereInv'
  <2>1. RegisteredSocketIsOpen' /\ playerSockets' \in [Ids -> Conns \cup {None}]
    BY <1>1 DEF PhoneInv, HereInv, RegisteredSocketIsOpen
  <2>2. ASSUME NEW d \in Conns, socks[d].open
        PROVE  /\ d = used /\ socks[d].playerId # None => playerSockets[socks[d].playerId] = d
               /\ d = page.conn /\ page.connected /\ page.pid # None =>
                     socks[d].playerId = page.pid \/ (Rejoining(d) /\ Head(up[d]).id = page.pid)
               /\ \A x \in Members(down'[d]) :
                     d = page.conn /\ Grants(x) => x.id # None /\ x.id = socks[d].playerId
    BY <1>7, <2>2 DEF PhoneInv, HereInv
  <2> QED BY <2>1, <2>2, <1>1, <1>6 DEF HereInv
<1>9. JoinInv'
  <2>1. \A d \in Conns : Members(down[d]) \subseteq Members(down'[d])
    BY <1>2
  <2>2. JoinInv
    BY DEF PhoneInv
  <2> QED BY <2>1, <2>2, <1>1, <1>6 DEF JoinInv
<1>10. ViewInv'
  <2> SUFFICES ASSUME NEW d \in Conns, d = page.conn, socks[d].open,
                      event', socks[d].playerId \in DOMAIN players'
               PROVE  Shows(down'[d], page.view, ViewOf(state', players', socks[d].playerId))
    BY <1>1 DEF ViewInv, InRoom
  <2>1. PICK v : v = ViewOf(state', players', socks[d].playerId)
    OBVIOUS
  <2>2. EndsWith(msgs[d], v) /\ msgs[d] \in Seq(Messages) /\ down[d] \in Seq(Messages)
    BY <2>1 DEF IsNews, PhoneInv, WireInv
  <2>3. Shows(down[d] \o msgs[d], page.view, v)
    BY <2>2, ShowsNew
  <2> QED BY <2>1, <2>3, <1>2
<1>11. \A d \in Conns, k \in Cells : Heals(d, k) => Heals(d, k)'
  BY <1>1, <1>2 DEF Heals
<1>12. GreenInv'
  <2> SUFFICES ASSUME NEW d \in Conns, NEW k \in Cells, d = page.conn, socks[d].open,
                      page.cells[k] \in Markers, k \notin ignored
               PROVE  /\ page.connected /\ page.pid # None =>
                            \/ Heals(d, k)'
                            \/ Rejoining(d)'
                            \/ \E x \in Members(down'[d]) : AnswersRejoin(x) /\ ~x.ok
                      /\ (\E x \in Members(down'[d]) : Grants(x)) => Heals(d, k)'
    BY <1>1 DEF GreenInv
  <2>1. /\ page.connected /\ page.pid # None =>
              \/ Heals(d, k)
              \/ Rejoining(d)
              \/ \E x \in Members(down[d]) : AnswersRejoin(x) /\ ~x.ok
        /\ (\E x \in Members(down[d]) : Grants(x)) => Heals(d, k)
    BY DEF PhoneInv, GreenInv
  <2> QED BY <2>1, <1>2, <1>6, <1>7, <1>11
<1> QED BY <1>4, <1>5, <1>8, <1>9, <1>10, <1>12 DEF PhoneInv

(* What Tell() sends: news, and after a summary the picture it carries.     *)
LEMMA TellNews ==
    ASSUME NEW s \in States, NEW ps, IsRoster(ps), NEW first, NEW last, NEW id,
           IsNews(first), IsNews(last), \A x \in Members(last) : ~Carries(x)
    PROVE  /\ IsNews(first \o Summary(TRUE, s, ps, id) \o last)
           /\ EndsWith(first \o Summary(TRUE, s, ps, id) \o last, ViewOf(s, ps, id))
<1>1. PICK m : m = Summary(TRUE, s, ps, id)
  OBVIOUS
<1>2. PICK v : v = ViewOf(s, ps, id)
  OBVIOUS
<1>3. IsNews(m) /\ EndsWith(m, v)
  BY <1>1, <1>2, SummaryNews
<1>4. PICK u : u = first \o m
  OBVIOUS
<1>5. IsNews(u) /\ EndsWith(u, v)
  BY <1>3, <1>4, NewsConcat, EndsRight DEF IsNews
<1>6. IsNews(u \o last) /\ EndsWith(u \o last, v)
  BY <1>5, NewsConcat, EndsLeft DEF IsNews
<1> QED BY <1>1, <1>2, <1>4, <1>6
LEMMA NewRoomInv ==
    ASSUME RoomInv, NewRoom, event' \in BOOLEAN, issued' = issued
    PROVE  RoomInv' /\ DOMAIN players' = {}
<1>1. players' = <<>> /\ state' = "SETUP" /\ DOMAIN players' = {}
  BY DEF NewRoom
<1> QED BY <1>1 DEF RoomInv, IsRoster, States

LEMMA NobodyIn == IsRoster(<<>>)
BY DEF IsRoster

LEMMA ActStays ==
    ASSUME Act
    PROVE  UNCHANGED <<socks, playerSockets, issued, up, page, stored, ignored, used>>
BY DEF Act

LEMMA EventCreateKeeps ==
    ASSUME PhoneInv, EventCreate
    PROVE  PhoneInv'
<1>1. PICK msgs : msgs = [c \in Conns |->
          Nothing[c] \o Summary(TRUE, "SETUP", <<>>, socks[c].playerId) \o <<>>]
  OBVIOUS
<1>2. Send(msgs)
  BY <1>1 DEF EventCreate, Tell
<1>3. ASSUME NEW c \in Conns PROVE IsNews(msgs[c])
  <2>1. Nothing[c] = <<>> /\ "SETUP" \in States
    BY DEF Nothing, States
  <2>2. IsNews(<<>>) /\ \A x \in Members(<<>>) : ~Carries(x)
    BY NoNews, MembersNone
  <2>3. PICK none : none = <<>>
    OBVIOUS
  <2>4. IsRoster(none) /\ IsNews(none) /\ \A x \in Members(none) : ~Carries(x)
    BY <2>2, <2>3, NobodyIn
  <2>5. IsNews(none \o Summary(TRUE, "SETUP", none, socks[c].playerId) \o none)
    BY <2>1, <2>4, TellNews
  <2> QED BY <1>1, <2>1, <2>3, <2>5
<1>4. RoomInv' /\ DOMAIN players' = {}
  BY NewRoomInv DEF PhoneInv, EventCreate, Act
<1>5. UNCHANGED <<socks, playerSockets, issued, up, page, stored, ignored, used>>
  BY ActStays DEF EventCreate
<1> QED BY <1>2, <1>3, <1>4, <1>5, ToldKeeps

LEMMA EventResetKeeps ==
    ASSUME PhoneInv, EventReset
    PROVE  PhoneInv'
<1>1. PICK msgs : msgs = [c \in Conns |->
          Nothing[c] \o Summary(FALSE, None, <<>>, socks[c].playerId) \o <<>>]
  OBVIOUS
<1>2. Send(msgs)
  BY <1>1 DEF EventReset, Tell
<1>3. ASSUME NEW c \in Conns PROVE IsNews(msgs[c])
  <2>1. Nothing[c] = <<>> /\ "SETUP" \in States
    BY DEF Nothing, States
  <2>2. PICK none : none = <<>>
    OBVIOUS
  <2>3. IsRoster(none) /\ IsNews(none)
    BY <2>2, NobodyIn, NoNews
  <2>4. PICK w : w = Summary(FALSE, None, none, socks[c].playerId)
    OBVIOUS
  <2>5. IsNews(w)
    BY <2>1, <2>3, <2>4, SummaryNews
  <2>6. IsNews(none \o w)
    BY <2>3, <2>5, NewsConcat
  <2>7. IsNews((none \o w) \o none)
    BY <2>3, <2>6, NewsConcat
  <2> QED BY <1>1, <2>1, <2>2, <2>4, <2>7
<1>4. RoomInv' /\ DOMAIN players' = {}
  BY NewRoomInv DEF PhoneInv, EventReset, Act
<1>5. UNCHANGED <<socks, playerSockets, issued, up, page, stored, ignored, used>>
  BY ActStays DEF EventReset
<1> QED BY <1>2, <1>3, <1>4, <1>5, ToldKeeps

LEMMA GameResetKeeps ==
    ASSUME PhoneInv, GameReset
    PROVE  PhoneInv'
<1>1. PICK last : last = <<[t |-> "room:reset"]>>
  OBVIOUS
<1>2. PICK msgs : msgs = [c \in Conns |->
          Nothing[c] \o Summary(TRUE, "SETUP", <<>>, socks[c].playerId) \o last]
  OBVIOUS
<1>3. Send(msgs)
  BY <1>1, <1>2 DEF GameReset, Tell
<1>4. IsNews(last)
  <2>1. PICK m : m = [t |-> "room:reset"]
    OBVIOUS
  <2>2. m \in Messages /\ m.t = "room:reset"
    BY <2>1 DEF Messages, Plain
  <2>3. IsNews(<<m>>)
    BY <2>2, OneNews
  <2> QED BY <1>1, <2>1, <2>3
<1>5. ASSUME NEW c \in Conns PROVE IsNews(msgs[c])
  <2>1. Nothing[c] = <<>> /\ "SETUP" \in States
    BY DEF Nothing, States
  <2>2. PICK none : none = <<>>
    OBVIOUS
  <2>3. IsRoster(none) /\ IsNews(none)
    BY <2>2, NobodyIn, NoNews
  <2>4. PICK w : w = Summary(TRUE, "SETUP", none, socks[c].playerId)
    OBVIOUS
  <2>5. IsNews(w)
    BY <2>1, <2>3, <2>4, SummaryNews
  <2>6. IsNews(none \o w)
    BY <2>3, <2>5, NewsConcat
  <2>7. IsNews((none \o w) \o last)
    BY <1>4, <2>6, NewsConcat
  <2> QED BY <1>2, <2>1, <2>2, <2>4, <2>7
<1>6. RoomInv' /\ DOMAIN players' = {}
  BY NewRoomInv DEF PhoneInv, GameReset, Act, RoomInv
<1>7. UNCHANGED <<socks, playerSockets, issued, up, page, stored, ignored, used>>
  BY ActStays DEF GameReset
<1> QED BY <1>3, <1>5, <1>6, <1>7, ToldKeeps

LEMMA TransitionKeeps ==
    ASSUME PhoneInv, NEW from \in States, NEW to \in States, to # "SETUP", Transition(from, to)
    PROVE  PhoneInv'
<1>1. PICK dealt : dealt = [c \in Conns |->
            IF to = "RUNNING" /\ \E id \in DOMAIN players : playerSockets[id] = c
            THEN <<Card>> ELSE <<>>]
  OBVIOUS
<1>2. PICK msgs : msgs = [c \in Conns |->
          dealt[c] \o Summary(TRUE, to, players, socks[c].playerId) \o <<>>]
  OBVIOUS
<1>3. Act /\ event /\ state' = to /\ event' = event /\ players' = players /\ Send(msgs)
  BY <1>1, <1>2 DEF Transition, Tell
<1>4. IsRoster(players)
  BY DEF PhoneInv, RoomInv
<1>5. ASSUME NEW c \in Conns
      PROVE  IsNews(msgs[c]) /\ EndsWith(msgs[c], ViewOf(to, players, socks[c].playerId))
  <2>1. PICK none : none = <<>>
    OBVIOUS
  <2>2. IsNews(none) /\ \A x \in Members(none) : ~Carries(x)
    BY <2>1, NoNews, MembersNone
  <2>3. IsNews(dealt[c])
    BY <1>1, CardNews, NoNews
  <2>4. PICK first, id : first = dealt[c] /\ id = socks[c].playerId
    OBVIOUS
  <2>5. /\ IsNews(first \o Summary(TRUE, to, players, id) \o none)
        /\ EndsWith(first \o Summary(TRUE, to, players, id) \o none, ViewOf(to, players, id))
    BY <1>4, <2>2, <2>3, <2>4, TellNews
  <2>6. msgs[c] = first \o Summary(TRUE, to, players, id) \o none
    BY <1>2, <2>1, <2>4
  <2> QED BY <2>4, <2>5, <2>6
<1>6. UNCHANGED <<socks, playerSockets, issued, up, page, stored, ignored, used>>
  BY <1>3, ActStays
<1>7. RoomInv'
  BY <1>3, <1>4, <1>6 DEF PhoneInv, RoomInv
<1>8. \A c \in Conns : EndsWith(msgs[c], ViewOf(state', players', socks[c].playerId))
  BY <1>3, <1>5
<1> QED BY <1>3, <1>5, <1>6, <1>7, <1>8, ToldKeeps

LEMMA MasterKeeps ==
    ASSUME PhoneInv, Master
    PROVE  PhoneInv'
BY EventCreateKeeps, EventResetKeeps, GameResetKeeps, TransitionKeeps DEF Master, States
-----------------------------------------------------------------------------
(* A request read, and answered *)

LEMMA WhoAsks ==
    ASSUME PhoneInv, NEW c \in Conns, Pending(c), NEW v, v = Viewer(c), NEW r, r = Request(c)
    PROVE  /\ c = used /\ socks[c].open /\ up[c] # <<>> /\ r \in Requests /\ r \in Members(up[c])
           /\ socks[c] \in Sockets
           /\ v = None \/ v \in 1..issued \/ (v = issued + 1 /\ v \in Ids /\ Adopts(c))
           /\ socks[c].playerId # None => v = socks[c].playerId /\ ~Adopts(c)
           /\ r.t = "room:rejoin" => v = r.id /\ v \in 1..issued /\ socks[c] = Fresh
           /\ v = socks[c].playerId \/ r.t = "room:rejoin" \/ v = issued + 1
           /\ ~Adopts(c) => v = socks[c].playerId
           /\ Adopts(c) => v \in Ids
<1>1. socks[c].open /\ up[c] # <<>> /\ (Adopts(c) => v \in Ids)
  BY DEF Pending
<1>2. c = used /\ up[c] \in Seq(Requests) /\ socks[c] \in Sockets
  BY <1>1 DEF PhoneInv, WireInv
<1>3. r \in Requests /\ r \in Members(up[c]) /\ r = Head(up[c])
  BY <1>1, <1>2, MembersTail DEF Request
<1>4. r.t = "room:rejoin" => r.id \in 1..issued /\ socks[c] = Fresh
  BY <1>1, <1>3 DEF PhoneInv, WireInv
<1>5. socks[c].playerId # None => socks[c].playerId \in 1..issued
  BY DEF PhoneInv, WireInv
<1>6. CASE r.t = "room:rejoin"
  <2>1. v = r.id /\ Adopts(c)
    BY <1>6 DEF Viewer, Adopts
  <2>2. socks[c].playerId = None
    BY <1>4, <1>6, SocketFacts
  <2> QED BY <1>1, <1>2, <1>3, <1>4, <1>6, <2>1, <2>2
<1>7. CASE r.t = "room:join" /\ socks[c].playerId = None
  <2>1. v = issued + 1 /\ Adopts(c)
    BY <1>7 DEF Viewer, Adopts
  <2> QED BY <1>1, <1>2, <1>3, <1>7, <2>1
<1>8. CASE r.t # "room:rejoin" /\ ~(r.t = "room:join" /\ socks[c].playerId = None)
  <2>1. v = socks[c].playerId /\ ~Adopts(c)
    BY <1>8 DEF Viewer, Adopts
  <2> QED BY <1>1, <1>2, <1>3, <1>5, <1>8, <2>1
<1> QED BY <1>6, <1>7, <1>8

LEMMA ReadIssues ==
    ASSUME PhoneInv, NEW c \in Conns, Pending(c), NEW tokens, Read(c, tokens),
           NEW v, v = Viewer(c)
    PROVE  /\ issued' \in 0..MaxIds /\ issued <= issued'
           /\ v = None \/ v \in 1..issued'
           /\ v # None => v \in Ids
           /\ 1..issued \subseteq 1..issued'
<1>1. issued \in 0..MaxIds
  BY DEF PhoneInv, RoomInv
<1>2. v = None \/ v \in 1..issued \/ (v = issued + 1 /\ v \in Ids)
  BY WhoAsks
<1>3. issued' = IF v = issued + 1 THEN issued + 1 ELSE issued
  BY DEF Read
<1>4. CASE v = issued + 1
  <2>1. v # None /\ v \in Ids
    BY <1>1, <1>2, <1>4, NumberFacts
  <2> QED BY <1>1, <1>3, <1>4, <2>1, NumberFacts DEF Ids
<1>5. CASE v # issued + 1
  BY <1>1, <1>2, <1>3, <1>5, NumberFacts DEF Ids
<1> QED BY <1>4, <1>5

LEMMA ReadSockets ==
    ASSUME PhoneInv, NEW c \in Conns, Pending(c), NEW tokens \in 0..BURST, Read(c, tokens),
           NEW v, v = Viewer(c)
    PROVE  /\ socks' \in [Conns -> Sockets] /\ socks'[c].open /\ socks'[c].playerId = v
           /\ \A d \in Conns \ {c} : socks'[d] = socks[d]
           /\ playerSockets' \in [Ids -> Conns \cup {None}]
           /\ v # None => playerSockets'[v] = c
           /\ RegisteredSocketIsOpen'
<1>1. PICK s : s = socks[c]
  OBVIOUS
<1>2. PICK n : n = [s EXCEPT !.playerId = v, !.tokens = tokens]
  OBVIOUS
<1>3. s \in Sockets /\ s.open /\ socks \in [Conns -> Sockets]
  BY <1>1, WhoAsks DEF PhoneInv, WireInv
<1>4. v \in Ids \cup {None}
  BY ReadIssues
<1>5. n \in Sockets /\ n.open /\ n.playerId = v
  BY <1>2, <1>3, <1>4 DEF Sockets
<1>6. socks' = [socks EXCEPT ![c] = n]
  BY <1>1, <1>2 DEF Read
<1>7. socks' \in [Conns -> Sockets] /\ socks'[c] = n /\ \A d \in Conns \ {c} : socks'[d] = socks[d]
  BY <1>3, <1>5, <1>6
<1>8. /\ ~Adopts(c) => v = socks[c].playerId
      /\ Adopts(c) => v \in Ids
      /\ socks[c].playerId # None => v = socks[c].playerId
      /\ c = used /\ socks[c].open
  BY WhoAsks
<1>9. playerSockets \in [Ids -> Conns \cup {None}] /\ RegisteredSocketIsOpen
  BY DEF PhoneInv, HereInv
<1>10. v # None /\ ~Adopts(c) => playerSockets[v] = c
  BY <1>8 DEF PhoneInv, HereInv
<1>11. playerSockets' = IF Adopts(c) THEN [playerSockets EXCEPT ![v] = c] ELSE playerSockets
  BY DEF Read
<1>12. /\ playerSockets' \in [Ids -> Conns \cup {None}]
       /\ v # None => playerSockets'[v] = c
       /\ \A id \in Ids : id # v => playerSockets'[id] = playerSockets[id]
  <2>1. CASE Adopts(c)
    <3>1. v \in Ids /\ playerSockets' = [playerSockets EXCEPT ![v] = c]
      BY <1>8, <1>11, <2>1
    <3> QED BY <3>1, <1>9
  <2>2. CASE ~Adopts(c)
    BY <2>2, <1>9, <1>10, <1>11
  <2> QED BY <2>1, <2>2
<1>13. RegisteredSocketIsOpen'
  <2> SUFFICES ASSUME NEW id \in Ids, playerSockets'[id] # None
               PROVE  socks'[playerSockets'[id]].open /\ socks'[playerSockets'[id]].playerId = id
    BY DEF RegisteredSocketIsOpen
  <2>1. CASE id = v
    <3>1. playerSockets'[id] = c
      BY <2>1, <1>12, NumberFacts
    <3> QED BY <2>1, <3>1, <1>5, <1>7
  <2>2. CASE id # v
    <3>1. playerSockets'[id] = playerSockets[id] /\ playerSockets[id] \in Conns
      BY <2>2, <1>9, <1>12
    <3>2. socks[playerSockets[id]].open /\ socks[playerSockets[id]].playerId = id
      BY <3>1, <1>9 DEF RegisteredSocketIsOpen
    <3>3. playerSockets[id] # c
      BY <3>2, <2>2, <1>8, NumberFacts
    <3> QED BY <3>1, <3>2, <3>3, <1>7
  <2> QED BY <2>1, <2>2
<1> QED BY <1>5, <1>7, <1>12, <1>13
(* What an answer owes the page: a claim is answered, the picture follows the
   room, and what was asked about a cell, and what a join left on one, is
   settled.                                                                *)
Owed(c, msgs) ==
    LET v == Viewer(c)
    IN  /\ Request(c).t = "room:rejoin" => \E m \in Members(msgs) : AnswersRejoin(m)
        /\ event /\ v \in DOMAIN players' =>
              \/ EndsWith(msgs, ViewOf(state, players', v))
              \/ /\ \A m \in Members(msgs) : ~Carries(m)
                 /\ v = socks[c].playerId /\ players' = players
        /\ \A k \in Cells :
              /\ Asks(Request(c), k) => k \in ignored' \/ \E m \in Members(msgs) : Settles(m, k)
              /\ Request(c).t = "room:rejoin" =>
                    \/ \E m \in Members(msgs) : Settles(m, k)
                    \/ \E m \in Members(msgs) : AnswersRejoin(m) /\ ~m.ok
              /\ (\E m \in Members(msgs) : Grants(m)) => \E m \in Members(msgs) : Settles(m, k)
        /\ (\E m \in Members(msgs) : Grants(m)) => v # None

Replies(c, msgs) ==
    /\ Pending(c) /\ \E tokens \in 0..BURST : Read(c, tokens)
    /\ msgs \in Seq(Messages)
    /\ \A m \in Members(msgs) : m.t # "connect" /\ (m.t = "ack" => m.id = Viewer(c))
    /\ down' = [d \in Conns |-> IF d = c THEN down[d] \o msgs ELSE down[d]]
    /\ UNCHANGED <<event, state, page, stored, used>>
    /\ ignored \subseteq ignored'
    /\ Owed(c, msgs)

LEMMA RepliesFacts ==
    ASSUME PhoneInv, NEW c \in Conns, NEW msgs, Replies(c, msgs), NEW r, r = Request(c)
    PROVE  /\ event' = event /\ state' = state /\ page' = page /\ stored' = stored /\ used' = used
           /\ c = used /\ up[c] # <<>> /\ r = Head(up[c])
           /\ up' \in [Conns -> Seq(Requests)] /\ \A d \in Conns \ {c} : up'[d] = up[d]
           /\ Members(up[c]) = {r} \cup Members(up'[c])
           /\ Later(up'[c]) \subseteq Later(up[c])
           /\ up'[c] # <<>> => Head(up'[c]) \in Later(up[c])
           /\ down' \in [Conns -> Seq(Messages)] /\ \A d \in Conns \ {c} : down'[d] = down[d]
           /\ down'[c] = down[c] \o msgs
           /\ Members(down'[c]) = Members(down[c]) \cup Members(msgs)
           /\ Later(down'[c]) \subseteq Later(down[c]) \cup Members(msgs)
           /\ ~(down[c] # <<>> /\ Head(down[c]).t = "connect")
           /\ ~(down'[c] # <<>> /\ Head(down'[c]).t = "connect")
<1>1. PICK tokens \in 0..BURST : Read(c, tokens)
  BY DEF Replies
<1>2. Pending(c) /\ c = used /\ up[c] # <<>>
  BY WhoAsks DEF Replies
<1>3. PICK s \in Seq(Requests) : s = up[c]
  BY DEF PhoneInv, WireInv
<1>4. /\ Tail(s) \in Seq(Requests) /\ Members(s) = {Head(s)} \cup Members(Tail(s))
      /\ Later(Tail(s)) \subseteq Later(s) /\ (Tail(s) # <<>> => Head(Tail(s)) \in Later(s))
  <2>1. Members(Tail(s)) = Later(s)
    BY <1>2, <1>3, MembersTail
  <2> QED BY <1>2, <1>3, MembersTail
<1>5. up' \in [Conns -> Seq(Requests)] /\ up'[c] = Tail(s) /\ \A d \in Conns \ {c} : up'[d] = up[d]
  <2>1. up' = [up EXCEPT ![c] = Tail(s)]
    BY <1>1, <1>3 DEF Read
  <2> QED BY <2>1, <1>4 DEF PhoneInv, WireInv
<1>6. PICK q \in Seq(Messages) : q = down[c]
  BY DEF PhoneInv, WireInv
<1>7. PICK u : u = q \o msgs
  OBVIOUS
<1>8. msgs \in Seq(Messages) /\ \A m \in Members(msgs) : m.t # "connect"
  BY DEF Replies
<1>9. /\ u \in Seq(Messages) /\ Members(u) = Members(q) \cup Members(msgs)
      /\ Later(u) \subseteq Later(q) \cup Members(msgs)
      /\ q # <<>> => u # <<>> /\ Head(u) = Head(q)
      /\ q = <<>> => u = msgs
  BY <1>7, <1>8, MembersConcat
<1>10. down' \in [Conns -> Seq(Messages)] /\ down'[c] = u /\ \A d \in Conns \ {c} : down'[d] = down[d]
  <2>1. down' = [d \in Conns |-> IF d = c THEN down[d] \o msgs ELSE down[d]]
    BY DEF Replies
  <2>2. down'[c] = u /\ \A d \in Conns \ {c} : down'[d] = down[d]
    BY <2>1, <1>6, <1>7
  <2>3. \A d \in Conns : down'[d] \in Seq(Messages)
    BY <2>2, <1>9 DEF PhoneInv, WireInv
  <2> QED BY <2>1, <2>2, <2>3
<1>11. ~(q # <<>> /\ Head(q).t = "connect")
  BY <1>2, <1>6 DEF PhoneInv, WireInv
<1>12. ~(u # <<>> /\ Head(u).t = "connect")
  <2>1. CASE q = <<>>
    <3>1. msgs # <<>> => Head(msgs) \in Members(msgs)
      BY <1>8, MembersTail
    <3> QED BY <2>1, <3>1, <1>8, <1>9
  <2>2. CASE q # <<>>
    BY <2>2, <1>9, <1>11
  <2> QED BY <2>1, <2>2
<1>13. event' = event /\ state' = state /\ page' = page /\ stored' = stored /\ used' = used
  BY DEF Replies
<1>14. r = Head(s)
  BY <1>3 DEF Request
<1> QED BY <1>2, <1>3, <1>4, <1>5, <1>6, <1>7, <1>9, <1>10, <1>11, <1>12, <1>13, <1>14

LEMMA RepliesWire ==
    ASSUME PhoneInv, NEW c \in Conns, NEW msgs, Replies(c, msgs)
    PROVE  WireInv' /\ PageInv'
<1>1. PICK r, v : r = Request(c) /\ v = Viewer(c)
  OBVIOUS
<1>2. PICK tokens \in 0..BURST : Read(c, tokens) /\ Pending(c)
  BY DEF Replies
<1>3. /\ page' = page /\ stored' = stored /\ used' = used /\ c = used
      /\ up' \in [Conns -> Seq(Requests)] /\ \A d \in Conns \ {c} : up'[d] = up[d]
      /\ Later(up'[c]) \subseteq Later(up[c])
      /\ up'[c] # <<>> => Head(up'[c]) \in Later(up[c])
  BY <1>1, RepliesFacts
<1>4. /\ down' \in [Conns -> Seq(Messages)] /\ \A d \in Conns \ {c} : down'[d] = down[d]
      /\ Members(down'[c]) = Members(down[c]) \cup Members(msgs)
      /\ Later(down'[c]) \subseteq Later(down[c]) \cup Members(msgs)
      /\ ~(down'[c] # <<>> /\ Head(down'[c]).t = "connect")
  BY <1>1, RepliesFacts
<1>5. /\ issued' \in 0..MaxIds /\ (v = None \/ v \in 1..issued')
      /\ 1..issued \subseteq 1..issued'
  BY <1>1, <1>2, ReadIssues
<1>6. /\ socks' \in [Conns -> Sockets] /\ socks'[c].open /\ socks'[c].playerId = v
      /\ \A d \in Conns \ {c} : socks'[d] = socks[d]
  BY <1>1, <1>2, ReadSockets
<1>7. \A m \in Members(msgs) : m.t # "connect" /\ (m.t = "ack" => m.id = v)
  BY <1>1 DEF Replies
<1>8. ASSUME NEW d \in Conns
      PROVE  /\ socks[d].playerId # None => socks[d].playerId \in 1..issued'
             /\ d > used => socks[d] = Closed /\ down[d] = <<>>
             /\ up[d] # <<>> => d = used /\ socks[d].open
             /\ down[d] # <<>> /\ Head(down[d]).t = "connect" =>
                   page.conn = d /\ ~page.connected /\ up[d] = <<>>
                   /\ (socks[d].open => socks[d] = Fresh)
             /\ \A x \in Later(down[d]) : x.t # "connect"
             /\ \A x \in Members(down[d]) : x.t = "ack" => x.id \in {None} \cup 1..issued'
             /\ up[d] # <<>> /\ Head(up[d]).t = "room:rejoin" =>
                   Head(up[d]).id \in 1..issued' /\ socks[d] = Fresh
             /\ \A x \in Later(up[d]) : x.t # "room:rejoin"
  BY <1>5 DEF PhoneInv, WireInv
<1>9. ASSUME NEW d \in Conns
      PROVE  /\ socks'[d].playerId # None => socks'[d].playerId \in 1..issued'
             /\ d > used => socks'[d] = Closed /\ down'[d] = <<>>
             /\ up'[d] # <<>> => d = used /\ socks'[d].open
             /\ down'[d] # <<>> /\ Head(down'[d]).t = "connect" =>
                   page.conn = d /\ ~page.connected /\ up'[d] = <<>>
                   /\ (socks'[d].open => socks'[d] = Fresh)
             /\ \A x \in Later(down'[d]) : x.t # "connect"
             /\ \A x \in Members(down'[d]) : x.t = "ack" => x.id \in {None} \cup 1..issued'
             /\ up'[d] # <<>> /\ Head(up'[d]).t = "room:rejoin" =>
                   Head(up'[d]).id \in 1..issued' /\ socks'[d] = Fresh
             /\ \A x \in Later(up'[d]) : x.t # "room:rejoin"
  <2>1. CASE d = c
    <3>1. ~(d > used)
      BY <2>1, <1>3 DEF Conns
    <3>2. ~(up'[d] # <<>> /\ Head(up'[d]).t = "room:rejoin")
      BY <2>1, <1>3, <1>8
    <3>3. /\ \A x \in Later(down'[d]) : x.t # "connect"
          /\ \A x \in Members(down'[d]) : x.t = "ack" => x.id \in {None} \cup 1..issued'
      BY <2>1, <1>4, <1>5, <1>7, <1>8
    <3>4. \A x \in Later(up'[d]) : x.t # "room:rejoin"
      BY <2>1, <1>3, <1>8
    <3> QED BY <2>1, <3>1, <3>2, <3>3, <3>4, <1>3, <1>4, <1>5, <1>6
  <2>2. CASE d # c
    <3>1. socks'[d] = socks[d] /\ up'[d] = up[d] /\ down'[d] = down[d]
      BY <2>2, <1>3, <1>4, <1>6
    <3> QED BY <3>1, <1>8
  <2> QED BY <2>1, <2>2
<1>10. WireInv'
  BY <1>3, <1>4, <1>6, <1>9 DEF WireInv, Fresh, Closed
<1>11. PageInv'
  <2>1. stored \in {None} \cup 1..issued'
    BY <1>5 DEF PhoneInv, PageInv
  <2> QED BY <2>1, <1>3 DEF PhoneInv, PageInv
<1> QED BY <1>10, <1>11
LEMMA RepliesHere ==
    ASSUME PhoneInv, NEW c \in Conns, NEW msgs, Replies(c, msgs)
    PROVE  HereInv' /\ JoinInv'
<1>1. PICK r, v : r = Request(c) /\ v = Viewer(c)
  OBVIOUS
<1>2. PICK tokens \in 0..BURST : Read(c, tokens) /\ Pending(c)
  BY DEF Replies
<1>3. /\ page' = page /\ used' = used /\ c = used /\ r = Head(up[c]) /\ up[c] # <<>>
      /\ Members(down'[c]) = Members(down[c]) \cup Members(msgs)
  BY <1>1, RepliesFacts
<1>4. /\ socks'[c].open /\ socks'[c].playerId = v
      /\ playerSockets' \in [Ids -> Conns \cup {None}]
      /\ v # None => playerSockets'[v] = c
      /\ RegisteredSocketIsOpen'
  BY <1>1, <1>2, ReadSockets
<1>5. /\ socks[c].open
      /\ socks[c].playerId # None => v = socks[c].playerId
      /\ r.t = "room:rejoin" => v = r.id
  BY <1>1, <1>2, WhoAsks
<1>6. \A d \in Conns : d = page.conn => d = c
  BY <1>3, NumberFacts DEF PhoneInv, PageInv
<1>7. /\ \A m \in Members(msgs) : m.t = "ack" => m.id = v
      /\ r.t = "room:rejoin" => \E m \in Members(msgs) : AnswersRejoin(m)
      /\ (\E m \in Members(msgs) : Grants(m)) => v # None
  BY <1>1 DEF Replies, Owed
<1>8. HereInv'
  <2>1. ASSUME c = page.conn, page.connected, page.pid # None
        PROVE  v = page.pid
    <3>1. \/ socks[c].playerId = page.pid
          \/ Rejoining(c) /\ Head(up[c]).id = page.pid
      BY <1>5, <2>1 DEF PhoneInv, HereInv
    <3>2. CASE socks[c].playerId = page.pid
      BY <3>2, <2>1, <1>5
    <3>3. CASE Rejoining(c) /\ Head(up[c]).id = page.pid
      BY <3>3, <1>3, <1>5 DEF Rejoining
    <3> QED BY <3>1, <3>2, <3>3
  <2>2. ASSUME c = page.conn, NEW m \in Members(down'[c]), Grants(m)
        PROVE  m.id # None /\ m.id = v
    <3>1. CASE m \in Members(down[c])
      <4>1. m.id # None /\ m.id = socks[c].playerId
        BY <1>5, <2>2, <3>1 DEF PhoneInv, HereInv
      <4> QED BY <4>1, <1>5
    <3>2. CASE m \in Members(msgs)
      BY <2>2, <3>2, <1>7 DEF Grants
    <3> QED BY <2>2, <3>1, <3>2, <1>3
  <2> QED BY <2>1, <2>2, <1>3, <1>4, <1>6 DEF HereInv
<1>9. JoinInv'
  <2> SUFFICES ASSUME c = page.conn, page.connected, page.pid # None, ~page.joined
               PROVE  \E m \in Members(down'[c]) : AnswersRejoin(m)
    BY <1>3, <1>6 DEF JoinInv
  <2>1. Rejoining(c) \/ \E m \in Members(down[c]) : AnswersRejoin(m)
    BY <1>5 DEF PhoneInv, JoinInv
  <2>2. Rejoining(c) => r.t = "room:rejoin"
    BY <1>3 DEF Rejoining
  <2> QED BY <2>1, <2>2, <1>3, <1>7
<1> QED BY <1>8, <1>9

LEMMA RepliesView ==
    ASSUME PhoneInv, NEW c \in Conns, NEW msgs, Replies(c, msgs)
    PROVE  ViewInv' /\ GreenInv'
<1>1. PICK r, v : r = Request(c) /\ v = Viewer(c)
  OBVIOUS
<1>2. PICK tokens \in 0..BURST : Read(c, tokens) /\ Pending(c)
  BY DEF Replies
<1>3. /\ event' = event /\ state' = state /\ page' = page /\ used' = used /\ c = used
      /\ r = Head(up[c]) /\ up[c] # <<>>
      /\ Members(up[c]) = {r} \cup Members(up'[c])
      /\ Members(down'[c]) = Members(down[c]) \cup Members(msgs)
      /\ down'[c] = down[c] \o msgs
  <2>1. /\ event' = event /\ state' = state /\ page' = page /\ used' = used /\ c = used
        /\ r = Head(up[c]) /\ up[c] # <<>>
    BY <1>1, RepliesFacts
  <2>2. Members(up[c]) = {r} \cup Members(up'[c])
    BY <1>1, RepliesFacts
  <2>3. /\ Members(down'[c]) = Members(down[c]) \cup Members(msgs)
        /\ down'[c] = down[c] \o msgs
    BY <1>1, RepliesFacts
  <2> QED BY <2>1, <2>2, <2>3
<1>4. socks'[c].open /\ socks'[c].playerId = v
  BY <1>1, <1>2, ReadSockets
<1>5. socks[c].open
  BY <1>2, WhoAsks
<1>6. \A d \in Conns : d = page.conn => d = c
  BY <1>3, NumberFacts DEF PhoneInv, PageInv
<1>7. ViewInv'
  <2> SUFFICES ASSUME c = page.conn, event, v \in DOMAIN players'
               PROVE  Shows(down'[c], page.view, ViewOf(state, players', v))
    BY <1>3, <1>4, <1>6 DEF ViewInv, InRoom
  <2>1. PICK w : w = ViewOf(state, players', v)
    OBVIOUS
  <2>2. down[c] \in Seq(Messages) /\ msgs \in Seq(Messages)
    BY DEF PhoneInv, WireInv, Replies
  <2>3. CASE EndsWith(msgs, w)
    <3>1. Shows(down[c] \o msgs, page.view, w)
      BY <2>2, <2>3, ShowsNew
    <3> QED BY <2>1, <3>1, <1>3
  <2>4. CASE /\ \A m \in Members(msgs) : ~Carries(m)
             /\ v = socks[c].playerId /\ players' = players
    <3>1. Shows(down[c], page.view, w)
      BY <1>5, <2>1, <2>4 DEF PhoneInv, ViewInv, InRoom
    <3>2. Shows(down[c] \o msgs, page.view, w)
      BY <2>2, <2>4, <3>1, ShowsOn
    <3> QED BY <2>1, <3>2, <1>3
  <2> QED BY <2>1, <2>3, <2>4, <1>1 DEF Replies, Owed
<1>8. GreenInv'
  <2> SUFFICES ASSUME NEW k \in Cells, c = page.conn, page.cells[k] \in Markers, k \notin ignored'
               PROVE  /\ page.connected /\ page.pid # None =>
                            \/ Heals(c, k)'
                            \/ Rejoining(c)'
                            \/ \E m \in Members(down'[c]) : AnswersRejoin(m) /\ ~m.ok
                      /\ (\E m \in Members(down'[c]) : Grants(m)) => Heals(c, k)'
    BY <1>3, <1>6 DEF GreenInv
  <2>1. k \notin ignored
    BY DEF Replies
  <2>2. /\ page.connected /\ page.pid # None =>
              \/ Heals(c, k)
              \/ Rejoining(c)
              \/ \E m \in Members(down[c]) : AnswersRejoin(m) /\ ~m.ok
        /\ (\E m \in Members(down[c]) : Grants(m)) => Heals(c, k)
    BY <1>5, <2>1 DEF PhoneInv, GreenInv
  <2>3. /\ Asks(r, k) => \E m \in Members(msgs) : Settles(m, k)
        /\ r.t = "room:rejoin" =>
              \/ \E m \in Members(msgs) : Settles(m, k)
              \/ \E m \in Members(msgs) : AnswersRejoin(m) /\ ~m.ok
        /\ (\E m \in Members(msgs) : Grants(m)) => \E m \in Members(msgs) : Settles(m, k)
    BY <1>1 DEF Replies, Owed
  <2>4. (\E m \in Members(msgs) : Settles(m, k)) => Heals(c, k)'
    BY <1>3 DEF Heals
  <2>5. Heals(c, k) => Heals(c, k)'
    BY <1>3, <2>3, <2>4 DEF Heals
  <2>6. Rejoining(c) => r.t = "room:rejoin"
    BY <1>3 DEF Rejoining
  <2> QED BY <1>3, <2>2, <2>3, <2>4, <2>5, <2>6
<1> QED BY <1>7, <1>8

LEMMA RepliesKeep ==
    ASSUME PhoneInv, RoomInv', NEW c \in Conns, NEW msgs, Replies(c, msgs)
    PROVE  PhoneInv'
BY RepliesWire, RepliesHere, RepliesView DEF PhoneInv
LEMMA AckType ==
    ASSUME PhoneInv, NEW c \in Conns, Pending(c), NEW ok \in BOOLEAN, NEW error \in BOOLEAN,
           NEW m, m = Ack(c, ok, error)
    PROVE  /\ m \in Messages /\ m.t = "ack" /\ m.to = Request(c) /\ m.ok = ok /\ m.error = error
           /\ m.id = Viewer(c)
           /\ ~Carries(m)
<1>1. PICK v, r : v = Viewer(c) /\ r = Request(c)
  OBVIOUS
<1>2. r \in Requests /\ v \in Ids \cup {None}
  <2>1. /\ r \in Requests
        /\ v = None \/ v \in 1..issued \/ (v = issued + 1 /\ v \in Ids /\ Adopts(c))
    BY <1>1, WhoAsks
  <2>2. issued \in 0..MaxIds
    BY DEF PhoneInv, RoomInv
  <2> QED BY <2>1, <2>2, NumberFacts DEF Ids
<1>3. m = [t |-> "ack", to |-> r, ok |-> ok, error |-> error, id |-> v]
  BY <1>1 DEF Ack
<1>4. m \in Answers
  BY <1>2, <1>3 DEF Answers
<1> QED BY <1>1, <1>3, <1>4 DEF Messages, Carries, Brings

LEMMA SentAlone ==
    ASSUME PhoneInv, NEW c \in Conns, socks[c].open, NEW sent, Send(sent),
           NEW msgs, sent[c] = msgs, \A d \in Conns \ {c} : sent[d] = <<>>
    PROVE  down' = [d \in Conns |-> IF d = c THEN down[d] \o msgs ELSE down[d]]
<1>1. down \in [Conns -> Seq(Messages)]
  BY DEF PhoneInv, WireInv
<1>2. ASSUME NEW d \in Conns PROVE down[d] \o <<>> = down[d]
  BY <1>1
<1>3. down' = [d \in Conns |-> IF socks[d].open THEN down[d] \o sent[d] ELSE down[d]]
  BY DEF Send
<1>4. ASSUME NEW d \in Conns
      PROVE  (IF socks[d].open THEN down[d] \o sent[d] ELSE down[d])
             = (IF d = c THEN down[d] \o msgs ELSE down[d])
  BY <1>2
<1> QED BY <1>3, <1>4

LEMMA TokensLeft ==
    ASSUME PhoneInv, NEW c \in Conns
    PROVE  socks[c].tokens \in 0..BURST /\ Left(c) \in 0..BURST /\ 0 \in 0..BURST
<1>1. socks[c].tokens \in 0..BURST
  BY DEF PhoneInv, WireInv, Sockets
<1> QED BY <1>1, PhoneBounds DEF Left

(* A refusal, with or without an error.                                    *)
LEMMA DenialKeeps ==
    ASSUME PhoneInv, NEW c \in Conns, Pending(c), NEW tokens \in 0..BURST, Read(c, tokens),
           NEW error \in BOOLEAN, Send(Alone(c, <<Ack(c, FALSE, error)>>)),
           ignored' = Unheeded(c, error), UNCHANGED <<room, page, stored, bounds>>,
           event /\ Viewer(c) \in DOMAIN players => Viewer(c) = socks[c].playerId
    PROVE  PhoneInv'
<1>1. PICK r, v : r = Request(c) /\ v = Viewer(c)
  OBVIOUS
<1>2. PICK m : m = Ack(c, FALSE, error)
  OBVIOUS
<1>3. PICK no \in BOOLEAN : no = FALSE
  OBVIOUS
<1>4. m = Ack(c, no, error)
  BY <1>2, <1>3
<1>5. /\ m \in Messages /\ m.t = "ack" /\ m.to = r /\ ~m.ok /\ m.error = error
      /\ m.id = v /\ ~Carries(m)
  BY <1>1, <1>3, <1>4, AckType
<1>6. PICK msgs : msgs = <<m>>
  OBVIOUS
<1>7. msgs \in Seq(Messages) /\ Members(msgs) = {m}
  BY <1>5, <1>6, MembersOne
<1>8. socks[c].open /\ r \in Requests
  BY <1>1, WhoAsks
<1>9. down' = [d \in Conns |-> IF d = c THEN down[d] \o msgs ELSE down[d]]
  <2>1. PICK sent : sent = Alone(c, msgs)
    OBVIOUS
  <2>2. Send(sent)
    BY <1>2, <1>6, <2>1
  <2>3. sent[c] = msgs /\ \A d \in Conns \ {c} : sent[d] = <<>>
    BY <2>1 DEF Alone
  <2> QED BY <2>2, <2>3, <1>8, SentAlone
<1>10. event' = event /\ state' = state /\ players' = players /\ page' = page
       /\ stored' = stored /\ used' = used
  BY DEF room, bounds
<1>11. ignored \subseteq ignored'
  BY DEF Unheeded
<1>12. ASSUME NEW k \in Cells, Asks(r, k)
       PROVE  k \in ignored' \/ Settles(m, k)
  <2>1. r.k = k /\ r.t \in {"fill", "pick", "clear"}
    BY <1>12 DEF Asks
  <2>2. CASE r.t = "fill" /\ error
    BY <2>1, <2>2, <1>5 DEF Settles
  <2>3. CASE ~(r.t = "fill" /\ error)
    BY <2>1, <2>3, <1>1 DEF Unheeded
  <2> QED BY <2>2, <2>3
<1>13. Owed(c, msgs)
  <2>1. r.t = "room:rejoin" => AnswersRejoin(m)
    BY <1>5 DEF AnswersRejoin
  <2>2. ~Grants(m)
    BY <1>5 DEF Grants
  <2> QED BY <2>1, <2>2, <1>1, <1>5, <1>7, <1>10, <1>12 DEF Owed
<1>14. Replies(c, msgs)
  BY <1>1, <1>5, <1>7, <1>9, <1>10, <1>11, <1>13 DEF Replies
<1>15. RoomInv'
  <2>1. issued' \in 0..MaxIds /\ 1..issued \subseteq 1..issued'
    BY ReadIssues
  <2> QED BY <2>1, <1>10 DEF PhoneInv, RoomInv
<1> QED BY <1>14, <1>15, RepliesKeep

(* A claim on a player in the room is never dropped nor refused: the bucket is
   fresh, and the room is open.                                            *)
LEMMA ClaimFacts ==
    ASSUME PhoneInv, NEW c \in Conns, Pending(c), event, Viewer(c) \in DOMAIN players,
           Viewer(c) # socks[c].playerId
    PROVE  ~Empty(c) /\ Allowed(c)
<1>1. PICK r, v : r = Request(c) /\ v = Viewer(c)
  OBVIOUS
<1>2. issued \in 0..MaxIds /\ DOMAIN players \subseteq 1..issued /\ state # "SETUP"
  BY DEF PhoneInv, RoomInv
<1>3. v \in 1..issued /\ v # None
  BY <1>1, <1>2, NumberFacts
<1>4. v = socks[c].playerId \/ r.t = "room:rejoin" \/ v = issued + 1
  BY <1>1, WhoAsks
<1>5. r.t = "room:rejoin"
  BY <1>1, <1>2, <1>3, <1>4
<1>6. socks[c] = Fresh
  BY <1>1, <1>5, WhoAsks
<1>7. ~Empty(c)
  BY <1>6, SocketFacts, PhoneBounds DEF Empty
<1>8. Allowed(c)
  BY <1>1, <1>2, <1>3, <1>5 DEF Allowed
<1> QED BY <1>7, <1>8

LEMMA ThrottleKeeps ==
    ASSUME PhoneInv, NEW c \in Conns, Throttle(c)
    PROVE  PhoneInv'
<1>1. PICK no \in BOOLEAN : no = FALSE
  OBVIOUS
<1>2. /\ Pending(c) /\ Empty(c) /\ Read(c, 0) /\ Send(Alone(c, <<Ack(c, FALSE, no)>>))
      /\ ignored' = Unheeded(c, no) /\ UNCHANGED <<room, page, stored, bounds>>
  BY <1>1 DEF Throttle
<1>3. event /\ Viewer(c) \in DOMAIN players => Viewer(c) = socks[c].playerId
  BY <1>2, ClaimFacts
<1>4. 0 \in 0..BURST
  BY TokensLeft
<1> QED BY <1>2, <1>3, <1>4, DenialKeeps

LEMMA RefuseKeeps ==
    ASSUME PhoneInv, NEW c \in Conns, Refuse(c)
    PROVE  PhoneInv'
<1>1. PICK yes \in BOOLEAN : yes = TRUE
  OBVIOUS
<1>2. PICK tokens : tokens = IF Viewer(c) = None THEN socks[c].tokens ELSE Left(c)
  OBVIOUS
<1>3. /\ Pending(c) /\ ~Allowed(c) /\ Read(c, tokens) /\ Send(Alone(c, <<Ack(c, FALSE, yes)>>))
      /\ ignored' = Unheeded(c, yes) /\ UNCHANGED <<room, page, stored, bounds>>
  BY <1>1, <1>2 DEF Refuse
<1>4. event /\ Viewer(c) \in DOMAIN players => Viewer(c) = socks[c].playerId
  BY <1>3, ClaimFacts
<1>5. tokens \in 0..BURST
  BY <1>2, TokensLeft
<1> QED BY <1>3, <1>4, <1>5, DenialKeeps
(* What a reducer emits to the phone whose request it was.                 *)
IsEmission(emits) ==
    emits \in Seq(Messages) /\ \A m \in Members(emits) : m.t \in {"card", "cell:result", "cell:candidates"}

LEMMA NoEmission == IsEmission(<<>>)
BY MembersNone DEF IsEmission

LEMMA OneEmission ==
    ASSUME NEW m \in Messages, m.t \in {"card", "cell:result", "cell:candidates"}
    PROVE  IsEmission(<<m>>)
BY MembersOne DEF IsEmission

LEMMA AcceptKeeps ==
    ASSUME PhoneInv, NEW c \in Conns, NEW ps, NEW emits, Accept(c, ps, emits),
           IsEmission(emits), IsRoster(ps), Viewer(c) \in DOMAIN ps,
           DOMAIN ps \subseteq DOMAIN players \cup {Viewer(c)}
    PROVE  PhoneInv'
<1>1. PICK r, v : r = Request(c) /\ v = Viewer(c)
  OBVIOUS
<1>2. PICK tokens \in 0..BURST : tokens = Left(c)
  BY TokensLeft
<1>3. /\ Pending(c) /\ Allowed(c) /\ Read(c, tokens) /\ players' = ps
      /\ event' = event /\ state' = state /\ page' = page /\ stored' = stored
      /\ ignored' = ignored /\ used' = used
  BY <1>2 DEF Accept, bounds
<1>4. event /\ v # None /\ state # "SETUP" /\ state \in States
  BY <1>1, <1>3 DEF Allowed, PhoneInv, RoomInv
<1>5. /\ socks[c].open /\ r \in Requests
      /\ playerSockets'[v] = c
      /\ v \in 1..issued' /\ issued' \in 0..MaxIds /\ 1..issued \subseteq 1..issued'
  BY <1>1, <1>3, <1>4, WhoAsks, ReadSockets, ReadIssues
<1>6. PICK yes, no : yes = TRUE /\ no = FALSE
  OBVIOUS
<1>7. PICK m : m = Ack(c, yes, no)
  OBVIOUS
<1>8. m \in Messages /\ m.t = "ack" /\ m.to = r /\ m.ok /\ m.id = v /\ ~Carries(m)
  BY <1>1, <1>3, <1>6, <1>7, AckType
<1>9. PICK view : view = ViewOf(state, ps, v)
  OBVIOUS
<1>10. view \in Views /\ view.me # None
  BY <1>1, <1>4, <1>9, ViewFacts
<1>11. PICK pic : pic = [t |-> "room:state", view |-> view]
  OBVIOUS
<1>12. pic \in Messages /\ pic.t = "room:state" /\ pic.view = view /\ Brings(pic)
  BY <1>10, <1>11 DEF Messages, Pictures, Brings
<1>13. \A k \in Cells : Settles(pic, k)
  BY <1>10, <1>12 DEF Settles
<1>14. PICK w, z : w = <<pic>> /\ z = <<m>>
  OBVIOUS
<1>15. /\ w \in Seq(Messages) /\ Members(w) = {pic} /\ EndsWith(w, view)
       /\ z \in Seq(Messages) /\ Members(z) = {m}
  BY <1>8, <1>12, <1>14, MembersOne, EndsHere
<1>16. PICK q : q = w \o z
  OBVIOUS
<1>17. q \in Seq(Messages) /\ Members(q) = {pic, m} /\ EndsWith(q, view)
  <2>1. EndsWith(q, view)
    BY <1>8, <1>15, <1>16, EndsLeft
  <2>2. q \in Seq(Messages) /\ Members(q) = Members(w) \cup Members(z)
    BY <1>15, <1>16, MembersConcat
  <2> QED BY <2>1, <2>2, <1>15
<1>18. PICK msgs : msgs = emits \o q
  OBVIOUS
<1>19. /\ msgs \in Seq(Messages) /\ Members(msgs) = Members(emits) \cup {pic, m}
       /\ EndsWith(msgs, view)
  BY <1>17, <1>18, MembersConcat, EndsRight DEF IsEmission
<1>20. \A x \in Members(emits) : x.t # "connect" /\ x.t # "ack"
  BY DEF IsEmission
<1>21. down' = [d \in Conns |-> IF d = c THEN down[d] \o msgs ELSE down[d]]
  <2>1. PICK sent : sent = [d \in Conns |->
            (IF d = playerSockets'[Viewer(c)] THEN emits ELSE <<>>)
            \o (IF d = c THEN Append(PictureBack(c, ps), Ack(c, TRUE, FALSE)) ELSE <<>>)]
    OBVIOUS
  <2>2. Send(sent)
    BY <2>1 DEF Accept
  <2>3. Append(PictureBack(c, ps), Ack(c, TRUE, FALSE)) = q
    <3>1. PictureBack(c, ps) = w
      BY <1>1, <1>9, <1>11, <1>14 DEF PictureBack, PushState
    <3>2. Append(w, m) = w \o z
      BY <1>8, <1>14, <1>15
    <3> QED BY <3>1, <3>2, <1>6, <1>7, <1>16
  <2>4. sent[c] = msgs
    BY <2>1, <2>3, <1>1, <1>5, <1>18
  <2>5. <<>> \o <<>> = <<>>
    OBVIOUS
  <2>6. \A d \in Conns \ {c} : sent[d] = <<>>
    BY <2>1, <2>5, <1>1, <1>5
  <2> QED BY <2>2, <2>4, <2>6, <1>5, SentAlone
<1>22. Owed(c, msgs)
  <2>1. r.t = "room:rejoin" => AnswersRejoin(m)
    BY <1>8 DEF AnswersRejoin
  <2> QED BY <2>1, <1>1, <1>3, <1>4, <1>9, <1>13, <1>19 DEF Owed
<1>23. Replies(c, msgs)
  BY <1>1, <1>3, <1>8, <1>12, <1>19, <1>20, <1>21, <1>22 DEF Replies
<1>24. RoomInv'
  <2>1. DOMAIN ps \subseteq 1..issued'
    BY <1>1, <1>5 DEF PhoneInv, RoomInv
  <2> QED BY <2>1, <1>3, <1>4, <1>5 DEF PhoneInv, RoomInv
<1> QED BY <1>23, <1>24, RepliesKeep

LEMMA Emissions ==
    /\ IsEmission(<<Card>>)
    /\ \A k \in Cells : /\ \A ok \in BOOLEAN : IsEmission(Result(k, ok))
                        /\ IsEmission(<<[t |-> "cell:candidates", k |-> k]>>)
<1>1. IsEmission(<<Card>>)
  <2>1. Card \in Messages /\ Card.t = "card"
    BY DEF Card, Messages, Plain
  <2> QED BY <2>1, OneEmission
<1>2. ASSUME NEW k \in Cells, NEW ok \in BOOLEAN PROVE IsEmission(Result(k, ok))
  <2>1. PICK m : m = [t |-> "cell:result", k |-> k, ok |-> ok]
    OBVIOUS
  <2>2. m \in Messages /\ m.t = "cell:result"
    BY <2>1 DEF Messages, Results
  <2>3. Result(k, ok) = <<m>>
    BY <2>1 DEF Result
  <2> QED BY <2>2, <2>3, OneEmission
<1>3. ASSUME NEW k \in Cells PROVE IsEmission(<<[t |-> "cell:candidates", k |-> k]>>)
  <2>1. PICK m : m = [t |-> "cell:candidates", k |-> k]
    OBVIOUS
  <2>2. m \in Messages /\ m.t = "cell:candidates"
    BY <2>1 DEF Messages, Pickers
  <2> QED BY <2>1, <2>2, OneEmission
<1> QED BY <1>1, <1>2, <1>3

LEMMA JoinedKeeps ==
    ASSUME PhoneInv, NEW c \in Conns, Joined(c)
    PROVE  PhoneInv'
<1>1. PICK v : v = Viewer(c)
  OBVIOUS
<1>2. PICK r : r = [connected |-> TRUE, fills |-> {}]
  OBVIOUS
<1>3. PICK ps : ps = Seated(players, v)
  OBVIOUS
<1>4. PICK emits : emits = IF state = "RUNNING" THEN <<Card>> ELSE <<>>
  OBVIOUS
<1>5. Accept(c, ps, emits) /\ Request(c).t = "room:join"
  BY <1>1, <1>2, <1>3, <1>4 DEF Joined
<1>6. v \notin DOMAIN players /\ v # None /\ Pending(c)
  BY <1>1, <1>5 DEF Accept, Allowed
<1>7. v \in Ids
  <2>1. /\ v \in 1..issued \/ (v = issued + 1 /\ v \in Ids)
        /\ issued \in 0..MaxIds
    BY <1>1, <1>6, WhoAsks DEF PhoneInv, RoomInv
  <2> QED BY <2>1, NumberFacts DEF Ids
<1>8. DOMAIN ps = DOMAIN players \cup {v} /\ ps[v] = r /\ \A x \in DOMAIN players : ps[x] = players[x]
  BY <1>2, <1>3, <1>6 DEF Seated
<1>9. r \in Players
  BY <1>2 DEF Players
<1>10. IsRoster(ps)
  BY <1>7, <1>8, <1>9 DEF PhoneInv, RoomInv, IsRoster
<1>11. IsEmission(emits)
  BY <1>4, Emissions, NoEmission
<1> QED BY <1>1, <1>5, <1>8, <1>10, <1>11, AcceptKeeps
LEMMA RejoinedKeeps ==
    ASSUME PhoneInv, NEW c \in Conns, Rejoined(c)
    PROVE  PhoneInv'
<1>1. PICK v : v = Viewer(c)
  OBVIOUS
<1>2. PICK b \in BOOLEAN : b = TRUE
  OBVIOUS
<1>3. PICK ps : ps = Presence(players, v, b)
  OBVIOUS
<1>4. PICK emits : emits = <<Card>>
  OBVIOUS
<1>5. Accept(c, ps, emits) /\ Request(c).t = "room:rejoin"
  BY <1>1, <1>2, <1>3, <1>4 DEF Rejoined, Presence
<1>6. v \in DOMAIN players /\ IsRoster(players)
  BY <1>1, <1>5 DEF Accept, Allowed, PhoneInv, RoomInv
<1>7. IsRoster(ps) /\ DOMAIN ps = DOMAIN players
  BY <1>3, <1>6, MarkPresence
<1>8. IsEmission(emits)
  BY <1>4, Emissions
<1> QED BY <1>1, <1>5, <1>6, <1>7, <1>8, AcceptKeeps

(* A cell of a player's card is filled, or cleared.                        *)
Refilled(ps, id, fills) == [ps EXCEPT ![id].fills = fills]

LEMMA RefillKeepsRoster ==
    ASSUME NEW ps, IsRoster(ps), NEW id, id \in DOMAIN ps, NEW fills \in SUBSET Cells,
           NEW new, new = Refilled(ps, id, fills)
    PROVE  IsRoster(new) /\ DOMAIN new = DOMAIN ps
<1>1. PICK old : old = ps[id]
  OBVIOUS
<1>2. PICK r : r = [old EXCEPT !.fills = fills]
  OBVIOUS
<1>3. r \in Players
  BY <1>1, <1>2 DEF IsRoster, Players
<1>4. new = [ps EXCEPT ![id] = r]
  BY <1>1, <1>2 DEF Refilled
<1>5. DOMAIN new = DOMAIN ps /\ \A x \in DOMAIN ps : new[x] = IF x = id THEN r ELSE ps[x]
  BY <1>4
<1> QED BY <1>3, <1>5 DEF IsRoster

LEMMA CellOfCard ==
    ASSUME PhoneInv, NEW c \in Conns, Pending(c), Allowed(c),
           Request(c).t \in {"fill", "pick", "clear"}
    PROVE  /\ Request(c).k \in Cells /\ Viewer(c) \in DOMAIN players /\ IsRoster(players)
           /\ players[Viewer(c)].fills \in SUBSET Cells
<1>1. PICK r : r = Request(c)
  OBVIOUS
<1>2. r \in Requests
  BY <1>1, WhoAsks
<1>3. r.k \in Cells
  BY <1>1, <1>2, RequestKinds
<1>4. Viewer(c) \in DOMAIN players /\ IsRoster(players)
  BY DEF Allowed, PhoneInv, RoomInv
<1> QED BY <1>1, <1>3, <1>4 DEF IsRoster, Players

LEMMA FilledKeeps ==
    ASSUME PhoneInv, NEW c \in Conns, Pending(c), Allowed(c), Filled(c)
    PROVE  PhoneInv'
<1>1. PICK v, k, old : v = Viewer(c) /\ k = Request(c).k /\ old = players[v].fills
  OBVIOUS
<1>2. k \in Cells /\ v \in DOMAIN players /\ IsRoster(players) /\ old \in SUBSET Cells
  BY <1>1, CellOfCard DEF Filled
<1>3. PICK yes, no \in BOOLEAN : yes = TRUE /\ no = FALSE
  OBVIOUS
<1>4. PICK good, bad, some : /\ good = Result(k, yes) /\ bad = Result(k, no)
                             /\ some = <<[t |-> "cell:candidates", k |-> k]>>
  OBVIOUS
<1>5. IsEmission(good) /\ IsEmission(bad) /\ IsEmission(some)
  BY <1>2, <1>3, <1>4, Emissions
<1>6. PICK fills : fills = old \cup {k}
  OBVIOUS
<1>7. PICK ps : ps = Refilled(players, v, fills)
  OBVIOUS
<1>8. IsRoster(ps) /\ DOMAIN ps = DOMAIN players
  <2>1. fills \in SUBSET Cells
    BY <1>2, <1>6
  <2> QED BY <2>1, <1>2, <1>7, RefillKeepsRoster
<1>9. Accept(c, ps, good) \/ Accept(c, players, bad) \/ Accept(c, players, some)
  <2>1. [players EXCEPT ![v].fills = @ \cup {k}] = ps
    BY <1>1, <1>6, <1>7 DEF Refilled
  <2> QED BY <2>1, <1>1, <1>3, <1>4 DEF Filled
<1> QED BY <1>1, <1>2, <1>5, <1>8, <1>9, AcceptKeeps

LEMMA ClearedKeeps ==
    ASSUME PhoneInv, NEW c \in Conns, Pending(c), Allowed(c), Cleared(c)
    PROVE  PhoneInv'
<1>1. PICK v, k, old : v = Viewer(c) /\ k = Request(c).k /\ old = players[v].fills
  OBVIOUS
<1>2. k \in Cells /\ v \in DOMAIN players /\ IsRoster(players) /\ old \in SUBSET Cells
  BY <1>1, CellOfCard DEF Cleared
<1>3. PICK yes \in BOOLEAN : yes = TRUE
  OBVIOUS
<1>4. PICK emits : emits = IF k \in old THEN Result(k, yes) ELSE <<>>
  OBVIOUS
<1>5. IsEmission(emits)
  BY <1>2, <1>4, Emissions, NoEmission
<1>6. PICK fills : fills = old \ {k}
  OBVIOUS
<1>7. PICK ps : ps = Refilled(players, v, fills)
  OBVIOUS
<1>8. IsRoster(ps) /\ DOMAIN ps = DOMAIN players
  <2>1. fills \in SUBSET Cells
    BY <1>2, <1>6
  <2> QED BY <2>1, <1>2, <1>7, RefillKeepsRoster
<1>9. Accept(c, ps, emits)
  <2>1. [players EXCEPT ![v].fills = @ \ {k}] = ps
    BY <1>1, <1>6, <1>7 DEF Refilled
  <2> QED BY <2>1, <1>1, <1>3, <1>4 DEF Cleared
<1> QED BY <1>1, <1>2, <1>5, <1>8, <1>9, AcceptKeeps

LEMMA ServeKeeps ==
    ASSUME PhoneInv, NEW c \in Conns, Serve(c)
    PROVE  PhoneInv'
BY JoinedKeeps, RejoinedKeeps, FilledKeeps, ClearedKeeps DEF Serve
-----------------------------------------------------------------------------
(* The invariant holds from the start on *)

LEMMA NewPageFacts ==
    /\ NewPage \in Pages /\ ~NewPage.connected /\ NewPage.conn = None /\ NewPage.pid = None
    /\ NewPage.sheet = None
BY DEF NewPage, Pages, Marks

LEMMA InitInv ==
    ASSUME Init
    PROVE  PhoneInv
<1>1. /\ socks = [c \in Conns |-> Closed] /\ up = [c \in Conns |-> <<>>]
      /\ down = [c \in Conns |-> <<>>] /\ playerSockets = [id \in Ids |-> None]
      /\ players = <<>> /\ issued = 0 /\ page = NewPage /\ stored = None /\ used = 0
      /\ \/ event = FALSE /\ state = "SETUP"
         \/ event = TRUE /\ state = "LOBBY"
  BY DEF Init
<1>2. RoomInv
  <2>1. IsRoster(players) /\ DOMAIN players = {}
    BY <1>1 DEF IsRoster
  <2>2. 0 \in 0..MaxIds
    BY PhoneBounds
  <2>3. event \in BOOLEAN /\ state \in States /\ (~event => state = "SETUP")
    BY <1>1 DEF States
  <2> QED BY <2>1, <2>2, <2>3, <1>1 DEF RoomInv
<1>3. PageInv
  BY <1>1, NewPageFacts, PhoneBounds DEF PageInv
<1>4. WireInv
  <2>1. \A c \in Conns : /\ socks[c] = Closed /\ ~socks[c].open /\ socks[c].playerId = None
                         /\ up[c] = <<>> /\ Later(up[c]) = {}
                         /\ down[c] = <<>> /\ Later(down[c]) = {} /\ Members(down[c]) = {}
    BY <1>1, SocketFacts, MembersNone
  <2>2. /\ socks \in [Conns -> Sockets]
        /\ up \in [Conns -> Seq(Requests)] /\ down \in [Conns -> Seq(Messages)]
    BY <1>1, SocketFacts
  <2> QED BY <2>1, <2>2 DEF WireInv
<1>5. \A c \in Conns : ~socks[c].open
  BY <1>1, SocketFacts
<1>6. HereInv
  BY <1>1, <1>5 DEF HereInv, RegisteredSocketIsOpen
<1>7. JoinInv /\ ViewInv /\ GreenInv
  BY <1>5 DEF JoinInv, ViewInv, GreenInv
<1> QED BY <1>2, <1>3, <1>4, <1>6, <1>7 DEF PhoneInv

LEMMA NextKeeps ==
    ASSUME PhoneInv, Next
    PROVE  PhoneInv'
<1>1. CASE \E c \in Conns : Throttle(c) \/ Refuse(c) \/ Serve(c) \/ Disconnect(c)
  BY <1>1, ThrottleKeeps, RefuseKeeps, ServeKeeps, DisconnectKeeps
<1>2. CASE GoneOffline \/ Reload
  BY <1>2, LoseKeeps DEF GoneOffline, Reload
<1>3. CASE Restart \/ Master \/ Player \/ Connect \/ Receive
  BY <1>3, RestartKeeps, MasterKeeps, PlayerKeeps, ConnectKeeps, ReceiveKeeps
<1> QED BY <1>1, <1>2, <1>3 DEF Next

LEMMA StutterKeeps ==
    ASSUME PhoneInv, UNCHANGED pvars
    PROVE  PhoneInv'
<1>1. /\ event' = event /\ state' = state /\ players' = players /\ socks' = socks
      /\ playerSockets' = playerSockets /\ issued' = issued /\ up' = up /\ down' = down
      /\ page' = page /\ stored' = stored /\ ignored' = ignored /\ used' = used
  BY DEF pvars, host, room, wires, bounds
<1>2. RoomInv' /\ PageInv' /\ WireInv'
  BY <1>1 DEF PhoneInv, RoomInv, PageInv, WireInv
<1>3. HereInv' /\ JoinInv'
  BY <1>1 DEF PhoneInv, HereInv, RegisteredSocketIsOpen, JoinInv, Rejoining
<1>4. ViewInv' /\ GreenInv'
  BY <1>1 DEF PhoneInv, ViewInv, GreenInv, InRoom, Heals, Rejoining
<1> QED BY <1>2, <1>3, <1>4 DEF PhoneInv

(* usePlayer.ts and namespaces.ts together: whatever the phone, the host and
   the network do, a claim on a player of the room is under way or granted,
   what is on its way to the page ends with the room's picture, and an
   optimistic marker is about to be settled.                               *)
THEOREM PhoneInvariance == PhoneSpec => []PhoneInv
<1>1. Init => PhoneInv
  BY InitInv
<1>2. PhoneInv /\ [Next]_pvars => PhoneInv'
  BY NextKeeps, StutterKeeps
<1> QED BY <1>1, <1>2, PTL DEF PhoneSpec

(* The state of the phone, its sockets and the room stays well formed.     *)
THEOREM PhoneTypesHold == PhoneSpec => []PhoneTypeOK
<1>1. PhoneInv => PhoneTypeOK
  <2> SUFFICES ASSUME PhoneInv PROVE PhoneTypeOK
    OBVIOUS
  <2>1. /\ event \in BOOLEAN /\ state \in States /\ DOMAIN players \subseteq Ids
        /\ \A id \in DOMAIN players :
              players[id] \in [connected : BOOLEAN, fills : SUBSET Cells]
    BY DEF PhoneInv, RoomInv, IsRoster, Players
  <2>2. /\ socks \in [Conns -> [open : BOOLEAN, playerId : Ids \cup {None}, tokens : 0..BURST]]
        /\ playerSockets \in [Ids -> Conns \cup {None}]
    BY DEF PhoneInv, WireInv, HereInv, Sockets
  <2>3. /\ page.conn \in Conns \cup {None} /\ page.pid \in Ids \cup {None}
        /\ page.cells \in [Cells -> Markers \cup {"error", None}]
    BY DEF PhoneInv, PageInv, Pages, Marks
  <2>4. stored \in Ids \cup {None}
    <3>1. issued \in 0..MaxIds /\ stored \in {None} \cup 1..issued
      BY DEF PhoneInv, RoomInv, PageInv
    <3> QED BY <3>1, NumberFacts DEF Ids
  <2> QED BY <2>1, <2>2, <2>3, <2>4 DEF PhoneTypeOK
<1> QED BY <1>1, PhoneInvariance, PTL

(* namespaces.ts:180, 244: an identity is registered to an open socket that
   has adopted it, through any number of reconnects and reloads.           *)
THEOREM RegisteredSocketsAreOpen == PhoneSpec => []RegisteredSocketIsOpen
<1>1. PhoneInv => RegisteredSocketIsOpen
  BY DEF PhoneInv, HereInv
<1> QED BY <1>1, PhoneInvariance, PTL

(* Nothing is in flight: the phone is where its identity is.               *)
LEMMA QuietHere ==
    ASSUME PhoneInv, Quiet
    PROVE  /\ page.conn \in Conns /\ page.conn = used /\ page.connected
           /\ socks[page.conn].open /\ page.pid = stored
           /\ Members(down[page.conn]) = {} /\ Members(up[page.conn]) = {}
           /\ ~Rejoining(page.conn)
           /\ page.pid # None =>
                 socks[page.conn].playerId = page.pid /\ playerSockets[page.pid] = page.conn
<1>1. page.conn \in Conns /\ page.conn = used /\ page.connected /\ page.pid = stored
  BY DEF Quiet, PhoneInv, PageInv, Pages
<1>2. /\ socks[page.conn].open /\ ~Rejoining(page.conn)
      /\ Members(down[page.conn]) = {} /\ Members(up[page.conn]) = {}
  BY MembersNone DEF Quiet, Rejoining
<1> QED BY <1>1, <1>2 DEF PhoneInv, HereInv

(* master/spec.md 4.4: once nothing is in flight, a phone whose player is in
   the room is where the unicasts to that player go.                       *)
THEOREM UnicastsArrive == PhoneSpec => []UnicastsReachPhone
<1>1. PhoneInv => UnicastsReachPhone
  <2> SUFFICES ASSUME PhoneInv, Quiet, InRoom(page.pid)
               PROVE  playerSockets[page.pid] = page.conn
    BY DEF UnicastsReachPhone
  <2>1. page.pid # None
    BY NumberFacts DEF InRoom, PhoneInv, RoomInv, IsRoster
  <2> QED BY <2>1, QuietHere
<1> QED BY <1>1, PhoneInvariance, PTL

(* bingo/req.md 806: once nothing is in flight, a phone that keeps the identity
   of a player in the room has come back as that player and shows the room's
   picture of its card, whatever was lost or came late on the way.         *)
THEOREM CardsAreRestored == PhoneSpec => []CardRestored
<1>1. PhoneInv => CardRestored
  <2> SUFFICES ASSUME PhoneInv, Quiet, InRoom(stored)
               PROVE  /\ page.joined /\ page.pid = stored
                      /\ page.view = ViewOf(state, players, stored)
    BY DEF CardRestored
  <2>1. stored # None
    BY NumberFacts DEF InRoom, PhoneInv, RoomInv, IsRoster
  <2>2. PICK c : c = page.conn
    OBVIOUS
  <2>3. /\ c \in Conns /\ socks[c].open /\ page.connected /\ page.pid = stored
        /\ Members(down[c]) = {} /\ ~Rejoining(c) /\ socks[c].playerId = stored
    BY <2>1, <2>2, QuietHere
  <2>4. page.joined
    BY <2>1, <2>2, <2>3 DEF PhoneInv, JoinInv
  <2>5. Shows(down[c], page.view, ViewOf(state, players, stored)) /\ down[c] = <<>>
    BY <2>2, <2>3 DEF PhoneInv, ViewInv, Quiet
  <2> QED BY <2>3, <2>4, <2>5, EndsNever DEF Shows
<1> QED BY <1>1, PhoneInvariance, PTL

(* bingo/req.md 235, as far as the code goes: once nothing is in flight, an
   optimistic marker is one whose answer the page does not heed.           *)
THEOREM GreenSettles == PhoneSpec => []GreenIsSettled
<1>1. PhoneInv => GreenIsSettled
  <2> SUFFICES ASSUME PhoneInv, Quiet, InRoom(page.pid),
                      NEW k \in Cells, page.cells[k] \in Markers, k \notin ignored
               PROVE  FALSE
    BY DEF GreenIsSettled
  <2>1. page.pid # None
    BY NumberFacts DEF InRoom, PhoneInv, RoomInv, IsRoster
  <2>2. PICK c : c = page.conn
    OBVIOUS
  <2>3. /\ c \in Conns /\ socks[c].open /\ page.connected
        /\ Members(down[c]) = {} /\ Members(up[c]) = {} /\ ~Rejoining(c)
    BY <2>2, QuietHere
  <2> QED BY <2>1, <2>2, <2>3 DEF PhoneInv, GreenInv, Heals
<1> QED BY <1>1, PhoneInvariance, PTL
==============================================================================
