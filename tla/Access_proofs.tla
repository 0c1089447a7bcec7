---------------------------- MODULE Access_proofs ----------------------------
(***************************************************************************)
(* What holds of sessions, lockouts and reactions for every number of      *)
(* consoles, addresses and phones, every limit and every period.           *)
(***************************************************************************)
EXTENDS Access, SequenceTheorems, NaturalsInduction, WellFoundedInduction, TLAPS

Tokens   == [secret : Nat, exp : Nat, at : Nat, boot : Nat]
Pages    == [auth  : {"checking", "signed-in", "signed-out"}, busy : BOOLEAN,
             sock  : {"none", "connecting", "open", "kicked"}, event : BOOLEAN, at : Nat]
Routes   == {"session", "auth", "signout"}
Requests == [t : Routes, flag : BOOLEAN]
Answers  == [t : {"answer"}, to : Routes, ok : BOOLEAN, token : Tokens \cup {None}]
Buckets  == [attempts : Seq(Nat), lockedUntil : Nat]
Windows  == [since : Int, count : Nat]

-----------------------------------------------------------------------------
(* Times in order *)

Ordered(s) == \A i, j \in DOMAIN s : i <= j => s[i] <= s[j]

LEMMA LeastNumber ==
    ASSUME NEW S, S \subseteq Nat, S # {}
    PROVE  \E n \in S : \A m \in S : n <= m
<1>1. IsWellFoundedOn(OpToRel(<, Nat), Nat)
  BY NatLessThanWellFounded
<1>2. PICK n \in S : \A m \in S : ~(<<m, n>> \in OpToRel(<, Nat))
  BY <1>1, WFMin
<1>3. ASSUME NEW m \in S PROVE n <= m
  <2>1. ~(m < n)
    BY <1>2 DEF OpToRel
  <2> QED BY <2>1
<1> QED BY <1>3

(* What is old is the beginning of the list.                               *)
LEMMA OldComesFirst ==
    ASSUME NEW s \in Seq(Nat), Ordered(s), NEW at \in Nat, NEW age \in Nat
    PROVE  \E n \in 0..Len(s) : \A i \in DOMAIN s : i <= n <=> at - s[i] >= age
<1> DEFINE Young == {i \in DOMAIN s : ~(at - s[i] >= age)}
<1>0. DOMAIN s = 1..Len(s) /\ Len(s) \in Nat /\ \A i \in DOMAIN s : s[i] \in Nat
  OBVIOUS
<1>1. CASE Young = {}
  <2>1. \A i \in DOMAIN s : i <= Len(s) /\ at - s[i] >= age
    BY <1>0, <1>1
  <2>2. \A i \in DOMAIN s : i <= Len(s) <=> at - s[i] >= age
    BY <2>1
  <2>3. Len(s) \in 0..Len(s)
    BY <1>0
  <2> HIDE DEF Young
  <2> QED BY <2>2, <2>3
<1>2. CASE Young # {}
  <2>1. Young \subseteq Nat
    BY <1>0
  <2>2. PICK k \in Young : \A m \in Young : k <= m
    <3> HIDE DEF Young
    <3> QED BY <1>2, <2>1, LeastNumber
  <2>3. k \in 1..Len(s) /\ ~(at - s[k] >= age)
    BY <1>0, <2>2
  <2>4. ASSUME NEW i \in DOMAIN s, i <= k - 1 PROVE at - s[i] >= age
    BY <1>0, <2>2, <2>3, <2>4
  <2>5. ASSUME NEW i \in DOMAIN s, ~(i <= k - 1) PROVE ~(at - s[i] >= age)
    <3>1. s[k] <= s[i]
      BY <1>0, <2>3, <2>5 DEF Ordered
    <3> QED BY <1>0, <2>3, <3>1
  <2>6. k - 1 \in 0..Len(s)
    BY <1>0, <2>3
  <2> QED BY <2>4, <2>5, <2>6
<1> QED BY <1>1, <1>2

(* `y' is the end of `s' that is younger than `age'.                       *)
IsYounger(y, s, at, age) ==
    /\ y \in Seq(Nat) /\ Len(y) <= Len(s)
    /\ \A i \in DOMAIN y : y[i] = s[Len(s) - Len(y) + i] /\ at - y[i] < age
    /\ \A i \in 1..(Len(s) - Len(y)) : at - s[i] >= age

LEMMA YoungerFacts ==
    ASSUME NEW s \in Seq(Nat), Ordered(s), NEW at \in Nat, NEW age \in Nat
    PROVE  IsYounger(Younger(s, at, age), s, at, age)
<1> DEFINE P(n) == \A i \in DOMAIN s : i <= n <=> at - s[i] >= age
           n == CHOOSE m \in 0..Len(s) : P(m)
           y == SubSeq(s, n + 1, Len(s))
<1>1. n \in 0..Len(s) /\ P(n)
  <2>1. \E m \in 0..Len(s) : P(m)
    BY OldComesFirst
  <2> HIDE DEF P
  <2> QED BY <2>1
<1>2. Younger(s, at, age) = y
  BY DEF Younger
<1> HIDE DEF n
<1>3. DOMAIN s = 1..Len(s) /\ Len(s) \in Nat /\ \A i \in DOMAIN s : s[i] \in Nat
  OBVIOUS
<1>4. /\ y \in Seq(Nat) /\ Len(y) = Len(s) - n
      /\ DOMAIN y = 1..(Len(s) - n) /\ \A i \in 1..(Len(s) - n) : y[i] = s[n + i]
  <2>2. /\ y \in Seq(Nat) /\ Len(y) = (IF n + 1 <= Len(s) THEN Len(s) - (n + 1) + 1 ELSE 0)
        /\ \A i \in 1..(Len(s) - (n + 1) + 1) : y[i] = s[(n + 1) + i - 1]
    <3> HIDE DEF P
    <3>1. PICK m, k : m = n + 1 /\ k = Len(s)
      OBVIOUS
    <3>2. m \in 1..(Len(s) + 1) /\ k \in (m - 1)..Len(s)
      BY <1>1, <1>3, <3>1
    <3>3. /\ SubSeq(s, m, k) \in Seq(Nat)
          /\ Len(SubSeq(s, m, k)) = (IF m <= k THEN k - m + 1 ELSE 0)
          /\ \A i \in 1..(k - m + 1) : SubSeq(s, m, k)[i] = s[m + i - 1]
      BY <3>2, SubSeqProperties
    <3> QED BY <3>1, <3>3
  <2> HIDE DEF y
  <2>3. Len(y) = Len(s) - n
    <3>1. n \in Nat /\ n <= Len(s) /\ Len(s) \in Nat
      BY <1>1, <1>3
    <3>2. Len(y) = IF n + 1 <= Len(s) THEN Len(s) - (n + 1) + 1 ELSE 0
      BY <2>2
    <3> QED BY <3>1, <3>2
  <2>4. ASSUME NEW i \in 1..(Len(s) - n) PROVE y[i] = s[n + i]
    <3>1. i \in 1..(Len(s) - (n + 1) + 1) /\ (n + 1) + i - 1 = n + i
      BY <1>1, <1>3
    <3> QED BY <2>2, <3>1
  <2> QED BY <2>2, <2>3, <2>4
<1> HIDE DEF y, P
<1>7. \A i \in DOMAIN s : i <= n <=> at - s[i] >= age
  BY <1>1 DEF P
<1>5. ASSUME NEW i \in DOMAIN y
      PROVE  y[i] = s[Len(s) - Len(y) + i] /\ at - y[i] < age
  <2>1. Len(s) - Len(y) + i = n + i /\ n + i \in DOMAIN s /\ ~(n + i <= n)
    BY <1>1, <1>3, <1>4
  <2>2. y[i] = s[n + i] /\ ~(at - s[n + i] >= age) /\ s[n + i] \in Nat
    BY <1>3, <1>4, <1>7, <2>1
  <2> QED BY <2>1, <2>2
<1>6. ASSUME NEW i \in 1..(Len(s) - Len(y)) PROVE at - s[i] >= age
  <2>1. i \in DOMAIN s /\ i <= n
    BY <1>1, <1>3, <1>4
  <2> QED BY <1>7, <2>1
<1> QED BY <1>1, <1>2, <1>3, <1>4, <1>5, <1>6 DEF IsYounger

-----------------------------------------------------------------------------
(* The attempt limiter *)

(* Where as many wrong passcodes as lock an address out began, in one window. *)
Bursts(f) == {i \in 1..(Len(f) - MAX_ATTEMPTS + 1) : f[i + MAX_ATTEMPTS - 1] - f[i] < WINDOW_MS}

(* What the record of an address has to do with its wrong passcodes: the
   attempts are the last of them, those that are missing are too old to
   count, and the lockout is the one that the last burst earned.           *)
Tallied(b, f, t) ==
    /\ Ordered(f) /\ \A i \in DOMAIN f : f[i] <= t
    /\ Len(b.attempts) <= Len(f)
    /\ \A i \in DOMAIN b.attempts : b.attempts[i] = f[Len(f) - Len(b.attempts) + i]
    /\ \A i \in 1..(Len(f) - Len(b.attempts)) : t - f[i] >= WINDOW_MS
    /\ \A i \in Bursts(f) : f[i + MAX_ATTEMPTS - 1] + LOCKOUT_MS <= b.lockedUntil
    /\ b.lockedUntil = 0 \/ \E i \in Bursts(f) : b.lockedUntil = f[i + MAX_ATTEMPTS - 1] + LOCKOUT_MS

LEMMA PeriodTypes ==
    /\ MAX_ATTEMPTS \in Nat /\ MAX_ATTEMPTS >= 1
    /\ WINDOW_MS \in Nat /\ WINDOW_MS >= 1 /\ LOCKOUT_MS \in Nat /\ WINDOW_MS <= LOCKOUT_MS
    /\ SECOND \in Nat /\ SECOND >= 1
    /\ REACTIONS_PER_SEC \in Nat /\ REACTIONS_PER_SEC >= 1
BY AccessPeriods, AccessLimits

LEMMA AttemptsOrdered ==
    ASSUME NEW b \in Buckets, NEW f \in Seq(Nat), NEW t \in Nat, Tallied(b, f, t)
    PROVE  Ordered(b.attempts)
<1> DEFINE a == b.attempts
           n == Len(f) - Len(a)
<1>1. /\ a \in Seq(Nat) /\ Len(a) \in Nat /\ Len(f) \in Nat
      /\ DOMAIN a = 1..Len(a) /\ DOMAIN f = 1..Len(f)
  BY DEF Buckets
<1>2. /\ Ordered(f) /\ Len(a) <= Len(f)
      /\ \A i \in DOMAIN a : a[i] = f[n + i]
  BY DEF Tallied
<1> SUFFICES ASSUME NEW i \in DOMAIN a, NEW j \in DOMAIN a, i <= j PROVE a[i] <= a[j]
  BY DEF Ordered
<1> HIDE DEF a
<1>3. n + i \in DOMAIN f /\ n + j \in DOMAIN f /\ n + i <= n + j
  BY <1>1, <1>2
<1>4. f[n + i] <= f[n + j]
  BY <1>2, <1>3 DEF Ordered
<1> QED BY <1>2, <1>4

(* Forgetting the old attempts keeps the record true.                      *)
LEMMA PruneFacts ==
    ASSUME NEW b \in Buckets, NEW f \in Seq(Nat), now \in Nat, Tallied(b, f, now),
           NEW p, p = Prune(b)
    PROVE  /\ p \in Buckets /\ p.lockedUntil = b.lockedUntil
           /\ Tallied(p, f, now)
           /\ \A i \in DOMAIN p.attempts : now - p.attempts[i] < WINDOW_MS
<1>1. PICK a, y : a = b.attempts /\ y = Younger(a, now, WINDOW_MS)
  OBVIOUS
<1>2. a \in Seq(Nat) /\ Ordered(a) /\ WINDOW_MS \in Nat
  BY <1>1, AttemptsOrdered, PeriodTypes DEF Buckets
<1>3. IsYounger(y, a, now, WINDOW_MS)
  BY <1>1, <1>2, YoungerFacts
<1>4. p.attempts = y /\ p.lockedUntil = b.lockedUntil /\ p \in Buckets
  BY <1>1, <1>3 DEF Prune, Buckets, IsYounger
<1>5. /\ Len(a) \in Nat /\ Len(f) \in Nat /\ Len(y) \in Nat /\ Len(y) <= Len(a) /\ Len(a) <= Len(f)
      /\ DOMAIN a = 1..Len(a) /\ DOMAIN f = 1..Len(f) /\ DOMAIN y = 1..Len(y)
  BY <1>1, <1>2, <1>3 DEF IsYounger, Tallied
<1>6. ASSUME NEW i \in DOMAIN y
      PROVE  y[i] = f[Len(f) - Len(y) + i] /\ now - y[i] < WINDOW_MS
  <2>1. PICK k : k = Len(a) - Len(y) + i
    OBVIOUS
  <2>2. y[i] = a[k] /\ now - y[i] < WINDOW_MS
    BY <1>3, <2>1 DEF IsYounger
  <2>3. k \in DOMAIN a /\ Len(f) - Len(a) + k = Len(f) - Len(y) + i
    BY <1>5, <2>1
  <2>4. a[k] = f[Len(f) - Len(a) + k]
    BY <1>1, <2>3 DEF Tallied
  <2> QED BY <2>2, <2>3, <2>4
<1>7. ASSUME NEW i \in 1..(Len(f) - Len(y)) PROVE now - f[i] >= WINDOW_MS
  <2>1. CASE i <= Len(f) - Len(a)
    <3>1. i \in 1..(Len(f) - Len(a))
      BY <1>5, <2>1
    <3> QED BY <1>1, <3>1 DEF Tallied
  <2>2. CASE ~(i <= Len(f) - Len(a))
    <3>1. PICK k : k = i - (Len(f) - Len(a))
      OBVIOUS
    <3>2. k \in 1..(Len(a) - Len(y)) /\ k \in DOMAIN a /\ Len(f) - Len(a) + k = i
      BY <1>5, <2>2, <3>1
    <3>3. now - a[k] >= WINDOW_MS
      BY <1>3, <3>2 DEF IsYounger
    <3>4. a[k] = f[Len(f) - Len(a) + k]
      BY <1>1, <3>2 DEF Tallied
    <3> QED BY <3>2, <3>3, <3>4
  <2> QED BY <2>1, <2>2
<1>8. Tallied(p, f, now)
  BY <1>4, <1>5, <1>6, <1>7 DEF Tallied
<1> QED BY <1>4, <1>6, <1>8

(* Without a lockout there are too few attempts left for one: those of a
   lockout that has passed have passed with it.                            *)
LEMMA NeverFull ==
    ASSUME NEW b \in Buckets, NEW f \in Seq(Nat), now \in Nat, Tallied(b, f, now),
           b.lockedUntil <= now,
           \A i \in DOMAIN b.attempts : now - b.attempts[i] < WINDOW_MS
    PROVE  Len(b.attempts) < MAX_ATTEMPTS
<1>1. PICK a, n, i : a = b.attempts /\ n = Len(f) - Len(a) /\ i = n + 1
  OBVIOUS
<1>2. /\ a \in Seq(Nat) /\ Len(a) \in Nat /\ Len(f) \in Nat /\ Len(a) <= Len(f)
      /\ DOMAIN a = 1..Len(a) /\ DOMAIN f = 1..Len(f) /\ b.lockedUntil \in Nat
  BY <1>1 DEF Buckets, Tallied
<1> SUFFICES ASSUME ~(Len(b.attempts) < MAX_ATTEMPTS) PROVE FALSE
  OBVIOUS
<1>10. Len(a) >= MAX_ATTEMPTS /\ MAX_ATTEMPTS \in Nat /\ MAX_ATTEMPTS >= 1
  <2>1. Len(b.attempts) = Len(a)
    BY <1>1
  <2>2. MAX_ATTEMPTS \in Nat /\ MAX_ATTEMPTS >= 1
    BY PeriodTypes
  <2>3. Len(a) \in Nat /\ ~(Len(a) < MAX_ATTEMPTS)
    BY <1>2, <2>1
  <2> QED BY <2>2, <2>3
<1>3. PICK last : last = i + MAX_ATTEMPTS - 1
  OBVIOUS
<1>4. /\ i \in 1..(Len(f) - MAX_ATTEMPTS + 1) /\ last \in DOMAIN f /\ i \in DOMAIN f
      /\ 1 \in DOMAIN a /\ n + 1 = i /\ i <= last
  <2>1. /\ n \in Nat /\ n + Len(a) = Len(f) /\ i = n + 1 /\ i \in Nat /\ last = n + MAX_ATTEMPTS
    <3>1. n = Len(f) - Len(a) /\ i = n + 1 /\ last = i + MAX_ATTEMPTS - 1
      BY <1>1, <1>3
    <3> QED BY <1>2, <1>10, <3>1
  <2> QED BY <1>2, <1>10, <2>1
<1>5. a[1] = f[i] /\ now - a[1] < WINDOW_MS
  BY <1>1, <1>4 DEF Tallied
<1>6. f[i] \in Nat /\ f[last] \in Nat /\ f[last] <= now /\ f[i] <= f[last]
  BY <1>4 DEF Tallied, Ordered
<1>7. f[last] - f[i] < WINDOW_MS
  BY <1>5, <1>6, PeriodTypes
<1>8. i \in Bursts(f)
  BY <1>3, <1>4, <1>7 DEF Bursts
<1>9. f[last] + LOCKOUT_MS <= b.lockedUntil
  BY <1>3, <1>8 DEF Tallied
<1> QED BY <1>2, <1>5, <1>6, <1>9, PeriodTypes

(* What check() does: it forgets, and never locks out by itself.           *)
LEMMA CheckFacts ==
    ASSUME NEW b \in Buckets, NEW f \in Seq(Nat), now \in Nat, Tallied(b, f, now),
           NEW k, k = Check(b)
    PROVE  /\ k \in Buckets /\ Tallied(k, f, now)
           /\ k.lockedUntil = b.lockedUntil
           /\ Refuses(b) <=> b.lockedUntil > now
<1>1. b.lockedUntil \in Nat
  BY DEF Buckets
<1>2. CASE b.lockedUntil > now
  <2>1. k = b
    BY <1>2 DEF Check
  <2> QED BY <1>2, <2>1 DEF Refuses
<1>3. CASE ~(b.lockedUntil > now)
  <2>1. PICK p : p = Prune(b)
    OBVIOUS
  <2>2. /\ p \in Buckets /\ p.lockedUntil = b.lockedUntil /\ Tallied(p, f, now)
        /\ \A i \in DOMAIN p.attempts : now - p.attempts[i] < WINDOW_MS
    BY <2>1, PruneFacts
  <2>3. Len(p.attempts) < MAX_ATTEMPTS
    BY <1>1, <1>3, <2>2, NeverFull
  <2>4. Len(p.attempts) \in Nat
    BY <2>2 DEF Buckets
  <2>5. k = p
    BY <1>3, <2>1, <2>3, <2>4, PeriodTypes DEF Check, LockIfFull
  <2> QED BY <1>3, <2>2, <2>5 DEF Refuses
<1> QED BY <1>2, <1>3
LEMMA AppendTimes ==
    ASSUME NEW s \in Seq(Nat), NEW t \in Nat, NEW e, e = Append(s, t), NEW n, n = Len(s)
    PROVE  /\ e \in Seq(Nat) /\ n \in Nat /\ Len(e) = n + 1 /\ DOMAIN e = 1..(n + 1)
           /\ \A i \in 1..n : e[i] = s[i] /\ s[i] \in Nat
           /\ e[n + 1] = t
OBVIOUS

LEMMA AppendOrdered ==
    ASSUME NEW s \in Seq(Nat), NEW t \in Nat, NEW e, e = Append(s, t),
           Ordered(s), \A i \in DOMAIN s : s[i] <= t
    PROVE  Ordered(e) /\ \A i \in DOMAIN e : e[i] <= t
<1>1. PICK n : n = Len(s)
  OBVIOUS
<1>2. /\ n \in Nat /\ DOMAIN e = 1..(n + 1) /\ DOMAIN s = 1..n
      /\ \A i \in 1..n : e[i] = s[i] /\ s[i] \in Nat
      /\ e[n + 1] = t
  BY <1>1, AppendTimes
<1>3. ASSUME NEW i \in DOMAIN e PROVE e[i] <= t
  <2>1. CASE i \in 1..n
    BY <1>2, <2>1
  <2>2. CASE i = n + 1
    BY <1>2, <2>2
  <2> QED BY <1>2, <2>1, <2>2
<1>4. ASSUME NEW i \in DOMAIN e, NEW j \in DOMAIN e, i <= j PROVE e[i] <= e[j]
  <2>1. CASE j \in 1..n
    <3>1. i \in 1..n
      BY <1>2, <1>4, <2>1
    <3>2. s[i] <= s[j]
      BY <1>2, <1>4, <2>1, <3>1 DEF Ordered
    <3> QED BY <1>2, <2>1, <3>1, <3>2
  <2>2. CASE j = n + 1
    BY <1>2, <1>3, <2>2
  <2> QED BY <1>2, <2>1, <2>2
<1> QED BY <1>3, <1>4 DEF Ordered

(* What fail() does: it locks out when, and only when, a burst is complete. *)
LEMMA FailFacts ==
    ASSUME NEW b \in Buckets, NEW f \in Seq(Nat), now \in Nat, Tallied(b, f, now),
           b.lockedUntil <= now,
           NEW r, r = Fail(b), NEW e, e = Append(f, now)
    PROVE  r \in Buckets /\ e \in Seq(Nat) /\ Tallied(r, e, now)
<1>1. PICK p, a, x, n, m : p = Prune(b) /\ a = p.attempts /\ x = Append(a, now)
                           /\ n = Len(f) /\ m = Len(a)
  OBVIOUS
<1>2. /\ p \in Buckets /\ p.lockedUntil = b.lockedUntil /\ Tallied(p, f, now)
      /\ \A i \in DOMAIN a : now - a[i] < WINDOW_MS
  BY <1>1, PruneFacts
<1>3. /\ a \in Seq(Nat) /\ DOMAIN a = 1..m /\ DOMAIN f = 1..n /\ b.lockedUntil \in Nat
  BY <1>1, <1>2 DEF Buckets
<1>4. /\ x \in Seq(Nat) /\ m \in Nat /\ Len(x) = m + 1 /\ DOMAIN x = 1..(m + 1)
      /\ \A i \in 1..m : x[i] = a[i] /\ a[i] \in Nat
      /\ x[m + 1] = now
  <2>1. a \in Seq(Nat) /\ x = Append(a, now) /\ m = Len(a)
    BY <1>1, <1>3
  <2> QED BY <2>1, AppendTimes
<1>5. /\ e \in Seq(Nat) /\ n \in Nat /\ Len(e) = n + 1 /\ DOMAIN e = 1..(n + 1)
      /\ \A i \in 1..n : e[i] = f[i] /\ f[i] \in Nat
      /\ e[n + 1] = now
  BY <1>1, AppendTimes
<1>6. /\ Ordered(f) /\ \A i \in DOMAIN f : f[i] <= now
      /\ m <= n
      /\ \A i \in 1..m : a[i] = f[n - m + i]
      /\ \A i \in 1..(n - m) : now - f[i] >= WINDOW_MS
      /\ \A i \in Bursts(f) : f[i + MAX_ATTEMPTS - 1] + LOCKOUT_MS <= b.lockedUntil
      /\ b.lockedUntil = 0 \/ \E i \in Bursts(f) : b.lockedUntil = f[i + MAX_ATTEMPTS - 1] + LOCKOUT_MS
  BY <1>1, <1>2, <1>3 DEF Tallied
<1>7. /\ r \in Buckets /\ r.attempts = x
      /\ r.lockedUntil = IF m + 1 >= MAX_ATTEMPTS THEN now + LOCKOUT_MS ELSE b.lockedUntil
  <2>1. PICK y : y = [p EXCEPT !.attempts = x]
    OBVIOUS
  <2>2. y \in Buckets /\ y.attempts = x /\ y.lockedUntil = b.lockedUntil
    BY <1>2, <1>4, <2>1 DEF Buckets
  <2>3. r = LockIfFull(y)
    BY <1>1, <2>1 DEF Fail
  <2>4. now + LOCKOUT_MS \in Nat
    BY PeriodTypes
  <2>5. r = IF m + 1 >= MAX_ATTEMPTS THEN [y EXCEPT !.lockedUntil = now + LOCKOUT_MS] ELSE y
    BY <1>4, <2>2, <2>3 DEF LockIfFull
  <2> QED BY <2>2, <2>4, <2>5 DEF Buckets
<1>8. Ordered(e) /\ \A i \in DOMAIN e : e[i] <= now
  BY <1>3, <1>6, AppendOrdered
<1>9. ASSUME NEW i \in DOMAIN x PROVE x[i] = e[(n + 1) - (m + 1) + i]
  <2>1. CASE i \in 1..m
    <3>1. n - m + i \in 1..n /\ (n + 1) - (m + 1) + i = n - m + i
      BY <1>4, <1>5, <1>6, <2>1
    <3> QED BY <1>4, <1>5, <1>6, <2>1, <3>1
  <2>2. CASE i = m + 1
    <3>1. (n + 1) - (m + 1) + i = n + 1
      BY <1>4, <1>5, <2>2
    <3> QED BY <1>4, <1>5, <2>2, <3>1
  <2>3. m \in Nat /\ i \in 1..(m + 1)
    BY <1>4
  <2>4. i \in 1..m \/ i = m + 1
    BY <2>3
  <2> QED BY <2>1, <2>2, <2>4
<1>10. ASSUME NEW i \in 1..((n + 1) - (m + 1)) PROVE now - e[i] >= WINDOW_MS
  <2>1. i \in 1..(n - m) /\ i \in 1..n
    BY <1>4, <1>5, <1>10
  <2> QED BY <1>5, <1>6, <2>1
(* A burst was there before, or the failure of now completes it.           *)
<1>11. ASSUME NEW i \in Bursts(e)
       PROVE  \/ i \in Bursts(f) /\ e[i + MAX_ATTEMPTS - 1] = f[i + MAX_ATTEMPTS - 1]
              \/ m + 1 >= MAX_ATTEMPTS /\ e[i + MAX_ATTEMPTS - 1] = now
  <2>1. PICK k : k = i + MAX_ATTEMPTS - 1
    OBVIOUS
  <2>2. i \in 1..((n + 1) - MAX_ATTEMPTS + 1) /\ e[k] - e[i] < WINDOW_MS
    BY <1>5, <2>1 DEF Bursts
  <2>3. /\ i \in 1..(n + 1) /\ k \in 1..(n + 1) /\ i <= k
        /\ k = n + 1 => MAX_ATTEMPTS = n + 2 - i
    BY <1>5, <2>1, <2>2, PeriodTypes
  <2>4. CASE k \in 1..n
    <3>1. i \in 1..n /\ i \in 1..(n - MAX_ATTEMPTS + 1)
      BY <1>5, <2>1, <2>3, <2>4, PeriodTypes
    <3>2. e[k] = f[k] /\ e[i] = f[i]
      BY <1>5, <2>4, <3>1
    <3> QED BY <1>1, <2>1, <2>2, <3>1, <3>2 DEF Bursts
  <2>5. CASE k = n + 1
    <3>1. e[k] = now
      BY <1>5, <2>5
    <3>2. ~(i \in 1..(n - m))
      <4>1. ~(now - e[i] >= WINDOW_MS)
        <5>1. PICK z : z = e[i]
          OBVIOUS
        <5>2. i = n + 1 \/ i \in 1..n
          BY <1>5, <2>3
        <5>3. z \in Nat
          BY <1>5, <5>1, <5>2
        <5>4. now - z < WINDOW_MS
          BY <2>2, <3>1, <5>1
        <5>5. ~(now - z >= WINDOW_MS)
          BY <5>3, <5>4, PeriodTypes
        <5> QED BY <5>1, <5>5
      <4>2. (n + 1) - (m + 1) = n - m
        BY <1>4, <1>5
      <4> QED BY <1>10, <4>1, <4>2
    <3>3. i > n - m
      BY <1>4, <1>5, <1>6, <2>3, <3>2
    <3>4. m + 1 >= MAX_ATTEMPTS
      BY <1>4, <1>5, <2>3, <2>5, <3>3, PeriodTypes
    <3> QED BY <2>1, <3>1, <3>4
  <2>6. n \in Nat /\ k \in 1..(n + 1)
    BY <1>5, <2>3
  <2>7. k \in 1..n \/ k = n + 1
    BY <2>6
  <2> QED BY <2>4, <2>5, <2>7
<1>12. ASSUME NEW i \in Bursts(f)
       PROVE  i \in Bursts(e) /\ e[i + MAX_ATTEMPTS - 1] = f[i + MAX_ATTEMPTS - 1]
  <2>1. PICK k : k = i + MAX_ATTEMPTS - 1
    OBVIOUS
  <2>2. i \in 1..(n - MAX_ATTEMPTS + 1) /\ f[k] - f[i] < WINDOW_MS
    BY <1>1, <2>1 DEF Bursts
  <2>3. i \in 1..n /\ k \in 1..n /\ i \in 1..((n + 1) - MAX_ATTEMPTS + 1)
    BY <1>5, <2>1, <2>2, PeriodTypes
  <2>4. e[k] = f[k] /\ e[i] = f[i]
    BY <1>5, <2>3
  <2> QED BY <1>5, <2>1, <2>2, <2>3, <2>4 DEF Bursts
<1>13. ASSUME NEW i \in Bursts(e) PROVE e[i + MAX_ATTEMPTS - 1] + LOCKOUT_MS <= r.lockedUntil
  <2>1. CASE i \in Bursts(f) /\ e[i + MAX_ATTEMPTS - 1] = f[i + MAX_ATTEMPTS - 1]
    <3>1. PICK z : z = f[i + MAX_ATTEMPTS - 1] + LOCKOUT_MS
      OBVIOUS
    <3>2. z <= b.lockedUntil
      BY <1>6, <2>1, <3>1
    <3>3. i \in 1..(n - MAX_ATTEMPTS + 1)
      BY <1>1, <2>1 DEF Bursts
    <3>4. i + MAX_ATTEMPTS - 1 \in 1..n
      BY <1>5, <3>3, PeriodTypes
    <3>5. z \in Nat
      BY <1>5, <3>1, <3>4, PeriodTypes
    <3>6. z <= r.lockedUntil
      BY <1>3, <1>7, <3>2, <3>5, PeriodTypes
    <3> QED BY <2>1, <3>1, <3>6
  <2>2. CASE m + 1 >= MAX_ATTEMPTS /\ e[i + MAX_ATTEMPTS - 1] = now
    BY <1>7, <2>2, PeriodTypes
  <2> QED BY <1>11, <1>13, <2>1, <2>2
<1>14. r.lockedUntil = 0 \/ \E i \in Bursts(e) : r.lockedUntil = e[i + MAX_ATTEMPTS - 1] + LOCKOUT_MS
  <2>1. CASE m + 1 >= MAX_ATTEMPTS
    <3>1. PICK i : i = n + 2 - MAX_ATTEMPTS
      OBVIOUS
    <3>2. i \in 1..((n + 1) - MAX_ATTEMPTS + 1) /\ i + MAX_ATTEMPTS - 1 = n + 1 /\ i > n - m
          /\ i \in 1..(n + 1)
      BY <1>4, <1>5, <1>6, <2>1, <3>1, PeriodTypes
    <3>3. e[n + 1] - e[i] < WINDOW_MS
      <4>1. CASE i = n + 1
        BY <1>5, <4>1, PeriodTypes
      <4>2. CASE i # n + 1
        <5>1. PICK j : j = i - (n - m)
          OBVIOUS
        <5>2. j \in 1..m /\ n - m + j = i /\ i \in 1..n
          BY <1>4, <1>5, <3>2, <4>2, <5>1
        <5>3. now - a[j] < WINDOW_MS /\ a[j] = f[i] /\ e[i] = f[i]
          BY <1>2, <1>3, <1>5, <1>6, <5>2
        <5> QED BY <1>5, <5>3
      <4> QED BY <4>1, <4>2
    <3>4. i \in Bursts(e)
      BY <1>5, <3>2, <3>3 DEF Bursts
    <3> QED BY <1>5, <1>7, <2>1, <3>2, <3>4
  <2>2. CASE ~(m + 1 >= MAX_ATTEMPTS)
    <3>1. r.lockedUntil = b.lockedUntil
      BY <1>7, <2>2
    <3> QED BY <1>6, <1>12, <3>1
  <2> QED BY <2>1, <2>2
<1>15. /\ Len(r.attempts) = m + 1 /\ Len(r.attempts) <= Len(e)
  BY <1>4, <1>5, <1>6, <1>7
<1>16. Tallied(r, e, now)
  BY <1>5, <1>7, <1>8, <1>9, <1>10, <1>13, <1>14, <1>15 DEF Tallied
<1> QED BY <1>5, <1>7, <1>16

(* Locked out is who earned it.                                            *)
LEMMA TalliedRefuses ==
    ASSUME NEW b \in Buckets, NEW f \in Seq(Nat), now \in Nat, Tallied(b, f, now)
    PROVE  Refuses(b) <=> \E i \in Bursts(f) : now - f[i + MAX_ATTEMPTS - 1] < LOCKOUT_MS
<1>1. Refuses(b) <=> b.lockedUntil > now
  BY CheckFacts
<1>2. b.lockedUntil \in Nat
  BY DEF Buckets
<1>3. \A i \in Bursts(f) : f[i + MAX_ATTEMPTS - 1] \in Nat
  <2> SUFFICES ASSUME NEW i \in Bursts(f) PROVE f[i + MAX_ATTEMPTS - 1] \in Nat
    OBVIOUS
  <2>1. i \in 1..(Len(f) - MAX_ATTEMPTS + 1) /\ Len(f) \in Nat
    BY DEF Bursts
  <2>2. i + MAX_ATTEMPTS - 1 \in 1..Len(f)
    BY <2>1, PeriodTypes
  <2> QED BY <2>2
<1>4. ASSUME b.lockedUntil > now
      PROVE  \E i \in Bursts(f) : now - f[i + MAX_ATTEMPTS - 1] < LOCKOUT_MS
  <2>1. b.lockedUntil # 0
    BY <1>2, <1>4
  <2>2. PICK i \in Bursts(f) : b.lockedUntil = f[i + MAX_ATTEMPTS - 1] + LOCKOUT_MS
    BY <2>1 DEF Tallied
  <2>3. now - f[i + MAX_ATTEMPTS - 1] < LOCKOUT_MS
    BY <1>2, <1>3, <1>4, <2>2, PeriodTypes
  <2> QED BY <2>3
<1>5. ASSUME NEW i \in Bursts(f), now - f[i + MAX_ATTEMPTS - 1] < LOCKOUT_MS
      PROVE  b.lockedUntil > now
  <2>1. f[i + MAX_ATTEMPTS - 1] + LOCKOUT_MS <= b.lockedUntil
    BY DEF Tallied
  <2> QED BY <1>2, <1>3, <1>5, <2>1, PeriodTypes
<1> QED BY <1>1, <1>4, <1>5

LEMMA TalliedLater ==
    ASSUME NEW b \in Buckets, NEW f \in Seq(Nat), NEW t \in Nat, Tallied(b, f, t)
    PROVE  Tallied(b, f, t + 1)
<1>1. \A i \in DOMAIN f : f[i] \in Nat /\ f[i] <= t
  BY DEF Tallied
<1>2. \A i \in DOMAIN f : f[i] <= t + 1
  BY <1>1
<1>3. ASSUME NEW i \in 1..(Len(f) - Len(b.attempts)) PROVE t + 1 - f[i] >= WINDOW_MS
  <2>1. Len(f) \in Nat /\ Len(b.attempts) \in Nat
    BY DEF Buckets
  <2>2. i \in DOMAIN f /\ t - f[i] >= WINDOW_MS
    BY <2>1 DEF Tallied
  <2> QED BY <1>1, <2>2, PeriodTypes
<1> QED BY <1>2, <1>3 DEF Tallied

LEMMA NothingTallied ==
    ASSUME NEW t \in Nat
    PROVE  NoAttempts \in Buckets /\ Tallied(NoAttempts, <<>>, t)
<1>1. NoAttempts.attempts = <<>> /\ NoAttempts.lockedUntil = 0 /\ NoAttempts \in Buckets
  BY DEF NoAttempts, Buckets
<1>2. Bursts(<<>>) = {}
  <2>1. Len(<<>>) = 0 /\ \A i \in 1..(0 - MAX_ATTEMPTS + 1) : FALSE
    BY PeriodTypes
  <2> QED BY <2>1 DEF Bursts
<1> QED BY <1>1, <1>2 DEF Tallied, Ordered
-----------------------------------------------------------------------------
(* Lockouts *)

LimiterInv ==
    /\ now \in Nat
    /\ buckets \in [Keys -> Buckets] /\ fails \in [Keys -> Seq(Nat)]
    /\ \A k \in Keys : Tallied(buckets[k], fails[k], now)

LEMMA LimiterInit == Init => LimiterInv
<1> SUFFICES ASSUME Init PROVE LimiterInv
  OBVIOUS
<1>1. now = 0 /\ 0 \in Nat /\ NoAttempts \in Buckets /\ Tallied(NoAttempts, <<>>, 0)
  BY NothingTallied DEF Init
<1>2. \A k \in Keys : buckets[k] = NoAttempts /\ fails[k] = <<>>
  BY DEF Init
<1>3. buckets \in [Keys -> Buckets] /\ fails \in [Keys -> Seq(Nat)]
  <2>1. <<>> \in Seq(Nat)
    OBVIOUS
  <2> QED BY <1>1, <2>1 DEF Init
<1> QED BY <1>1, <1>2, <1>3 DEF LimiterInv

(* One address's record is replaced by another that is true.               *)
LEMMA LimiterStep ==
    ASSUME LimiterInv, NEW k \in Keys, NEW b \in Buckets, NEW f \in Seq(Nat), Tallied(b, f, now),
           now' = now, buckets' = [buckets EXCEPT ![k] = b],
           fails' = fails \/ fails' = [fails EXCEPT ![k] = f],
           f = fails'[k]
    PROVE  LimiterInv'
<1>1. /\ buckets' \in [Keys -> Buckets] /\ fails' \in [Keys -> Seq(Nat)]
  BY DEF LimiterInv
<1>2. ASSUME NEW j \in Keys PROVE Tallied(buckets'[j], fails'[j], now)
  <2>1. CASE j = k
    BY <2>1 DEF LimiterInv
  <2>2. CASE j # k
    <3>1. buckets'[j] = buckets[j] /\ fails'[j] = fails[j]
      BY <2>2 DEF LimiterInv
    <3> QED BY <3>1 DEF LimiterInv
  <2> QED BY <2>1, <2>2
<1> QED BY <1>1, <1>2 DEF LimiterInv

LEMMA LimiterNext == LimiterInv /\ [Next]_avars => LimiterInv'
<1> SUFFICES ASSUME LimiterInv, [Next]_avars PROVE LimiterInv'
  OBVIOUS
<1>0. now \in Nat /\ \A k \in Keys : buckets[k] \in Buckets /\ fails[k] \in Seq(Nat)
  BY DEF LimiterInv
<1>1. ASSUME now' = now, UNCHANGED limiter PROVE LimiterInv'
  BY <1>1 DEF LimiterInv, limiter
<1>2. ASSUME NEW c \in Consoles, HandleAuth(c) PROVE LimiterInv'
  <2>1. PICK k \in Keys, b \in Buckets, f \in Seq(Nat) :
           k = KeyOf[c] /\ b = buckets[k] /\ f = fails[k] /\ Tallied(b, f, now)
    BY <1>0 DEF Keys, LimiterInv
  <2>2. now' = now
    BY <1>2 DEF HandleAuth
  <2>3. PICK x : x = Check(b)
    OBVIOUS
  <2>4. x \in Buckets /\ Tallied(x, f, now) /\ x.lockedUntil = b.lockedUntil
        /\ (Refuses(b) <=> b.lockedUntil > now)
    BY <1>0, <2>1, <2>3, CheckFacts
  <2>5. CASE buckets' = [buckets EXCEPT ![k] = x] /\ fails' = fails
    BY <2>1, <2>2, <2>4, <2>5, LimiterStep
  <2>6. CASE buckets' = [buckets EXCEPT ![k] = NoAttempts] /\ fails' = [fails EXCEPT ![k] = <<>>]
    <3>1. NoAttempts \in Buckets /\ Tallied(NoAttempts, <<>>, now) /\ <<>> \in Seq(Nat)
      BY <1>0, NothingTallied
    <3>2. fails'[k] = <<>>
      BY <2>6 DEF LimiterInv
    <3> QED BY <2>2, <2>6, <3>1, <3>2, LimiterStep
  <2>7. CASE /\ ~Refuses(b) /\ buckets' = [buckets EXCEPT ![k] = Fail(x)]
             /\ fails' = [fails EXCEPT ![k] = Append(f, now)]
    <3>1. PICK r, e : r = Fail(x) /\ e = Append(f, now)
      OBVIOUS
    <3>2. x.lockedUntil <= now
      BY <1>0, <2>4, <2>7 DEF Buckets
    <3>3. r \in Buckets /\ e \in Seq(Nat) /\ Tallied(r, e, now)
      BY <1>0, <2>4, <3>1, <3>2, FailFacts
    <3>4. fails' = [fails EXCEPT ![k] = e] /\ fails'[k] = e
      BY <2>7, <3>1 DEF LimiterInv
    <3>5. buckets' = [buckets EXCEPT ![k] = r]
      BY <2>7, <3>1
    <3> QED BY <2>2, <3>3, <3>4, <3>5, LimiterStep
  <2>8. \/ buckets' = [buckets EXCEPT ![k] = x] /\ fails' = fails
        \/ buckets' = [buckets EXCEPT ![k] = NoAttempts] /\ fails' = [fails EXCEPT ![k] = <<>>]
        \/ /\ ~Refuses(b) /\ buckets' = [buckets EXCEPT ![k] = Fail(x)]
           /\ fails' = [fails EXCEPT ![k] = Append(f, now)]
    BY <1>2, <2>1, <2>3 DEF HandleAuth, LimiterInv
  <2> QED BY <2>5, <2>6, <2>7, <2>8
<1>3. CASE Restart
  <2>1. now' = now /\ buckets' = [k \in Keys |-> NoAttempts] /\ fails' = [k \in Keys |-> <<>>]
    BY <1>3 DEF Restart
  <2>2. NoAttempts \in Buckets /\ Tallied(NoAttempts, <<>>, now) /\ <<>> \in Seq(Nat)
    BY <1>0, NothingTallied
  <2> QED BY <1>0, <2>1, <2>2 DEF LimiterInv
<1>4. CASE Clock
  <2>1. now' = now + 1 /\ UNCHANGED limiter
    BY <1>4 DEF Clock
  <2>2. \A k \in Keys : Tallied(buckets[k], fails[k], now + 1)
    BY <1>0, TalliedLater DEF LimiterInv
  <2> QED BY <1>0, <2>1, <2>2 DEF LimiterInv, limiter
<1>5. ASSUME NEW c \in Consoles,
             \/ Load(c) \/ Receive(c) \/ Lose(c) \/ Connect(c) \/ Disconnect(c)
             \/ HandleSession(c) \/ HandleSignOut(c)
             \/ \E flag \in BOOLEAN : SignIn(c, flag) \/ SignOut(c, flag)
      PROVE  LimiterInv'
  BY <1>1, <1>5 DEF Load, Receive, Lose, Connect, Disconnect, HandleSession, HandleSignOut, SignIn,
                    SignOut, Ask
<1>6. ASSUME NEW p \in Phones, React(p) \/ PhoneReconnects(p) PROVE LimiterInv'
  BY <1>1, <1>6 DEF React, PhoneReconnects
<1>7. CASE UNCHANGED avars
  BY <1>1, <1>7 DEF avars
<1> QED BY <1>2, <1>3, <1>4, <1>5, <1>6, <1>7 DEF Next

(* An address is locked out when, and only when, it earned it
   (ratelimit.ts:4), for every limit, window and lockout.                  *)
THEOREM LockoutsAreEarned == AccessSpec => []LockoutIsEarned
<1>1. LimiterInv => LockoutIsEarned
  <2> SUFFICES ASSUME LimiterInv, NEW k \in Keys
               PROVE  Refuses(buckets[k]) <=>
                         \E i \in 1..(Len(fails[k]) - MAX_ATTEMPTS + 1) :
                            /\ fails[k][i + MAX_ATTEMPTS - 1] - fails[k][i] < WINDOW_MS
                            /\ now - fails[k][i + MAX_ATTEMPTS - 1] < LOCKOUT_MS
    BY DEF LockoutIsEarned
  <2>1. Refuses(buckets[k]) <=>
           \E i \in Bursts(fails[k]) : now - fails[k][i + MAX_ATTEMPTS - 1] < LOCKOUT_MS
    BY TalliedRefuses DEF LimiterInv
  <2> QED BY <2>1 DEF Bursts
<1> QED BY <1>1, LimiterInit, LimiterNext, PTL DEF AccessSpec
-----------------------------------------------------------------------------
(* Reactions *)

(* All reactions but the first `k' are of the window there is.             *)
Floated(f, w, k) ==
    /\ k \in 0..REACTIONS_PER_SEC /\ k <= Len(f) /\ Len(f) - k <= w.count
    /\ \A i \in 1..k : f[i] <= w.since

ReactInv ==
    /\ now \in Nat /\ reactionWindow \in Windows
    /\ reactionWindow.since <= now /\ reactionWindow.count <= REACTIONS_PER_SEC
    /\ floated \in Seq(Nat) /\ Ordered(floated)
    /\ \A i \in DOMAIN floated : floated[i] <= now /\ now - floated[i] < SECOND
    /\ \E k \in Nat : Floated(floated, reactionWindow, k)

LEMMA ReactInit == Init => ReactInv
<1> SUFFICES ASSUME Init PROVE ReactInv
  OBVIOUS
<1>1. reactionWindow.since = 0 - SECOND /\ reactionWindow.count = 0 /\ now = 0
      /\ reactionWindow \in Windows /\ floated = <<>>
  BY PeriodTypes DEF Init, Windows
<1>2. Floated(floated, reactionWindow, 0)
  BY <1>1, PeriodTypes DEF Floated
<1> QED BY <1>1, <1>2, PeriodTypes DEF ReactInv, Ordered

LEMMA ReactKeeps ==
    ASSUME ReactInv, NEW p \in Phones, React(p)
    PROVE  ReactInv'
<1>1. PICK w, v, f, e, n : /\ w = reactionWindow /\ v = OpenedWindow /\ f = floated
                           /\ e = Append(f, now) /\ n = Len(f)
  OBVIOUS
<1>2. /\ now \in Nat /\ w.since \in Int /\ w.count \in Nat /\ w.since <= now /\ w \in Windows
      /\ w.count <= REACTIONS_PER_SEC
      /\ f \in Seq(Nat) /\ Ordered(f) /\ DOMAIN f = 1..n
      /\ \A i \in DOMAIN f : f[i] <= now /\ now - f[i] < SECOND
  BY <1>1 DEF ReactInv, Windows
<1>3. PICK k \in Nat : Floated(f, w, k)
  BY <1>1 DEF ReactInv
<1>4. /\ e \in Seq(Nat) /\ n \in Nat /\ Len(e) = n + 1 /\ DOMAIN e = 1..(n + 1)
      /\ \A i \in 1..n : e[i] = f[i] /\ f[i] \in Nat
      /\ e[n + 1] = now
  BY <1>1, <1>2, AppendTimes
<1>5. Ordered(e) /\ \A i \in DOMAIN e : e[i] <= now
  BY <1>1, <1>2, AppendOrdered
<1>6. \A i \in DOMAIN e : now - e[i] < SECOND
  <2> SUFFICES ASSUME NEW i \in 1..(n + 1) PROVE now - e[i] < SECOND
    BY <1>4
  <2>1. CASE i \in 1..n
    BY <1>2, <1>4, <2>1
  <2>2. CASE i = n + 1
    BY <1>2, <1>4, <2>2, PeriodTypes
  <2>3. i \in 1..n \/ i = n + 1
    BY <1>4
  <2> QED BY <2>1, <2>2, <2>3
<1>7. /\ v.count < REACTIONS_PER_SEC /\ now' = now /\ floated' = e
      /\ reactionWindow' = [v EXCEPT !.count = @ + 1]
  BY <1>1 DEF React, Allowed
(* A window is new: what is still floating was all of the last one.        *)
<1>8. CASE now - w.since >= SECOND
  <2>1. v.since = now /\ v.count = 0 /\ v = [since |-> now, count |-> 0]
    BY <1>1, <1>8 DEF OpenedWindow
  <2>2. reactionWindow' \in Windows /\ reactionWindow'.since = now /\ reactionWindow'.count = 1
    BY <1>2, <1>7, <2>1 DEF Windows
  <2>3. k = 0
    <3> SUFFICES ASSUME k # 0 PROVE FALSE
      OBVIOUS
    <3>1. 1 \in 1..k /\ 1 \in 1..n
      BY <1>1, <1>3, <1>4 DEF Floated
    <3>2. PICK z : z = f[1]
      OBVIOUS
    <3>3. z \in Nat /\ z <= w.since /\ now - z < SECOND
      BY <1>2, <1>3, <1>4, <3>1, <3>2 DEF Floated
    <3> QED BY <1>2, <1>8, <3>3, PeriodTypes
  <2>4. n <= REACTIONS_PER_SEC
    BY <1>1, <1>2, <1>3, <1>4, <2>3, PeriodTypes DEF Floated
  <2>5. Floated(e, reactionWindow', n)
    <3>1. n \in 0..REACTIONS_PER_SEC /\ n <= Len(e) /\ Len(e) - n <= 1
      BY <1>4, <2>4, PeriodTypes
    <3>2. \A i \in 1..n : e[i] <= now
      BY <1>4, <1>5
    <3> QED BY <2>2, <3>1, <3>2 DEF Floated
  <2>6. reactionWindow'.since <= now /\ reactionWindow'.count <= REACTIONS_PER_SEC
    BY <1>2, <2>2, PeriodTypes
  <2> QED BY <1>2, <1>4, <1>5, <1>6, <1>7, <2>2, <2>5, <2>6 DEF ReactInv
<1>9. CASE ~(now - w.since >= SECOND)
  <2>1. v = w
    BY <1>1, <1>9 DEF OpenedWindow
  <2>2. /\ reactionWindow' \in Windows /\ reactionWindow'.since = w.since
        /\ reactionWindow'.count = w.count + 1
    BY <1>2, <1>7, <2>1 DEF Windows
  <2>3. w.count + 1 <= REACTIONS_PER_SEC
    BY <1>2, <1>7, <2>1, PeriodTypes
  <2>4. Floated(e, reactionWindow', k)
    <3>1. k \in 0..REACTIONS_PER_SEC /\ k <= n /\ n - k <= w.count /\ \A i \in 1..k : f[i] <= w.since
      BY <1>1, <1>3 DEF Floated
    <3>2. k <= Len(e) /\ Len(e) - k <= w.count + 1
      BY <1>2, <1>4, <3>1
    <3>3. \A i \in 1..k : e[i] <= w.since
      BY <1>4, <3>1
    <3> QED BY <2>2, <3>1, <3>2, <3>3 DEF Floated
  <2> QED BY <1>2, <1>4, <1>5, <1>6, <1>7, <2>2, <2>3, <2>4 DEF ReactInv
<1> QED BY <1>8, <1>9

LEMMA ClockKeeps ==
    ASSUME ReactInv, Clock
    PROVE  ReactInv'
<1>1. PICK w, f, y, n, m, t : /\ w = reactionWindow /\ f = floated /\ t = now + 1
                              /\ y = Younger(f, t, SECOND) /\ n = Len(f) /\ m = Len(y)
  OBVIOUS
<1>2. /\ now \in Nat /\ t \in Nat /\ w.since \in Int /\ w.count \in Nat /\ w.since <= now
      /\ w \in Windows /\ w.count <= REACTIONS_PER_SEC
      /\ f \in Seq(Nat) /\ Ordered(f) /\ n \in Nat /\ DOMAIN f = 1..n
      /\ \A i \in DOMAIN f : f[i] <= now /\ f[i] \in Nat
  BY <1>1 DEF ReactInv, Windows
<1>3. IsYounger(y, f, t, SECOND)
  BY <1>1, <1>2, YoungerFacts, PeriodTypes
<1>4. /\ y \in Seq(Nat) /\ m \in Nat /\ DOMAIN y = 1..m /\ m <= n
      /\ \A i \in 1..m : y[i] = f[n - m + i] /\ t - y[i] < SECOND
  <2>1. /\ y \in Seq(Nat) /\ Len(y) <= Len(f)
        /\ \A i \in DOMAIN y : y[i] = f[Len(f) - Len(y) + i] /\ t - y[i] < SECOND
    BY <1>3 DEF IsYounger
  <2>2. DOMAIN y = 1..m /\ m \in Nat /\ Len(f) = n /\ Len(y) = m
    BY <1>1, <2>1
  <2> QED BY <2>1, <2>2
<1>5. ASSUME NEW i \in 1..m PROVE n - m + i \in 1..n
  BY <1>2, <1>4
<1>6. ASSUME NEW i \in 1..m PROVE y[i] <= t /\ t - y[i] < SECOND
  <2>1. PICK z : z = f[n - m + i]
    OBVIOUS
  <2>2. z \in Nat /\ z <= now /\ y[i] = z
    BY <1>2, <1>4, <1>5, <2>1
  <2>3. z <= t
    BY <1>1, <1>2, <2>2
  <2> QED BY <1>4, <2>2, <2>3
<1>7. Ordered(y)
  <2> SUFFICES ASSUME NEW i \in 1..m, NEW j \in 1..m, i <= j PROVE y[i] <= y[j]
    BY <1>4 DEF Ordered
  <2>1. n - m + i <= n - m + j
    BY <1>2, <1>4
  <2>2. f[n - m + i] <= f[n - m + j]
    BY <1>2, <1>5, <2>1 DEF Ordered
  <2> QED BY <1>4, <2>2
<1>8. \E l \in Nat : Floated(y, w, l)
  <2>1. PICK k \in Nat : Floated(f, w, k)
    BY <1>1 DEF ReactInv
  <2>2. k \in 0..REACTIONS_PER_SEC /\ k <= n /\ n - k <= w.count /\ \A i \in 1..k : f[i] <= w.since
    BY <1>1, <2>1 DEF Floated
  <2>3. CASE n - m <= k
    <3>1. PICK l : l = k - (n - m)
      OBVIOUS
    <3>2. l \in 0..REACTIONS_PER_SEC /\ l <= m /\ m - l <= w.count /\ l \in Nat
      BY <1>2, <1>4, <2>2, <2>3, <3>1, PeriodTypes
    <3>3. ASSUME NEW i \in 1..l PROVE y[i] <= w.since
      <4>1. n - m + i \in 1..k /\ i \in 1..m
        BY <1>2, <1>4, <2>2, <2>3, <3>1, <3>2
      <4> QED BY <1>4, <2>2, <4>1
    <3>4. Floated(y, w, l)
      BY <1>1, <3>2, <3>3 DEF Floated
    <3> QED BY <3>2, <3>4
  <2>4. CASE ~(n - m <= k)
    <3>1. m <= w.count
      BY <1>2, <1>4, <2>2, <2>4
    <3>2. Floated(y, w, 0)
      BY <1>1, <1>4, <3>1, PeriodTypes DEF Floated
    <3> QED BY <3>2
  <2> QED BY <2>3, <2>4
<1>9. now' = t /\ floated' = y /\ reactionWindow' = w
  BY <1>1 DEF Clock
<1>10. w.since <= t
  BY <1>1, <1>2
<1> QED BY <1>2, <1>4, <1>6, <1>7, <1>8, <1>9, <1>10 DEF ReactInv

LEMMA ReactNext == ReactInv /\ [Next]_avars => ReactInv'
<1> SUFFICES ASSUME ReactInv, [Next]_avars PROVE ReactInv'
  OBVIOUS
<1>1. ASSUME now' = now, reactionWindow' = reactionWindow, floated' = floated PROVE ReactInv'
  BY <1>1 DEF ReactInv
<1>2. CASE Restart
  <2>1. now' = now /\ reactionWindow' = [since |-> 0 - SECOND, count |-> 0] /\ floated' = <<>>
    BY <1>2 DEF Restart
  <2>2. now \in Nat /\ reactionWindow' \in Windows /\ reactionWindow'.since = 0 - SECOND
        /\ reactionWindow'.count = 0
    BY <2>1, PeriodTypes DEF ReactInv, Windows
  <2>3. Floated(<<>>, reactionWindow', 0)
    BY <2>2, PeriodTypes DEF Floated
  <2>4. 0 - SECOND <= now
    BY <2>2, PeriodTypes
  <2> QED BY <2>1, <2>2, <2>3, <2>4, PeriodTypes DEF ReactInv, Ordered
<1>3. ASSUME NEW c \in Consoles,
             \/ Load(c) \/ Receive(c) \/ Lose(c) \/ Connect(c) \/ Disconnect(c)
             \/ HandleSession(c) \/ HandleAuth(c) \/ HandleSignOut(c)
             \/ \E flag \in BOOLEAN : SignIn(c, flag) \/ SignOut(c, flag)
      PROVE  ReactInv'
  BY <1>1, <1>3 DEF Load, Receive, Lose, Connect, Disconnect, HandleSession, HandleAuth,
                    HandleSignOut, SignIn, SignOut, Ask, reactions
<1>4. ASSUME NEW p \in Phones, React(p) \/ PhoneReconnects(p) PROVE ReactInv'
  BY <1>1, <1>4, ReactKeeps DEF PhoneReconnects
<1>5. CASE UNCHANGED avars
  BY <1>1, <1>5 DEF avars, reactions
<1> QED BY <1>2, <1>3, <1>4, <1>5, ClockKeeps DEF Next

(* No second sees more than twice the cap (namespaces.ts:57), whenever the
   windows of it began.                                                    *)
THEOREM ReactionsAreBounded == AccessSpec => []ReactionsBounded
<1>1. ReactInv => ReactionsBounded
  <2> SUFFICES ASSUME ReactInv PROVE ReactionsBounded
    OBVIOUS
  <2>1. PICK k \in Nat : Floated(floated, reactionWindow, k)
    BY DEF ReactInv
  <2>2. Len(floated) \in Nat /\ reactionWindow.count \in Nat
        /\ reactionWindow.count <= REACTIONS_PER_SEC
    BY DEF ReactInv, Windows
  <2> QED BY <2>1, <2>2, PeriodTypes DEF Floated, ReactionsBounded
<1> QED BY <1>1, ReactInit, ReactNext, PTL DEF AccessSpec
-----------------------------------------------------------------------------
(* Sessions *)

(* The secret is none that came back, of an earlier time.                  *)
Current(s, e) == ~(s = 0 /\ e > 0)

(* A token that verifies is of the time since everyone was last signed out;
   and one of that time verifies while the process that issued it runs, and
   over restarts with SESSION_SECRET, unless a secret came back; without it none
   outlives its process.  (g, s, e and b
   are given, secret, everywhere and boots.)                               *)
Good(token, g, s, e, b) ==
    token # None =>
        /\ token \in Tokens /\ token.at <= e /\ token.boot <= b
        /\ token.secret <= token.at + token.boot
        /\ Current(s, e) /\ token.secret = s => token.at = e
        /\ token.at = e /\ token.boot = b => token.secret = s
        /\ g /\ Current(s, e) /\ token.at = e => token.secret = s
        /\ ~g /\ token.boot < b => token.secret # s

(* What an answer brings is good.                                          *)
Honest(m, g, s, e, b) == m # None /\ m \in Answers => Good(m.token, g, s, e, b)

SessionInv ==
    /\ now \in Nat /\ given \in BOOLEAN /\ secret \in Nat
    /\ everywhere \in Nat /\ boots \in Nat /\ secret <= everywhere + boots
    /\ given /\ everywhere = 0 => secret = 0
    /\ cookie \in [Consoles -> Tokens \cup {None}]
    /\ page \in [Consoles -> Pages]
    /\ wire \in [Consoles -> Requests \cup Answers \cup {None}]
    /\ \A c \in Consoles : Good(cookie[c], given, secret, everywhere, boots)
    /\ \A c \in Consoles : Honest(wire[c], given, secret, everywhere, boots)
    /\ ~SecretIsBack => \A c \in Consoles : page[c].sock = "open" => page[c].at = everywhere

(* `q' is connected only if `p' was, and then on the same session.         *)
Stays(q, p) == q \in Pages /\ (q.sock = "open" => p.sock = "open" /\ q.at = p.at)

LEMMA PageFacts ==
    ASSUME NEW p \in Pages
    PROVE  /\ Loading \in Pages /\ Loading.sock = "none"
           /\ Stays(p, p)
           /\ Stays(SignedIn(p), p) /\ Stays(SignedOut(p), p) /\ Stays(Kicked(p), p)
           /\ Kicked(p).sock # "open" /\ SignedOut(p).sock # "open"
           /\ \A b \in BOOLEAN : Stays([p EXCEPT !.busy = b], p) /\ Stays([p EXCEPT !.event = b], p)
           /\ Stays([p EXCEPT !.sock = "connecting"], p)
           /\ [p EXCEPT !.sock = "connecting"].sock = "connecting"
<1>1. Loading \in Pages /\ Loading.sock = "none" /\ Stays(p, p)
  BY DEF Loading, Pages, Stays
<1>2. PICK a, b, k : a = SignedIn(p) /\ b = SignedOut(p) /\ k = Kicked(p)
  OBVIOUS
<1>3. a \in Pages /\ a.sock = "connecting"
  BY <1>2 DEF SignedIn, Pages
<1>4. b \in Pages /\ b.sock = "none"
  BY <1>2 DEF SignedOut, Pages
<1>5. k \in Pages /\ k.sock # "open"
  <2>1. CASE p.sock = "open"
    <3>1. k = [p EXCEPT !.sock = "kicked"]
      BY <1>2, <2>1 DEF Kicked
    <3> QED BY <3>1 DEF Pages
  <2>2. CASE p.sock # "open"
    BY <1>2, <2>2 DEF Kicked
  <2> QED BY <2>1, <2>2
<1>6. ASSUME NEW v \in BOOLEAN PROVE Stays([p EXCEPT !.busy = v], p) /\ Stays([p EXCEPT !.event = v], p)
  <2>1. PICK x, y : x = [p EXCEPT !.busy = v] /\ y = [p EXCEPT !.event = v]
    OBVIOUS
  <2>2. x \in Pages /\ y \in Pages /\ x.sock = p.sock /\ x.at = p.at /\ y.sock = p.sock /\ y.at = p.at
    BY <2>1 DEF Pages
  <2> QED BY <2>1, <2>2 DEF Stays
<1>7. PICK z : z = [p EXCEPT !.sock = "connecting"]
  OBVIOUS
<1>8. z \in Pages /\ z.sock = "connecting"
  BY <1>7 DEF Pages
<1> QED BY <1>1, <1>2, <1>3, <1>4, <1>5, <1>6, <1>7, <1>8 DEF Stays

LEMMA StaysOn ==
    ASSUME NEW p, NEW q, NEW r, Stays(q, p), Stays(r, q)
    PROVE  Stays(r, p)
BY DEF Stays

LEMMA AnswerPage ==
    ASSUME NEW p \in Pages, NEW a \in Answers
    PROVE  Stays(AfterAnswer(p, a), p)
<1>1. PICK x, y : x = [p EXCEPT !.busy = FALSE] /\ y = [p EXCEPT !.event = FALSE]
  OBVIOUS
<1>2. x \in Pages /\ y \in Pages /\ x.sock = p.sock /\ x.at = p.at /\ y.sock = p.sock /\ y.at = p.at
  BY <1>1 DEF Pages
<1>3. PICK s, u, v, w : s = SignedIn(p) /\ u = SignedOut(p) /\ v = SignedIn(x) /\ w = SignedOut(y)
  OBVIOUS
<1>4. Stays(s, p) /\ Stays(u, p) /\ Stays(x, p) /\ Stays(v, p) /\ Stays(w, p)
  BY <1>2, <1>3, PageFacts DEF Stays
<1>5. a.to \in Routes /\ a.ok \in BOOLEAN
  BY DEF Answers
<1>6. \/ AfterAnswer(p, a) = s \/ AfterAnswer(p, a) = u \/ AfterAnswer(p, a) = x
      \/ AfterAnswer(p, a) = v \/ AfterAnswer(p, a) = w
  BY <1>1, <1>3, <1>5 DEF AfterAnswer, Routes
<1> QED BY <1>4, <1>6

LEMMA LossPage ==
    ASSUME NEW p \in Pages, NEW request
    PROVE  Stays(AfterLoss(p, request), p)
<1>1. AfterLoss(p, request) = p \/ AfterLoss(p, request) = SignedOut(p)
  BY DEF AfterLoss
<1> QED BY <1>1, PageFacts

LEMMA MessageFacts ==
    /\ \A t \in Routes, flag \in BOOLEAN :
          Asking(t, flag) \in Requests /\ Asking(t, flag) \notin Answers
    /\ \A to \in Routes, ok \in BOOLEAN, token \in Tokens \cup {None} :
          Answer(to, ok, token) \in Answers /\ Answer(to, ok, token).token = token
    /\ \A r \in Requests : r.t \in Routes /\ r.flag \in BOOLEAN
    /\ \A a \in Answers : a.t = "answer" /\ a.t \notin Routes
    /\ Issue \in Tokens \/ ~(now \in Nat /\ secret \in Nat /\ everywhere \in Nat /\ boots \in Nat)
<1>1. ASSUME NEW t \in Routes, NEW flag \in BOOLEAN
      PROVE  Asking(t, flag) \in Requests /\ Asking(t, flag) \notin Answers
  <2>1. PICK r : r = Asking(t, flag)
    OBVIOUS
  <2>2. r \in Requests /\ r.t = t
    BY <2>1 DEF Asking, Requests
  <2>3. r \notin Answers
    BY <2>2 DEF Answers, Routes
  <2> QED BY <2>1, <2>2, <2>3
<1>2. ASSUME NEW to \in Routes, NEW ok \in BOOLEAN, NEW token \in Tokens \cup {None}
      PROVE  Answer(to, ok, token) \in Answers /\ Answer(to, ok, token).token = token
  BY DEF Answer, Answers
<1>3. \A r \in Requests : r.t \in Routes /\ r.flag \in BOOLEAN
  BY DEF Requests
<1>4. \A a \in Answers : a.t = "answer" /\ a.t \notin Routes
  BY DEF Answers, Routes
<1>5. ASSUME now \in Nat, secret \in Nat, everywhere \in Nat, boots \in Nat PROVE Issue \in Tokens
  <2>1. now + DEFAULT_TTL_MS \in Nat
    BY <1>5, AccessPeriods
  <2> QED BY <1>5, <2>1 DEF Issue, Tokens
<1> QED BY <1>1, <1>2, <1>3, <1>4, <1>5
LEMMA SessionInit == Init => SessionInv
<1> SUFFICES ASSUME Init PROVE SessionInv
  OBVIOUS
<1>1. SignedOut(Loading) \in Pages /\ SignedOut(Loading).sock # "open"
  <2>1. PICK p \in Pages : p = Loading
    BY DEF Loading, Pages
  <2> QED BY <2>1, PageFacts DEF Stays
<1>2. /\ page \in [Consoles -> Pages] /\ \A c \in Consoles : page[c].sock # "open"
      /\ cookie \in [Consoles -> Tokens \cup {None}] /\ \A c \in Consoles : cookie[c] = None
      /\ wire \in [Consoles -> Requests \cup Answers \cup {None}] /\ \A c \in Consoles : wire[c] = None
  BY <1>1 DEF Init
<1> QED BY <1>2 DEF Init, SessionInv, Good, Honest

(* A step that leaves the secret alone.                                    *)
LEMMA SessionStep ==
    ASSUME SessionInv, now' \in Nat, given' = given,
           secret' = secret, everywhere' = everywhere, boots' = boots,
           cookie' \in [Consoles -> Tokens \cup {None}],
           page' \in [Consoles -> Pages],
           wire' \in [Consoles -> Requests \cup Answers \cup {None}],
           \A c \in Consoles : /\ Good(cookie'[c], given, secret, everywhere, boots)
                               /\ Honest(wire'[c], given, secret, everywhere, boots),
           \A c \in Consoles : \/ Stays(page'[c], page[c])
                               \/ ~SecretIsBack => page'[c].at = everywhere
    PROVE  SessionInv'
BY DEF SessionInv, Stays, SecretIsBack

(* The secret is replaced, or comes back, and nobody is connected.         *)
LEMMA SecretStep ==
    ASSUME SessionInv, now' = now, given' = given, cookie' = cookie,
           \/ everywhere' = everywhere + 1 /\ boots' = boots /\ secret' = FreshSecret
           \/ everywhere' = everywhere /\ boots' = boots + 1 /\ secret' = StartingSecret,
           page' \in [Consoles -> Pages],
           wire' \in [Consoles -> Requests \cup Answers \cup {None}],
           \A c \in Consoles : page'[c].sock # "open",
           \A c \in Consoles : Honest(wire'[c], given, secret, everywhere, boots)
    PROVE  SessionInv'
<1>1. /\ secret \in Nat /\ everywhere \in Nat /\ boots \in Nat /\ secret <= everywhere + boots
      /\ given \in BOOLEAN /\ (given /\ everywhere = 0 => secret = 0)
  BY DEF SessionInv
<1>2. \/ everywhere' = everywhere + 1 /\ boots' = boots /\ secret' = everywhere + boots + 1
      \/ everywhere' = everywhere /\ boots' = boots + 1 /\ ~given /\ secret' = everywhere + boots + 1
      \/ everywhere' = everywhere /\ boots' = boots + 1 /\ given /\ secret' = 0
  BY <1>1 DEF FreshSecret, StartingSecret
<1>3. ASSUME NEW token, Good(token, given, secret, everywhere, boots)
      PROVE  Good(token, given', secret', everywhere', boots')
  <2> SUFFICES ASSUME token # None PROVE Good(token, given', secret', everywhere', boots')
    BY DEF Good
  <2>1. /\ token \in Tokens /\ token.secret \in Nat /\ token.at \in Nat /\ token.boot \in Nat
        /\ token.at <= everywhere /\ token.boot <= boots
        /\ token.secret <= token.at + token.boot
        /\ given /\ ~(secret = 0 /\ everywhere > 0) /\ token.at = everywhere => token.secret = secret
    BY <1>3 DEF Good, Tokens, Current
  <2>2. token.secret <= everywhere + boots
    BY <1>1, <2>1
  <2> QED BY <1>1, <1>2, <2>1, <2>2 DEF Good, Current
<1>4. \A c \in Consoles : /\ Good(cookie'[c], given', secret', everywhere', boots')
                          /\ Honest(wire'[c], given', secret', everywhere', boots')
  BY <1>3 DEF SessionInv, Honest
<1>5. /\ secret' \in Nat /\ everywhere' \in Nat /\ boots' \in Nat
      /\ secret' <= everywhere' + boots' /\ (given' /\ everywhere' = 0 => secret' = 0)
  BY <1>1, <1>2
<1> QED BY <1>4, <1>5 DEF SessionInv

LEMMA SessionParts ==
    ASSUME SessionInv
    PROVE  /\ now \in Nat /\ secret \in Nat /\ everywhere \in Nat /\ boots \in Nat
           /\ secret <= everywhere + boots
           /\ \A c \in Consoles :
                 /\ page[c] \in Pages /\ Stays(page[c], page[c])
                 /\ cookie[c] \in Tokens \cup {None} /\ Good(cookie[c], given, secret, everywhere, boots)
                 /\ wire[c] \in Requests \cup Answers \cup {None}
                 /\ Honest(wire[c], given, secret, everywhere, boots)
           /\ Honest(None, given, secret, everywhere, boots) /\ Good(None, given, secret, everywhere, boots)
           /\ \A r \in Requests : r \notin Answers
BY MessageFacts DEF SessionInv, Honest, Good, Stays

(* The browser's own steps.                                                *)
LEMMA BrowserKeeps ==
    ASSUME SessionInv, NEW c \in Consoles,
           \/ Load(c) \/ Receive(c) \/ Lose(c) \/ Connect(c) \/ Disconnect(c)
           \/ \E flag \in BOOLEAN : SignIn(c, flag) \/ SignOut(c, flag)
    PROVE  SessionInv'
<1>0. PICK p, k, m : p = page[c] /\ k = cookie[c] /\ m = wire[c]
  OBVIOUS
<1>1. /\ p \in Pages /\ k \in Tokens \cup {None} /\ Good(k, given, secret, everywhere, boots)
      /\ m \in Requests \cup Answers \cup {None} /\ Honest(m, given, secret, everywhere, boots)
      /\ Stays(p, p)
  BY <1>0, SessionParts
(* A page and its message are replaced.                                    *)
<1>2. ASSUME NEW q \in Pages, NEW r \in Requests \cup Answers \cup {None}, NEW j \in Tokens \cup {None},
             page' = [page EXCEPT ![c] = q], wire' = [wire EXCEPT ![c] = r],
             cookie' = [cookie EXCEPT ![c] = j],
             Stays(q, p) \/ (~SecretIsBack => q.at = everywhere),
             Honest(r, given, secret, everywhere, boots), Good(j, given, secret, everywhere, boots),
             now' = now, given' = given, secret' = secret, everywhere' = everywhere, boots' = boots
      PROVE  SessionInv'
  <2>1. /\ page' \in [Consoles -> Pages] /\ page'[c] = q
        /\ wire' \in [Consoles -> Requests \cup Answers \cup {None}] /\ wire'[c] = r
        /\ cookie' \in [Consoles -> Tokens \cup {None}] /\ cookie'[c] = j
        /\ \A d \in Consoles \ {c} : page'[d] = page[d] /\ wire'[d] = wire[d] /\ cookie'[d] = cookie[d]
        /\ now' \in Nat
    BY <1>2 DEF SessionInv
  <2>2. \A d \in Consoles : /\ Good(cookie'[d], given, secret, everywhere, boots)
                            /\ Honest(wire'[d], given, secret, everywhere, boots)
    BY <1>2, <2>1, SessionParts
  <2>3. \A d \in Consoles : Stays(page'[d], page[d]) \/ (~SecretIsBack => page'[d].at = everywhere)
    BY <1>0, <1>2, <2>1, SessionParts
  <2> QED BY <1>2, <2>1, <2>2, <2>3, SessionStep
<1>3. /\ page = [page EXCEPT ![c] = p] /\ wire = [wire EXCEPT ![c] = m]
      /\ cookie = [cookie EXCEPT ![c] = k]
  BY <1>0 DEF SessionInv
<1>4. CASE Load(c)
  <2>1. PICK q, r : q = Loading /\ r = Asking("session", FALSE)
    OBVIOUS
  <2>2. q \in Pages /\ Stays(q, p) /\ r \in Requests /\ Honest(r, given, secret, everywhere, boots)
    BY <1>1, <2>1, PageFacts, MessageFacts DEF Stays, Honest, Routes
  <2>3. /\ page' = [page EXCEPT ![c] = q] /\ wire' = [wire EXCEPT ![c] = r] /\ cookie' = cookie
        /\ now' = now /\ given' = given /\ secret' = secret /\ everywhere' = everywhere /\ boots' = boots
    BY <1>4, <2>1 DEF Load, sessions
  <2> QED BY <1>1, <1>2, <1>3, <2>2, <2>3
<1>5. CASE Receive(c)
  <2>1. PICK q, j : /\ q = AfterAnswer(p, m)
                    /\ j = IF m.to = "session" THEN k
                           ELSE IF m.to = "auth" /\ ~m.ok THEN k ELSE m.token
    OBVIOUS
  <2>2. m # None /\ m.t = "answer"
    BY <1>0, <1>5 DEF Receive
  <2>3. m \in Answers /\ m.token \in Tokens \cup {None} /\ Good(m.token, given, secret, everywhere, boots)
    BY <1>1, <2>2, MessageFacts DEF Honest, Answers, Routes
  <2>4. Stays(q, p) /\ q \in Pages /\ j \in Tokens \cup {None} /\ Good(j, given, secret, everywhere, boots)
    BY <1>1, <2>1, <2>3, AnswerPage DEF Stays
  <2>5. /\ page' = [page EXCEPT ![c] = q] /\ wire' = [wire EXCEPT ![c] = None]
        /\ cookie' = [cookie EXCEPT ![c] = j]
        /\ now' = now /\ given' = given /\ secret' = secret /\ everywhere' = everywhere /\ boots' = boots
    <3>1. page' = [page EXCEPT ![c] = AfterAnswer(@, m)] /\ wire' = [wire EXCEPT ![c] = None]
          /\ now' = now /\ given' = given /\ secret' = secret /\ everywhere' = everywhere /\ boots' = boots
      BY <1>0, <1>5 DEF Receive, sessions
    <3>2. cookie' = [cookie EXCEPT ![c] = j]
      BY <1>0, <1>5, <2>1 DEF Receive
    <3> QED BY <1>0, <2>1, <3>1, <3>2
  <2> QED BY <1>2, <2>4, <2>5, SessionParts
<1>6. CASE Lose(c)
  <2>1. PICK q : q = AfterLoss(p, m)
    OBVIOUS
  <2>2. Stays(q, p) /\ q \in Pages
    BY <1>1, <2>1, LossPage DEF Stays
  <2>3. /\ page' = [page EXCEPT ![c] = q] /\ wire' = [wire EXCEPT ![c] = None] /\ cookie' = cookie
        /\ now' = now /\ given' = given /\ secret' = secret /\ everywhere' = everywhere /\ boots' = boots
    BY <1>0, <1>6, <2>1 DEF Lose, sessions
  <2> QED BY <1>1, <1>2, <1>3, <2>2, <2>3, SessionParts
<1>7. CASE Connect(c)
  <2>1. PICK q : q = IF Verify(k) THEN [p EXCEPT !.sock = "open", !.event = TRUE, !.at = k.at]
                     ELSE SignedOut(p)
    OBVIOUS
  <2>2. q \in Pages /\ (Stays(q, p) \/ (~SecretIsBack => q.at = everywhere))
    <3>1. CASE Verify(k)
      <4>1. k \in Tokens /\ k.secret = secret /\ k.at \in Nat
        BY <1>1, <3>1 DEF Verify, Tokens
      <4>2. k # None
        BY <3>1 DEF Verify
      <4>3. ~SecretIsBack => k.at = everywhere
        BY <1>1, <4>1, <4>2 DEF Good, Current, SecretIsBack
      <4>4. q = [p EXCEPT !.sock = "open", !.event = TRUE, !.at = k.at]
        BY <2>1, <3>1
      <4>5. q \in Pages /\ q.at = k.at
        BY <1>1, <4>1, <4>4 DEF Pages
      <4> QED BY <4>3, <4>5
    <3>2. CASE ~Verify(k)
      BY <1>1, <2>1, <3>2, PageFacts DEF Stays
    <3> QED BY <3>1, <3>2
  <2>3. /\ page' = [page EXCEPT ![c] = q] /\ wire' = wire /\ cookie' = cookie
        /\ now' = now /\ given' = given /\ secret' = secret /\ everywhere' = everywhere /\ boots' = boots
    BY <1>0, <1>7, <2>1 DEF Connect, sessions
  <2> QED BY <1>1, <1>2, <1>3, <2>2, <2>3
<1>8. CASE Disconnect(c)
  <2>1. PICK q : q = [p EXCEPT !.sock = "connecting"]
    OBVIOUS
  <2>2. Stays(q, p) /\ q \in Pages
    BY <1>1, <2>1, PageFacts DEF Stays
  <2>3. /\ page' = [page EXCEPT ![c] = q] /\ wire' = wire /\ cookie' = cookie
        /\ now' = now /\ given' = given /\ secret' = secret /\ everywhere' = everywhere /\ boots' = boots
    BY <1>0, <1>8, <2>1 DEF Disconnect, sessions
  <2> QED BY <1>1, <1>2, <1>3, <2>2, <2>3
<1>9. ASSUME NEW flag \in BOOLEAN, SignIn(c, flag) \/ SignOut(c, flag) PROVE SessionInv'
  <2>1. PICK x, r, s : /\ x = [p EXCEPT !.busy = TRUE]
                       /\ r = Asking("auth", flag) /\ s = Asking("signout", flag)
    OBVIOUS
  <2>2. /\ x \in Pages /\ Stays(x, p)
        /\ r \in Requests /\ Honest(r, given, secret, everywhere, boots)
        /\ s \in Requests /\ Honest(s, given, secret, everywhere, boots)
    BY <1>1, <2>1, PageFacts, MessageFacts DEF Stays, Honest, Routes
  <2>3. /\ cookie' = cookie /\ now' = now /\ given' = given
        /\ secret' = secret /\ everywhere' = everywhere /\ boots' = boots
        /\ \/ page' = [page EXCEPT ![c] = x] /\ wire' = [wire EXCEPT ![c] = r]
           \/ page' = [page EXCEPT ![c] = p] /\ wire' = [wire EXCEPT ![c] = s]
    BY <1>0, <1>9, <2>1 DEF SignIn, SignOut, Ask, sessions
  <2> QED BY <1>1, <1>2, <1>3, <2>2, <2>3
<1> QED BY <1>4, <1>5, <1>6, <1>7, <1>8, <1>9
(* The routes of the host.                                                 *)
LEMMA RoutesKeep ==
    ASSUME SessionInv, NEW c \in Consoles, HandleSession(c) \/ HandleAuth(c) \/ HandleSignOut(c)
    PROVE  SessionInv'
<1>0. PICK m : m = wire[c]
  OBVIOUS
<1>1. /\ m \in Requests /\ m.t \in Routes
      /\ now \in Nat /\ secret \in Nat /\ everywhere \in Nat /\ boots \in Nat /\ secret <= everywhere + boots
  <2>1. m # None /\ m.t \in Routes
    BY <1>0 DEF HandleSession, HandleAuth, HandleSignOut, Asks, Routes
  <2> QED BY <1>0, <2>1, SessionParts, MessageFacts
(* The answer is a good token, or none.                                    *)
<1>2. PICK ok \in BOOLEAN, token \in Tokens \cup {None} :
         wire' = [wire EXCEPT ![c] = Answer(m.t, ok, token)] /\ Good(token, given, secret, everywhere, boots)
  <2>1. Good(None, given, secret, everywhere, boots) /\ Verify(cookie[c]) \in BOOLEAN
    BY DEF Good, Verify
  <2>2. CASE HandleSession(c)
    BY <1>0, <2>1, <2>2 DEF HandleSession, Reply
  <2>3. CASE HandleAuth(c)
    <3>1. PICK i : i = Issue
      OBVIOUS
    <3>2. i \in Tokens /\ Good(i, given, secret, everywhere, boots)
      <4>1. i \in Tokens /\ i.secret = secret /\ i.at = everywhere /\ i.boot = boots
        BY <1>1, <3>1, MessageFacts DEF Issue
      <4> QED BY <1>1, <4>1 DEF Good
    <3>3. \/ wire' = [wire EXCEPT ![c] = Answer(m.t, FALSE, None)]
          \/ wire' = [wire EXCEPT ![c] = Answer(m.t, TRUE, i)]
      BY <1>0, <2>3, <3>1 DEF HandleAuth, Reply
    <3> QED BY <2>1, <3>2, <3>3
  <2>4. CASE HandleSignOut(c)
    BY <1>0, <2>1, <2>4 DEF HandleSignOut, Reply
  <2> QED BY <2>2, <2>3, <2>4
<1>3. PICK a : a = Answer(m.t, ok, token)
  OBVIOUS
<1>4. a \in Answers /\ Honest(a, given, secret, everywhere, boots)
  BY <1>1, <1>2, <1>3, MessageFacts DEF Honest
<1>5. /\ wire' \in [Consoles -> Requests \cup Answers \cup {None}]
      /\ \A d \in Consoles : Honest(wire'[d], given, secret, everywhere, boots)
  <2>1. wire' = [wire EXCEPT ![c] = a]
    BY <1>2, <1>3
  <2>2. /\ wire' \in [Consoles -> Requests \cup Answers \cup {None}] /\ wire'[c] = a
        /\ \A d \in Consoles \ {c} : wire'[d] = wire[d]
    BY <1>4, <2>1 DEF SessionInv
  <2> QED BY <1>4, <2>2, SessionParts
<1>6. now' = now /\ given' = given /\ cookie' = cookie
  BY DEF HandleSession, HandleAuth, HandleSignOut, sessions
<1>7. ASSUME secret' = secret, everywhere' = everywhere, boots' = boots, page' = page PROVE SessionInv'
  <2>1. /\ now' \in Nat /\ cookie' \in [Consoles -> Tokens \cup {None}] /\ page' \in [Consoles -> Pages]
    BY <1>6, <1>7 DEF SessionInv
  <2>2. \A d \in Consoles : Good(cookie'[d], given, secret, everywhere, boots) /\ Stays(page'[d], page[d])
    BY <1>6, <1>7, SessionParts
  <2> QED BY <1>5, <1>6, <1>7, <2>1, <2>2, SessionStep
<1>8. ASSUME secret' = FreshSecret, everywhere' = everywhere + 1, boots' = boots,
             page' = [d \in Consoles |-> Kicked(page[d])]
      PROVE  SessionInv'
  <2>1. \A d \in Consoles : Kicked(page[d]) \in Pages /\ Kicked(page[d]).sock # "open"
    BY PageFacts, SessionParts DEF Stays
  <2>2. page' \in [Consoles -> Pages] /\ \A d \in Consoles : page'[d].sock # "open"
    BY <1>8, <2>1
  <2> QED BY <1>5, <1>6, <1>8, <2>2, SecretStep
<1>9. \/ secret' = secret /\ everywhere' = everywhere /\ boots' = boots /\ page' = page
      \/ /\ secret' = FreshSecret /\ everywhere' = everywhere + 1 /\ boots' = boots
         /\ page' = [d \in Consoles |-> Kicked(page[d])]
  BY DEF HandleSession, HandleAuth, HandleSignOut, sessions
<1> QED BY <1>7, <1>8, <1>9

LEMMA RestartKeeps ==
    ASSUME SessionInv, Restart
    PROVE  SessionInv'
<1>1. /\ now' = now /\ given' = given /\ cookie' = cookie
      /\ wire' = [c \in Consoles |-> None]
  BY DEF Restart
<1>2. /\ wire' \in [Consoles -> Requests \cup Answers \cup {None}]
      /\ \A c \in Consoles : Honest(wire'[c], given, secret, everywhere, boots)
  BY <1>1 DEF Honest
<1>3. page' \in [Consoles -> Pages] /\ \A c \in Consoles : page'[c].sock # "open"
  <2> DEFINE Back(p) == IF p.sock = "open" THEN [p EXCEPT !.sock = "connecting"] ELSE p
  <2>1. page' = [c \in Consoles |-> Back(AfterLoss(page[c], wire[c]))]
    BY DEF Restart
  <2>2. ASSUME NEW c \in Consoles
        PROVE  /\ Back(AfterLoss(page[c], wire[c])) \in Pages
               /\ Back(AfterLoss(page[c], wire[c])).sock # "open"
    <3>1. PICK p : p = AfterLoss(page[c], wire[c])
      OBVIOUS
    <3>2. p \in Pages
      BY <3>1, LossPage, SessionParts DEF Stays
    <3>3. PICK q : q = [p EXCEPT !.sock = "connecting"]
      OBVIOUS
    <3>4. q \in Pages /\ q.sock = "connecting"
      BY <3>2, <3>3 DEF Pages
    <3> QED BY <3>1, <3>2, <3>3, <3>4
  <2> HIDE DEF Back
  <2> QED BY <2>1, <2>2
<1>4. everywhere' = everywhere /\ boots' = boots + 1 /\ secret' = StartingSecret
  BY DEF Restart
<1> QED BY <1>1, <1>2, <1>3, <1>4, SecretStep

LEMMA SessionNext == SessionInv /\ [Next]_avars => SessionInv'
<1> SUFFICES ASSUME SessionInv, [Next]_avars PROVE SessionInv'
  OBVIOUS
<1>1. ASSUME now' \in Nat, UNCHANGED sessions, UNCHANGED browsers PROVE SessionInv'
  BY <1>1 DEF SessionInv, sessions, browsers, SecretIsBack
<1>2. now \in Nat /\ now + 1 \in Nat
  BY DEF SessionInv
<1>3. ASSUME NEW c \in Consoles,
             \/ Load(c) \/ Receive(c) \/ Lose(c) \/ Connect(c) \/ Disconnect(c)
             \/ \E flag \in BOOLEAN : SignIn(c, flag) \/ SignOut(c, flag)
      PROVE  SessionInv'
  BY <1>3, BrowserKeeps
<1>4. ASSUME NEW c \in Consoles, HandleSession(c) \/ HandleAuth(c) \/ HandleSignOut(c)
      PROVE  SessionInv'
  BY <1>4, RoutesKeep
<1>5. ASSUME NEW p \in Phones, React(p) \/ PhoneReconnects(p) PROVE SessionInv'
  BY <1>1, <1>2, <1>5 DEF React, PhoneReconnects
<1>6. CASE Clock
  BY <1>1, <1>2, <1>6 DEF Clock
<1>7. CASE UNCHANGED avars
  BY <1>1, <1>2, <1>7 DEF avars
<1> QED BY <1>3, <1>4, <1>5, <1>6, <1>7, RestartKeeps DEF Next

(* Unless a secret came back, nobody is connected or let in on a session from
   before everyone was last signed out (req.md:144).                       *)
LEMMA SessionsEnd == SessionInv => EndedSessionsAreOver
<1> SUFFICES ASSUME SessionInv, ~SecretIsBack, NEW c \in Consoles
             PROVE  /\ page[c].sock = "open" => page[c].at = everywhere
                    /\ Verify(cookie[c]) => cookie[c].at = everywhere
  BY DEF EndedSessionsAreOver
<1>1. page[c].sock = "open" => page[c].at = everywhere
  BY DEF SessionInv
<1>2. Verify(cookie[c]) => cookie[c].at = everywhere
  BY SessionParts DEF Verify, Good, Current, SecretIsBack
<1> QED BY <1>1, <1>2

(* A session nobody ended is good while the process that issued it runs, and
   with SESSION_SECRET over restarts (req.md:143), unless a secret came back;
   without SESSION_SECRET no session is good after a restart.              *)
LEMMA SessionsStayGood == SessionInv => SessionsLast
<1> SUFFICES ASSUME SessionInv, NEW c \in Consoles, Lasting(cookie[c])
             PROVE  /\ cookie[c].boot = boots => Verify(cookie[c])
                    /\ given /\ ~SecretIsBack => Verify(cookie[c])
                    /\ ~given /\ cookie[c].boot < boots => ~Verify(cookie[c])
  BY DEF SessionsLast
<1>1. /\ cookie[c] # None /\ cookie[c].exp > now /\ cookie[c].at = everywhere
      /\ Good(cookie[c], given, secret, everywhere, boots)
  BY SessionParts DEF Lasting
<1> QED BY <1>1 DEF Good, Current, SecretIsBack, Verify

(* Whatever consoles, restarts and the network do, nobody is let in on a
   session that was ended, by a sign-out everywhere or by a restart that drew
   another secret, and a session that was not is good: ConsolesFollowSessions,
   which names the exception of a secret that came back.                    *)
THEOREM ConsolesKeepToSessions == AccessSpec => []ConsolesFollowSessions
<1>1. SessionInv => ConsolesFollowSessions
  BY SessionsEnd, SessionsStayGood DEF ConsolesFollowSessions
<1> QED BY <1>1, SessionInit, SessionNext, PTL DEF AccessSpec
=============================================================================
