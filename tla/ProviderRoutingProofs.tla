----------------------- MODULE ProviderRoutingProofs -----------------------
(***************************************************************************)
(* The limits of routing.py hold over all requests, for any providers,     *)
(* limits, requests and errors, and however the failover loops interleave. *)
(*                                                                         *)
(* The argument, for one provider: its deque of calls is what was          *)
(* attempted, without a prefix that has left the minute; its last call is  *)
(* the last attempt; and what its day's total does not count was attempted *)
(* before that day (Booked).  An attempt is recorded in the step that      *)
(* found room for it, so the attempt rpm (or rpd) places earlier is among  *)
(* those that are too old.  Then: a backoff lasts, but for failures of     *)
(* attempts that are older than it (CallsInv).  At the end the failover    *)
(* loop: no candidate is tried twice and none is left out, the turns do    *)
(* not run out before the candidates do, and the attempts no row is about  *)
(* are those of the requests at the provider or lost there (LoopInv).      *)
(***************************************************************************)
EXTENDS ProviderRouting, NatLemmas, TLAPS

(* dq is s without its first d elements.                                   *)
Suffix(dq, s, d) == Len(dq) = Len(s) - d /\ \A i \in 1..Len(dq) : dq[i] = s[d + i]

(* The bookkeeping s of the attempts a, at time t.                         *)
InMinute(s, a, t) ==
  \E d \in 0..Len(a) : Suffix(s.calls, a, d) /\ \A i \in 1..d : a[i] < t - Minute
InDay(s, a, t) ==
  /\ s.day % Day = 0 /\ s.day <= t /\ s.calls_today <= Len(a)
  /\ \A i \in 1..Len(a) : a[i] < s.day + Day
  /\ \A i \in 1..(Len(a) - s.calls_today) : a[i] < s.day
InOrder(s, a, t) ==
  /\ \A i \in 1..Len(a) : a[i] <= t /\ a[i] <= s.last_call
  /\ s.last_call <= t
Booked(s, a, t) ==
  s \in RateStates /\ a \in Seq(Nat) /\ InMinute(s, a, t) /\ InDay(s, a, t) /\ InOrder(s, a, t)

(* The three limits, of the attempts at one provider.                      *)
Within(a, limits) ==
  /\ \A i \in 1..Len(a) : i + limits.rpm <= Len(a) => a[i + limits.rpm] > a[i] + Minute
  /\ \A i \in 1..Len(a) : i + limits.rpd <= Len(a) => a[i + limits.rpd] \div Day > a[i] \div Day
  /\ \A i \in 2..Len(a) : a[i] - a[i - 1] >= limits.cooldown

AllBooked(rates, atts, t) ==
  /\ rates \in [Providers -> RateStates] /\ atts \in [Providers -> Seq(Nat)]
  /\ \A p \in Providers : Booked(rates[p], atts[p], t) /\ Within(atts[p], Limits[p])

IInv == now \in Nat /\ AllBooked(rate, attempts, now)
-----------------------------------------------------------------------------
(* Days: what was before a day that has begun was on an earlier one, and   *)
(* of the days that have begun today is the last.                          *)
LEMMA EarlierDay ==
  ASSUME NEW a \in Nat, NEW b \in Nat, NEW day \in Nat, day % Day = 0, a < day, day <= b
  PROVE  b \div Day > a \div Day
<1> DEFINE i == a \div Day
           j == b \div Day
           k == day \div Day
<1>1. Day \in Nat \ {0}
  BY TimesAssumption
<1>2. i \in Nat /\ j \in Nat /\ k \in Nat
  BY <1>1
<1>3. Day * i <= a /\ day = Day * k /\ b < Day * (j + 1)
  BY <1>1
<1> HIDE DEF i, j, k
<1>4. Day * i < Day * k /\ Day * k < Day * (j + 1)
  BY <1>1, <1>2, <1>3
<1>5. i < k /\ k <= j
  <2>1. ASSUME k <= i PROVE FALSE
    <3>1. Day * k <= Day * i
      BY <2>1, <1>1, <1>2
    <3> QED BY <3>1, <1>1, <1>2, <1>4
  <2>2. ASSUME j + 1 <= k PROVE FALSE
    <3>1. Day * (j + 1) <= Day * k
      BY <2>2, <1>1, <1>2
    <3> QED BY <3>1, <1>1, <1>2, <1>4
  <2> QED BY <2>1, <2>2, <1>2
<1> QED BY <1>2, <1>5 DEF i, j

LEMMA TodayBegins ==
  ASSUME NEW t \in Nat
  PROVE  LET today == t - (t % Day) IN
         /\ today \in Nat /\ today % Day = 0 /\ today <= t /\ t < today + Day
         /\ \A day \in Nat : day % Day = 0 /\ day <= t => day <= today
<1> DEFINE q == t \div Day
           today == t - (t % Day)
<1>1. Day \in Nat \ {0}
  BY TimesAssumption
<1>2. q \in Nat /\ today = Day * q /\ t % Day \in 0..(Day - 1)
  BY <1>1
<1>3. today \in Nat /\ today <= t /\ t < today + Day
  BY <1>1, <1>2
<1>4. today % Day = 0
  BY <1>1, <1>2
<1>5. ASSUME NEW day \in Nat, day % Day = 0, day <= t PROVE day <= today
  <2> DEFINE k == day \div Day
  <2>1. k \in Nat /\ day = Day * k
    BY <1>1, <1>5
  <2> HIDE DEF k, q
  <2>2. ASSUME q + 1 <= k PROVE FALSE
    <3>1. Day * (q + 1) <= Day * k
      BY <2>1, <2>2, <1>1, <1>2
    <3>2. Day * (q + 1) = Day * q + Day
      BY <1>1, <1>2
    <3> QED BY <3>1, <3>2, <2>1, <1>1, <1>2, <1>3, <1>5
  <2>3. k <= q
    BY <2>1, <2>2, <1>2
  <2>4. Day * k <= Day * q
    BY <2>1, <2>3, <1>1, <1>2
  <2> QED BY <2>1, <2>4, <1>2
<1> QED BY <1>3, <1>4, <1>5

LEMMA NextDay ==
  ASSUME NEW d \in Nat, d % Day = 0
  PROVE  (d + Day) % Day = 0
<1> DEFINE k == d \div Day
           j == (d + Day) \div Day
           r == (d + Day) % Day
<1>1. Day \in Nat \ {0}
  BY TimesAssumption
<1>2. k \in Nat /\ d = Day * k
  BY <1>1
<1>3. j \in Nat /\ r \in 0..(Day - 1) /\ d + Day = Day * j + r
  BY <1>1
<1> HIDE DEF k, j, r
<1>4. Day * (k + 1) = Day * j + r
  BY <1>1, <1>2, <1>3
<1>5. ASSUME j < k + 1 PROVE r = 0
  <2>1. Day * (j + 1) <= Day * (k + 1)
    BY <1>5, <1>1, <1>2, <1>3
  <2>2. Day * (j + 1) = Day * j + Day
    BY <1>1, <1>3
  <2> QED BY <2>1, <2>2, <1>1, <1>3, <1>4
<1>6. ASSUME k + 1 < j PROVE r = 0
  <2>1. Day * (k + 2) <= Day * j
    BY <1>6, <1>1, <1>2, <1>3
  <2>2. Day * (k + 2) = Day * (k + 1) + Day
    BY <1>1, <1>2
  <2>3. Day * j \in Int /\ Day * (k + 1) \in Int
    BY <1>1, <1>2, <1>3
  <2> QED BY <2>1, <2>2, <2>3, <1>1, <1>3, <1>4
<1>7. CASE j = k + 1
  BY <1>7, <1>1, <1>2, <1>3, <1>4
<1> QED BY <1>2, <1>3, <1>5, <1>6, <1>7 DEF r

(* Dropping from the left leaves a suffix.                                 *)
LEMMA WithoutOldIsSuffix ==
  ASSUME NEW S, NEW dq \in Seq(S), NEW old
  PROVE  \E d \in 0..Len(dq) : /\ Suffix(WithoutOld(dq, old), dq, d)
                               /\ \A i \in 1..d : i \in old
                               /\ WithoutOld(dq, old) \in Seq(S)
<1> DEFINE n == Len(dq)
           young == DOMAIN dq \ old
<1>1. n \in Nat /\ DOMAIN dq = 1..n
  OBVIOUS
<1>2. CASE young = {}
  <2>1. WithoutOld(dq, old) = << >>
    BY <1>2 DEF WithoutOld
  <2>2. \A i \in 1..n : i \in old
    BY <1>1, <1>2
  <2>3. n \in 0..n /\ Suffix(<< >>, dq, n)
    BY <1>1 DEF Suffix
  <2> QED BY <2>1, <2>2, <2>3
<1>3. CASE young # {}
  <2> DEFINE m == CHOOSE i \in young : \A j \in young : i <= j
             d == m - 1
  <2>1. young \subseteq Nat
    BY <1>1
  <2>2. \E i \in young : \A j \in young : i <= j
    <3> HIDE DEF young
    <3> QED BY <1>3, <2>1, LeastElement
  <2>3. m \in young /\ \A j \in young : m <= j
    BY <2>2
  <2>4. WithoutOld(dq, old) = SubSeq(dq, m, n)
    BY <1>3 DEF WithoutOld
  <2> HIDE DEF m
  <2>5. m \in 1..n /\ d \in 0..n
    BY <2>3, <1>1
  <2>6. ASSUME NEW i \in 1..d PROVE i \in old
    <3>1. i \in 1..n /\ i < m
      BY <2>5, <1>1
    <3>2. ~(m <= i)
      BY <3>1, <2>5, <1>1
    <3> QED BY <3>1, <3>2, <2>3, <1>1
  <2>7. SubSeq(dq, m, n) \in Seq(S) /\ Len(SubSeq(dq, m, n)) = n - d
        /\ \A i \in 1..(n - d) : SubSeq(dq, m, n)[i] = dq[d + i]
    BY <2>5, <1>1
  <2>8. Suffix(SubSeq(dq, m, n), dq, d)
    BY <2>7 DEF Suffix
  <2> QED BY <2>4, <2>5, <2>6, <2>7, <2>8
<1> QED BY <1>2, <1>3

(* gc() keeps the books, and afterwards the day is today.                  *)
LEMMA SweptBooked ==
  ASSUME now \in Nat, NEW s, NEW a, Booked(s, a, now)
  PROVE  Booked(Swept(s, now - Minute), a, now)
<1> DEFINE h == now - Minute
           old == {i \in DOMAIN s.calls : s.calls[i] < h}
           oldTokens == {i \in DOMAIN s.tokens : s.tokens[i].at < h}
           calls == WithoutOld(s.calls, old)
           tokens == WithoutOld(s.tokens, oldTokens)
           w == Swept(s, h)
<1>1. s \in RateStates /\ a \in Seq(Nat) /\ h \in Int /\ Minute \in Nat
  BY TimesAssumption DEF Booked
<1>2. s.calls \in Seq(Nat) /\ s.tokens \in Seq([at : Nat, n : Nat])
  BY <1>1 DEF RateStates
<1>3. PICK e \in 0..Len(s.calls) : /\ Suffix(calls, s.calls, e) /\ calls \in Seq(Nat)
                                   /\ \A i \in 1..e : i \in old
  <2> HIDE DEF old
  <2> QED BY <1>2, WithoutOldIsSuffix
<1>4. tokens \in Seq([at : Nat, n : Nat])
  <2> HIDE DEF oldTokens
  <2> QED BY <1>2, WithoutOldIsSuffix
<1>5. w = [s EXCEPT !.calls = calls, !.tokens = tokens]
  BY DEF Swept
<1> HIDE DEF calls, tokens, w
<1>6. /\ w \in RateStates /\ w.calls = calls
      /\ w.calls_today = s.calls_today /\ w.day = s.day /\ w.last_call = s.last_call
  BY <1>1, <1>3, <1>4, <1>5 DEF RateStates
<1>7. InDay(w, a, now) /\ InOrder(w, a, now)
  BY <1>6 DEF Booked, InDay, InOrder
<1>8. InMinute(w, a, now)
  <2>1. PICK d \in 0..Len(a) : Suffix(s.calls, a, d) /\ \A i \in 1..d : a[i] < h
    BY DEF Booked, InMinute
  <2>2. Len(s.calls) = Len(a) - d /\ \A i \in 1..Len(s.calls) : s.calls[i] = a[d + i]
    BY <2>1 DEF Suffix
  <2>3. Len(a) \in Nat /\ d \in Nat /\ e \in Nat /\ d <= Len(a) /\ e <= Len(s.calls)
    BY <1>1, <1>2, <1>3
  <2> DEFINE f == d + e
  <2>4. f \in 0..Len(a)
    BY <2>2, <2>3
  <2>5. Len(calls) = Len(s.calls) - e /\ \A i \in 1..Len(calls) : calls[i] = s.calls[e + i]
    BY <1>3 DEF Suffix
  <2>6. Suffix(calls, a, f)
    <3>1. Len(calls) = Len(a) - f
      BY <2>2, <2>3, <2>5
    <3>2. ASSUME NEW i \in 1..Len(calls) PROVE calls[i] = a[f + i]
      <4>1. e + i \in 1..Len(s.calls) /\ d + (e + i) = f + i
        BY <2>2, <2>3, <2>5, <1>3
      <4> QED BY <4>1, <2>2, <2>5
    <3> QED BY <3>1, <3>2 DEF Suffix
  <2>7. ASSUME NEW i \in 1..f PROVE a[i] < h
    <3>1. CASE i <= d
      BY <3>1, <2>1, <2>3
    <3>2. CASE i > d
      <4>1. i - d \in 1..e /\ d + (i - d) = i
        BY <3>2, <2>3
      <4>2. s.calls[i - d] < h /\ i - d \in 1..Len(s.calls)
        BY <4>1, <1>3, <1>2, <2>3
      <4> QED BY <4>1, <4>2, <2>2
    <3> QED BY <3>1, <3>2, <2>3
  <2> QED BY <2>4, <2>6, <2>7, <1>6 DEF InMinute
<1> QED BY <1>1, <1>6, <1>7, <1>8 DEF Booked, w

LEMMA GcBooked ==
  ASSUME now \in Nat, NEW s, NEW a, Booked(s, a, now)
  PROVE  Booked(Gc(s), a, now) /\ now < Gc(s).day + Day
<1> DEFINE w == Swept(s, now - Minute)
           today == now - (now % Day)
<1>1. Booked(w, a, now)
  BY SweptBooked
<1> HIDE DEF w
<1>2. w \in RateStates /\ a \in Seq(Nat) /\ w.day \in Nat /\ Day \in Nat \ {0}
  BY <1>1, TimesAssumption DEF Booked, RateStates
<1>3. CASE ~(now - w.day >= Day)
  <2>1. NewDay(w) = w
    BY <1>3 DEF NewDay
  <2>2. now < w.day + Day
    BY <1>2, <1>3
  <2> QED BY <1>1, <2>1, <2>2 DEF Gc, w
<1>4. CASE now - w.day >= Day
  <2> DEFINE v == [w EXCEPT !.calls_today = 0, !.tokens_today = 0, !.day = today]
  <2>1. NewDay(w) = v
    BY <1>4 DEF NewDay
  <2>2. /\ today \in Nat /\ today % Day = 0 /\ today <= now /\ now < today + Day
        /\ \A day \in Nat : day % Day = 0 /\ day <= now => day <= today
    BY TodayBegins
  <2>3. (w.day + Day) % Day = 0 /\ w.day + Day \in Nat /\ w.day + Day <= now
    <3>1. w.day % Day = 0
      BY <1>1 DEF Booked, InDay
    <3>2. (w.day + Day) % Day = 0
      BY <3>1, <1>2, NextDay
    <3>3. w.day + Day \in Nat /\ w.day + Day <= now
      BY <1>2, <1>4
    <3> QED BY <3>2, <3>3
  <2> HIDE DEF today
  <2>4. w.day + Day <= today
    BY <2>2, <2>3
  <2>5. /\ v \in RateStates /\ v.calls = w.calls /\ v.last_call = w.last_call
        /\ v.calls_today = 0 /\ v.day = today
    BY <1>2, <2>2 DEF RateStates
  <2> HIDE DEF v
  <2>6. InMinute(v, a, now) /\ InOrder(v, a, now)
    BY <1>1, <2>5 DEF Booked, InMinute, InOrder
  <2>7. \A i \in 1..Len(a) : a[i] < today /\ a[i] < today + Day
    <3> SUFFICES ASSUME NEW i \in 1..Len(a) PROVE a[i] < today /\ a[i] < today + Day
      OBVIOUS
    <3>1. a[i] \in Nat
      BY <1>2
    <3>2. a[i] < w.day + Day
      BY <1>1 DEF Booked, InDay
    <3> QED BY <3>1, <3>2, <2>4, <2>2, <1>2
  <2>8. InDay(v, a, now)
    BY <2>2, <2>5, <2>7, <1>2 DEF InDay
  <2> QED BY <2>1, <2>2, <2>5, <2>6, <2>8, <1>2 DEF Booked, Gc, w
<1> QED BY <1>3, <1>4

(* A call is recorded where there is room for it: the books stay right and *)
(* the limits stay kept.                                                   *)
LEMMA RecordBooked ==
  ASSUME now \in Nat, NEW p \in Providers, NEW s, NEW a, NEW est,
         Booked(s, a, now), now < s.day + Day,
         CanUse(s, Limits[p], est), Within(a, Limits[p])
  PROVE  Booked(Record(s), Append(a, now), now) /\ Within(Append(a, now), Limits[p])
<1> DEFINE w == Record(s)
           b == Append(a, now)
           L == Len(a)
           rpm == Limits[p].rpm
           rpd == Limits[p].rpd
           gap == Limits[p].cooldown
<1>1. /\ s \in RateStates /\ a \in Seq(Nat) /\ L \in Nat
      /\ Day \in Nat \ {0} /\ Minute \in Nat /\ rpm \in Nat /\ rpd \in Nat /\ gap \in Nat
  BY TimesAssumption, LimitsAssumption DEF Booked
<1>2. /\ s.calls \in Seq(Nat) /\ s.calls_today \in Nat /\ s.day \in Nat /\ s.last_call \in Nat
  BY <1>1 DEF RateStates
<1>3. /\ b \in Seq(Nat) /\ Len(b) = L + 1 /\ b[L + 1] = now
      /\ \A i \in 1..L : b[i] = a[i] /\ a[i] \in Nat
  BY <1>1
<1>4. /\ w \in RateStates /\ w.calls = Append(s.calls, now) /\ w.calls_today = s.calls_today + 1
      /\ w.day = s.day /\ w.last_call = now
  <2>1. Append(s.calls, now) \in Seq(Nat) /\ s.calls_today + 1 \in Nat
    BY <1>2
  <2> QED BY <2>1, <1>1 DEF RateStates, Record
<1>5. gap <= now - s.last_call /\ Len(s.calls) < rpm /\ s.calls_today < rpd
  BY DEF CanUse
<1> HIDE DEF w, b, L, rpm, rpd, gap
<1>6. InOrder(w, b, now)
  <2>1. \A i \in 1..L : a[i] <= now
    BY DEF Booked, InOrder, L
  <2>2. ASSUME NEW i \in 1..Len(b) PROVE b[i] <= now /\ b[i] <= w.last_call
    <3>1. i \in 1..L \/ i = L + 1
      BY <1>1, <1>3
    <3>2. CASE i \in 1..L
      BY <1>3, <1>4, <2>1, <3>2
    <3>3. CASE i = L + 1
      BY <1>1, <1>3, <1>4, <3>3
    <3> QED BY <3>1, <3>2, <3>3
  <2>3. w.last_call <= now
    BY <1>1, <1>4
  <2> QED BY <2>2, <2>3 DEF InOrder
<1>7. InDay(w, b, now)
  <2>1. /\ s.day % Day = 0 /\ s.day <= now /\ s.calls_today <= L
        /\ \A i \in 1..L : a[i] < s.day + Day
        /\ \A i \in 1..(L - s.calls_today) : a[i] < s.day
    BY DEF Booked, InDay, L
  <2>2. ASSUME NEW i \in 1..(L + 1) PROVE b[i] < s.day + Day
    <3>1. i \in 1..L \/ i = L + 1
      BY <1>1
    <3>2. CASE i \in 1..L
      BY <1>3, <2>1, <3>2
    <3>3. CASE i = L + 1
      <4>1. b[i] = now
        BY <1>3, <3>3
      <4>2. now < s.day + Day
        OBVIOUS
      <4> QED BY ONLY <4>1, <4>2
    <3> QED BY <3>1, <3>2, <3>3
  <2>3. (L + 1) - (s.calls_today + 1) = L - s.calls_today /\ L - s.calls_today <= L
    BY <1>1, <1>2
  <2>4. ASSUME NEW i \in 1..(L - s.calls_today) PROVE b[i] < s.day
    <3>1. i \in 1..L
      BY ONLY <1>1, <1>2, <2>3
    <3>2. b[i] = a[i] /\ a[i] < s.day
      BY ONLY <1>3, <2>1, <3>1
    <3> QED BY ONLY <3>2
  <2>5. /\ w.day = s.day /\ w.calls_today = s.calls_today + 1 /\ Len(b) = L + 1
        /\ s.day % Day = 0 /\ s.day <= now /\ s.calls_today + 1 <= L + 1
    BY ONLY <1>1, <1>2, <1>3, <1>4, <2>1
  <2>6. w.day % Day = 0 /\ w.day <= now /\ w.calls_today <= Len(b)
    BY ONLY <2>5
  <2>7. \A i \in 1..Len(b) : b[i] < w.day + Day
    BY ONLY <2>2, <2>5
  <2>8. \A i \in 1..(Len(b) - w.calls_today) : b[i] < w.day
    BY ONLY <2>3, <2>4, <2>5
  <2> QED BY ONLY <2>6, <2>7, <2>8 DEF InDay
<1>8. PICK d \in 0..L : Suffix(s.calls, a, d) /\ \A i \in 1..d : a[i] < now - Minute
  BY DEF Booked, InMinute, L
<1>9. d \in Nat /\ d <= L /\ Len(s.calls) = L - d /\ \A i \in 1..(L - d) : s.calls[i] = a[d + i]
  BY <1>1, <1>8 DEF Suffix, L
<1>10. InMinute(w, b, now)
  <2>1. Len(w.calls) = L + 1 - d /\ w.calls[L + 1 - d] = now
        /\ \A i \in 1..(L - d) : w.calls[i] = s.calls[i]
    <3>1. Len(s.calls) + 1 = L + 1 - d
      BY <1>1, <1>9
    <3> QED BY <3>1, <1>2, <1>4, <1>9
  <2>2. ASSUME NEW i \in 1..(L + 1 - d) PROVE w.calls[i] = b[d + i]
    <3>1. CASE i = L + 1 - d
      BY <3>1, <2>1, <1>1, <1>3, <1>9
    <3>2. CASE i # L + 1 - d
      <4>1. L - d \in Nat /\ L + 1 - d = (L - d) + 1
        BY <1>1, <1>9
      <4>2. i \in 1..(L - d)
        BY <4>1, <3>2
      <4>3. d + i \in 1..L
        BY <4>2, <1>1, <1>9
      <4> QED BY <4>2, <4>3, <2>1, <1>3, <1>9
    <3> QED BY <3>1, <3>2
  <2>3. Suffix(w.calls, b, d)
    BY <2>1, <2>2, <1>1, <1>3, <1>9 DEF Suffix
  <2>4. \A i \in 1..d : b[i] < now - Minute
    BY <1>1, <1>3, <1>8, <1>9
  <2>5. d \in 0..Len(b)
    BY <1>1, <1>3, <1>9
  <2> QED BY <2>3, <2>4, <2>5 DEF InMinute
<1>11. ASSUME NEW i \in 1..(L + 1), i + rpm <= L + 1
       PROVE  b[i + rpm] > b[i] + Minute
  <2>1. rpm > 0 /\ i \in 1..L
    BY <1>1, <1>5, <1>9, <1>11
  <2>2. CASE i + rpm = L + 1
    <3>1. i \in 1..d
      BY <2>1, <2>2, <1>1, <1>5, <1>9
    <3>2. a[i] < now - Minute
      BY <3>1, <1>8
    <3>3. a[i] \in Nat /\ b[i] = a[i] /\ b[i + rpm] = now
      BY <2>1, <2>2, <1>3
    <3> QED BY <3>2, <3>3, <1>1
  <2>3. CASE i + rpm # L + 1
    <3>1. i + rpm \in 1..L /\ i + rpm <= L
      BY <2>1, <2>3, <1>1, <1>11
    <3>2. a[i + rpm] > a[i] + Minute
      BY <3>1, <2>1 DEF Within, L, rpm, rpd, gap
    <3> QED BY <3>1, <3>2, <2>1, <1>3
  <2> QED BY <2>2, <2>3
<1>12. ASSUME NEW i \in 1..(L + 1), i + rpd <= L + 1
       PROVE  b[i + rpd] \div Day > b[i] \div Day
  <2>1. rpd > 0 /\ i \in 1..L
    BY <1>1, <1>2, <1>5, <1>12
  <2>2. CASE i + rpd = L + 1
    <3>1. i \in 1..(L - s.calls_today)
      BY <2>1, <2>2, <1>1, <1>2, <1>5
    <3>2. a[i] < s.day /\ s.day <= now /\ s.day % Day = 0
      BY <3>1 DEF Booked, InDay, L
    <3>3. now \div Day > a[i] \div Day
      BY <3>2, <2>1, <1>2, <1>3, EarlierDay
    <3> QED BY <3>3, <2>1, <2>2, <1>3
  <2>3. CASE i + rpd # L + 1
    <3>1. i + rpd \in 1..L /\ i + rpd <= L
      BY <2>1, <2>3, <1>1, <1>12
    <3>2. a[i + rpd] \div Day > a[i] \div Day
      BY <3>1, <2>1 DEF Within, L, rpm, rpd, gap
    <3> QED BY <3>1, <3>2, <2>1, <1>3
  <2> QED BY <2>2, <2>3
<1>13. ASSUME NEW i \in 2..(L + 1) PROVE b[i] - b[i - 1] >= gap
  <2>1. i - 1 \in 1..L
    BY <1>1
  <2>2. CASE i = L + 1
    <3>1. a[L] <= s.last_call
      BY <2>1, <2>2 DEF Booked, InOrder, L
    <3> QED BY <3>1, <2>1, <2>2, <1>1, <1>2, <1>3, <1>5
  <2>3. CASE i # L + 1
    <3>1. i \in 2..L /\ i \in 1..L
      BY <2>3, <1>1
    <3>2. a[i] - a[i - 1] >= gap
      BY <3>1 DEF Within, L, rpm, rpd, gap
    <3> QED BY <3>1, <3>2, <2>1, <1>3
  <2> QED BY <2>2, <2>3
<1>14. Within(b, Limits[p])
  BY <1>3, <1>11, <1>12, <1>13 DEF Within, rpm, rpd, gap
<1> QED BY <1>3, <1>4, <1>6, <1>7, <1>10, <1>14 DEF Booked, w, b, L

(* What an answer costs and what an error entails leave the calls alone.   *)
LEMMA SpendBooked ==
  ASSUME now \in Nat, NEW n \in Tokens, NEW s, NEW a, Booked(s, a, now)
  PROVE  Booked(Spend(s, n), a, now)
<1> DEFINE w == Spend(s, n)
<1>1. s \in RateStates /\ n \in Nat
  BY LimitsAssumption DEF Booked
<1>2. Append(s.tokens, [at |-> now, n |-> n]) \in Seq([at : Nat, n : Nat])
      /\ s.tokens_today + n \in Nat
  BY <1>1 DEF RateStates
<1>3. /\ w \in RateStates /\ w.calls = s.calls /\ w.calls_today = s.calls_today
      /\ w.day = s.day /\ w.last_call = s.last_call
  BY <1>1, <1>2 DEF RateStates, Spend
<1> HIDE DEF w
<1>4. Booked(w, a, now)
  BY <1>3 DEF Booked, InMinute, InDay, InOrder
<1> QED BY <1>4 DEF w

LEMMA MarkBooked ==
  ASSUME now \in Nat, NEW kind \in Kinds, NEW ask, NEW s, NEW a, Booked(s, a, now)
  PROVE  Booked(Mark(s, BackoffFor(kind, ask)), a, now)
<1> DEFINE seconds == BackoffFor(kind, ask)
           w == Mark(s, seconds)
<1>1. seconds \in Nat
  BY LimitsAssumption DEF BackoffFor
<1> HIDE DEF seconds
<1>2. s \in RateStates /\ now + seconds \in Nat
  BY <1>1 DEF Booked
<1>3. /\ w \in RateStates /\ w.calls = s.calls /\ w.calls_today = s.calls_today
      /\ w.day = s.day /\ w.last_call = s.last_call
  BY <1>2 DEF RateStates, Mark
<1> HIDE DEF w
<1>4. Booked(w, a, now)
  BY <1>3 DEF Booked, InMinute, InDay, InOrder
<1> QED BY <1>4 DEF w, seconds

LEMMA TickBooked ==
  ASSUME now \in Nat, NEW s, NEW a, Booked(s, a, now)
  PROVE  Booked(s, a, now + 1)
<1>1. s \in RateStates /\ a \in Seq(Nat) /\ Minute \in Nat /\ s.day \in Nat /\ s.last_call \in Nat
  BY TimesAssumption DEF Booked, RateStates
<1>2. InMinute(s, a, now + 1)
  <2>1. PICK d \in 0..Len(a) : Suffix(s.calls, a, d) /\ \A i \in 1..d : a[i] < now - Minute
    BY DEF Booked, InMinute
  <2>2. d \in 0..Len(a)
    BY <2>1
  <2> DEFINE t == now + 1
  <2>3. ASSUME NEW i \in 1..d PROVE a[i] < t - Minute
    <3>1. a[i] \in Nat
      BY <1>1, <2>2
    <3>2. a[i] < now - Minute
      BY <2>1
    <3> QED BY <1>1, <3>1, <3>2
  <2> HIDE DEF t
  <2>4. InMinute(s, a, t)
    BY <2>1, <2>2, <2>3 DEF InMinute
  <2> QED BY <2>4 DEF t
<1>3. InDay(s, a, now + 1)
  BY <1>1 DEF Booked, InDay
<1>4. InOrder(s, a, now + 1)
  <2>1. \A i \in 1..Len(a) : a[i] \in Nat
    BY <1>1
  <2> QED BY <1>1, <2>1 DEF Booked, InOrder
<1> QED BY <1>1, <1>2, <1>3, <1>4 DEF Booked

(* pick() sweeps what it looks at, and finds room at what it takes.        *)
LEMMA PickBooked ==
  ASSUME now \in Nat, NEW ask, NEW candidates, NEW rates, AllBooked(rates, attempts, now)
  PROVE  LET pick == Pick(ask, candidates, rates) IN
         /\ AllBooked(pick.rates, attempts, now)
         /\ pick.name \in Providers /\ pick.name # None
              => /\ now < pick.rates[pick.name].day + Day
                 /\ CanUse(pick.rates[pick.name], Limits[pick.name], ask.est)
<1> DEFINE usable == {i \in 1..Len(candidates) : Usable(candidates[i], ask, rates)}
           first == IF usable = {} THEN Len(candidates) + 1
                    ELSE CHOOSE i \in usable : \A j \in usable : i <= j
           looked == {p \in Providers : Suits(p, ask) /\ \E i \in 1..Len(candidates) :
                                          i <= first /\ candidates[i] = p}
           name == IF usable = {} THEN None ELSE candidates[first]
           swept == [p \in Providers |-> IF p \in looked THEN Gc(rates[p]) ELSE rates[p]]
           pick == Pick(ask, candidates, rates)
<1>1. pick.name = name /\ pick.rates = swept
  BY DEF Pick
<1>2. AllBooked(swept, attempts, now)
  <2> HIDE DEF looked
  <2>1. ASSUME NEW p \in Providers PROVE Booked(swept[p], attempts[p], now) /\ swept[p] \in RateStates
    <3>1. Booked(rates[p], attempts[p], now)
      BY DEF AllBooked
    <3>2. Booked(Gc(rates[p]), attempts[p], now)
      BY <3>1, GcBooked
    <3> QED BY <3>1, <3>2 DEF Booked
  <2> QED BY <2>1 DEF AllBooked
<1>3. ASSUME name \in Providers, name # None
      PROVE  now < swept[name].day + Day /\ CanUse(swept[name], Limits[name], ask.est)
  <2>1. usable # {} /\ name = candidates[first]
    BY <1>3
  <2>2. usable \subseteq Nat
    OBVIOUS
  <2>3. \E i \in usable : \A j \in usable : i <= j
    <3> HIDE DEF usable
    <3> QED BY <2>1, <2>2, LeastElement
  <2>4. first \in usable
    BY <2>1, <2>3
  <2> HIDE DEF first
  <2>5. first \in 1..Len(candidates) /\ Usable(candidates[first], ask, rates) /\ first <= first
    BY <2>4
  <2>6. name \in looked
    BY <2>1, <2>5, <1>3 DEF Usable
  <2> HIDE DEF looked, name
  <2>7. swept[name] = Gc(rates[name])
    BY <2>6, <1>3
  <2>8. Booked(rates[name], attempts[name], now)
    BY <1>3 DEF AllBooked
  <2>9. now < Gc(rates[name]).day + Day
    BY <2>8, GcBooked
  <2>10. CanUse(Gc(rates[name]), Limits[name], ask.est)
    BY <2>1, <2>5 DEF Usable
  <2> QED BY <2>7, <2>9, <2>10
<1> HIDE DEF name, swept, pick
<1> QED BY <1>1, <1>2, <1>3 DEF pick

(* One turn of the failover loop, from books that are right.               *)
LEMMA TurnBooked ==
  ASSUME now \in Nat, NEW r, NEW q, NEW rates, AllBooked(rates, attempts, now), Turn(r, q, rates)
  PROVE  AllBooked(rate', attempts', now)
<1> DEFINE pick == Pick(q.ask, q.candidates, rates)
           n == pick.name
<1>1. /\ AllBooked(pick.rates, attempts, now)
      /\ n \in Providers /\ n # None
           => now < pick.rates[n].day + Day /\ CanUse(pick.rates[n], Limits[n], q.ask.est)
  BY PickBooked
<1>2. CASE q.turns = 0 \/ n = None
  <2>1. attempts' = attempts /\ (rate' = rates \/ rate' = pick.rates)
    BY <1>2 DEF Turn
  <2> QED BY <2>1, <1>1
<1>3. CASE ~(q.turns = 0 \/ n = None)
  <2>1. /\ rate' = [pick.rates EXCEPT ![n] = Record(@)]
        /\ attempts' = [attempts EXCEPT ![n] = Append(@, now)]
    BY <1>3 DEF Turn
  <2> HIDE DEF pick
  <2>2. pick.rates \in [Providers -> RateStates] /\ attempts \in [Providers -> Seq(Nat)]
    BY <1>1 DEF AllBooked
  <2>3. CASE n \notin Providers
    <3>1. rate' = pick.rates /\ attempts' = attempts
      BY <2>1, <2>2, <2>3
    <3> QED BY <3>1, <1>1
  <2>4. CASE n \in Providers
    <3> HIDE DEF n
    <3> DEFINE w == Record(pick.rates[n])
               b == Append(attempts[n], now)
    <3>1. Booked(pick.rates[n], attempts[n], now) /\ Within(attempts[n], Limits[n])
      BY <2>4, <1>1 DEF AllBooked
    <3>2. now < pick.rates[n].day + Day /\ CanUse(pick.rates[n], Limits[n], q.ask.est)
      BY <2>4, <1>1, <1>3
    <3>3. Booked(w, b, now) /\ Within(b, Limits[n])
      BY <2>4, <3>1, <3>2, RecordBooked
    <3>4. w \in RateStates /\ b \in Seq(Nat)
      BY <3>3 DEF Booked
    <3>5. rate' = [pick.rates EXCEPT ![n] = w] /\ attempts' = [attempts EXCEPT ![n] = b]
      BY <2>1
    <3> HIDE DEF w, b
    <3>6. rate' \in [Providers -> RateStates] /\ attempts' \in [Providers -> Seq(Nat)]
      BY <2>2, <3>4, <3>5
    <3>7. ASSUME NEW p \in Providers
          PROVE  Booked(rate'[p], attempts'[p], now) /\ Within(attempts'[p], Limits[p])
      <4>1. CASE p = n
        BY <4>1, <2>2, <2>4, <3>3, <3>5
      <4>2. CASE p # n
        <5>1. rate'[p] = pick.rates[p] /\ attempts'[p] = attempts[p]
          BY <4>2, <2>2, <3>5
        <5> QED BY <5>1, <1>1 DEF AllBooked
      <4> QED BY <4>1, <4>2
    <3> QED BY <3>6, <3>7 DEF AllBooked
  <2> QED BY <2>3, <2>4
<1> QED BY <1>2, <1>3

(* A step at one provider that only spends, marks or sweeps.               *)
LEMMA OneBooked ==
  ASSUME AllBooked(rate, attempts, now), NEW p, NEW w,
         p \in Providers => Booked(w, attempts[p], now)
  PROVE  AllBooked([rate EXCEPT ![p] = w], attempts, now)
<1> DEFINE rates == [rate EXCEPT ![p] = w]
<1>1. rate \in [Providers -> RateStates]
  BY DEF AllBooked
<1>2. p \in Providers => w \in RateStates
  BY DEF Booked
<1>3. rates \in [Providers -> RateStates]
  BY <1>1, <1>2
<1>4. ASSUME NEW o \in Providers PROVE Booked(rates[o], attempts[o], now)
  BY <1>1 DEF AllBooked
<1> QED BY <1>3, <1>4 DEF AllBooked
-----------------------------------------------------------------------------
LEMMA InitIInv == Init => IInv
<1> SUFFICES ASSUME Init PROVE IInv
  OBVIOUS
<1> DEFINE s == FreshRate
<1>1. Start \in Nat /\ Day \in Nat \ {0} /\ Minute \in Nat /\ now = Start
  BY TimesAssumption DEF Init
<1>2. LET today == Start - (Start % Day) IN
        today \in Nat /\ today % Day = 0 /\ today <= Start /\ Start < today + Day
  BY <1>1, TodayBegins
<1>3. /\ s \in RateStates /\ s.calls = << >> /\ s.calls_today = 0 /\ s.last_call = 0
      /\ s.day = Start - (Start % Day)
  BY <1>2 DEF RateStates, FreshRate
<1> HIDE DEF s
<1>4. InDay(s, << >>, Start) /\ InOrder(s, << >>, Start)
  BY <1>1, <1>2, <1>3 DEF InDay, InOrder
<1>5. InMinute(s, << >>, Start)
  <2>1. Suffix(s.calls, << >>, 0) /\ 0 \in 0..Len(<< >>)
    BY <1>3 DEF Suffix
  <2> QED BY <2>1 DEF InMinute
<1>6. << >> \in Seq(Nat) /\ Booked(s, << >>, Start)
  BY <1>3, <1>4, <1>5 DEF Booked
<1>7. \A p \in Providers : Within(<< >>, Limits[p])
  BY DEF Within
<1>8. rate = [p \in Providers |-> s] /\ attempts = [p \in Providers |-> << >>]
  BY DEF Init, s
<1> QED BY <1>1, <1>3, <1>6, <1>7, <1>8 DEF IInv, AllBooked

(* The steps that keep the clock.                                          *)
(* The cost of an answer, or a backoff, of the provider a request is at.   *)
LEMMA SpentBooked ==
  ASSUME IInv, NEW name, NEW n \in Tokens
  PROVE  AllBooked([rate EXCEPT ![name] = Spend(@, n)], attempts, now)
<1>1. /\ now \in Nat /\ AllBooked(rate, attempts, now)
      /\ \A p \in Providers : Booked(rate[p], attempts[p], now)
  BY DEF IInv, AllBooked
<1>2. name \in Providers => Booked(Spend(rate[name], n), attempts[name], now)
  BY <1>1, SpendBooked
<1> QED BY <1>2, <1>1, OneBooked

LEMMA MarkedBooked ==
  ASSUME IInv, NEW q, NEW kind \in Kinds
  PROVE  AllBooked(Marked(q, kind), attempts, now)
<1> DEFINE name == q.name
           w == Mark(rate[name], BackoffFor(kind, q.ask))
<1>1. /\ now \in Nat /\ AllBooked(rate, attempts, now)
      /\ \A p \in Providers : Booked(rate[p], attempts[p], now)
  BY DEF IInv, AllBooked
<1>2. name \in Providers => Booked(w, attempts[name], now)
  BY <1>1, MarkBooked
<1>3. Marked(q, kind) = [rate EXCEPT ![name] = w]
  BY DEF Marked
<1> HIDE DEF name, w
<1>4. AllBooked([rate EXCEPT ![name] = w], attempts, now)
  BY <1>1, <1>2, OneBooked
<1> QED BY <1>3, <1>4

LEMMA TurnsBooked ==
  ASSUME IInv, NEW r \in Requests,
         \/ Wake(r)
         \/ \E ask \in Asks : Begin(r, ask)
         \/ \E n \in Tokens : Answer(r, n) \/ AnswerUnnoted(r, n)
         \/ \E kind \in Kinds : Fail(r, kind)
  PROVE  AllBooked(rate', attempts', now)
<1>1. now \in Nat /\ AllBooked(rate, attempts, now)
  BY DEF IInv
<1>2. \A p \in Providers : Booked(rate[p], attempts[p], now)
  BY <1>1 DEF AllBooked
<1>3. ASSUME NEW q, WaitOrTurn(r, q) PROVE AllBooked(rate', attempts', now)
  <2>1. CASE GoToSleep(r, q)
    <3> DEFINE p == q.candidates[1]
    <3>1. p \in Providers => Booked(Gc(rate[p]), attempts[p], now)
      BY <1>1, <1>2, GcBooked
    <3>2. rate' = [rate EXCEPT ![p] = Gc(rate[p])] /\ attempts' = attempts
      BY <2>1 DEF GoToSleep
    <3> HIDE DEF p
    <3> QED BY <3>1, <3>2, <1>1, OneBooked
  <2>2. CASE Turn(r, q, rate)
    BY <2>2, <1>1, TurnBooked
  <2> QED BY <2>1, <2>2, <1>3 DEF WaitOrTurn
<1>4. CASE Wake(r)
  BY <1>3, <1>4 DEF Wake
<1>5. ASSUME NEW ask \in Asks, Begin(r, ask) PROVE AllBooked(rate', attempts', now)
  <2>1. WaitOrTurn(r, Fresh(ask)) \/ UNCHANGED <<rate, attempts>>
    BY <1>5 DEF Begin
  <2>2. CASE WaitOrTurn(r, Fresh(ask))
    BY <2>2, <1>3
  <2> QED BY <2>1, <2>2, <1>1
<1> DEFINE name == req[r].name
<1>6. \A n \in Tokens : AllBooked([rate EXCEPT ![name] = Spend(@, n)], attempts, now)
  BY SpentBooked
<1>7. \A kind \in Kinds : AllBooked(Marked(req[r], kind), attempts, now)
  BY MarkedBooked
<1>8. ASSUME NEW rates, NEW final, AllBooked(rates, attempts, now),
             GoOn(r, rates, final) \/ Unwritten(r, rates)
      PROVE  AllBooked(rate', attempts', now)
  <2>1. CASE rate' = rates /\ attempts' = attempts
    BY <2>1, <1>8
  <2>2. ASSUME NEW q, Turn(r, q, rates) PROVE AllBooked(rate', attempts', now)
    BY <2>2, <1>1, <1>8, TurnBooked
  <2> QED BY <2>1, <2>2, <1>8 DEF GoOn, Unwritten
<1>9. ASSUME NEW n \in Tokens, Answer(r, n) PROVE AllBooked(rate', attempts', now)
  <2>1. rate' = [rate EXCEPT ![name] = Spend(@, n)] /\ attempts' = attempts
    BY <1>9 DEF Answer
  <2> QED BY <2>1, <1>6
<1>10. ASSUME NEW n \in Tokens, AnswerUnnoted(r, n) PROVE AllBooked(rate', attempts', now)
  <2> DEFINE spent == [rate EXCEPT ![name] = Spend(@, n)]
  <2>1. GoOn(r, spent, req[r].override) \/ Unwritten(r, spent)
    BY <1>10 DEF AnswerUnnoted
  <2>2. AllBooked(spent, attempts, now)
    BY <1>6
  <2> HIDE DEF spent
  <2> QED BY <2>1, <2>2, <1>8
<1>11. ASSUME NEW kind \in Kinds, Fail(r, kind) PROVE AllBooked(rate', attempts', now)
  <2> DEFINE marked == Marked(req[r], kind)
             final == req[r].override \/ Final(kind)
  <2>1. GoOn(r, marked, final) \/ Unwritten(r, marked)
    BY <1>11 DEF Fail
  <2>2. AllBooked(marked, attempts, now)
    BY <1>7
  <2> HIDE DEF marked, final
  <2> QED BY <2>1, <2>2, <1>8
<1> QED BY <1>4, <1>5, <1>9, <1>10, <1>11

LEMMA NextIInv == IInv /\ [Next]_vars => IInv'
<1> SUFFICES ASSUME IInv, [Next]_vars PROVE IInv'
  OBVIOUS
<1>1. ASSUME now' = now, AllBooked(rate', attempts', now) PROVE IInv'
  BY <1>1 DEF IInv
<1>2. ASSUME UNCHANGED <<now, rate, attempts>> PROVE IInv'
  BY <1>2 DEF IInv
<1>3. ASSUME NEW r \in Requests,
             \/ Wake(r)
             \/ \E ask \in Asks : Begin(r, ask)
             \/ \E n \in Tokens : Answer(r, n) \/ AnswerUnnoted(r, n)
             \/ \E kind \in Kinds : Fail(r, kind)
      PROVE  IInv'
  <2>1. now' = now
    BY <1>3 DEF Wake, Begin, Answer, AnswerUnnoted, Fail
  <2>2. AllBooked(rate', attempts', now)
    BY <1>3, TurnsBooked
  <2> QED BY <2>1, <2>2, <1>1
<1>4. ASSUME NEW r \in Requests,
             \/ Mismatch(r) \/ MismatchAgain(r) \/ Retry(r) \/ StreamEnds(r) \/ StreamDropped(r)
             \/ \E kind \in Kinds : Pause(r, kind)
      PROVE  IInv'
  <2>1. UNCHANGED <<now, rate, attempts>>
    BY <1>4 DEF Mismatch, MismatchAgain, Retry, StreamEnds, StreamDropped, Pause
  <2> QED BY <2>1, <1>2
<1>5. CASE Tick
  <2>1. now \in Nat /\ now' = now + 1 /\ UNCHANGED <<rate, attempts>> /\ AllBooked(rate, attempts, now)
    BY <1>5 DEF IInv, Tick
  <2>2. \A p \in Providers : Booked(rate[p], attempts[p], now + 1)
    BY <2>1, TickBooked DEF AllBooked
  <2>3. AllBooked(rate, attempts, now + 1)
    BY <2>1, <2>2 DEF AllBooked
  <2> QED BY <2>1, <2>3 DEF IInv
<1>6. CASE UNCHANGED vars
  BY <1>2, <1>6 DEF vars
<1>7. CASE Next
  BY <1>3, <1>4, <1>5, <1>7 DEF Next, Steps
<1> QED BY <1>6, <1>7

(* However many requests share the providers, and whatever errors, pauses, *)
(* repairs, streams and pins they meet: the attempts at each provider stay *)
(* within its calls per minute and per day and a cooldown apart (can_use,  *)
(* record, gc, and the loop of chat()).                                    *)
THEOREM LimitsAreKept == Spec => []LimitsKept
<1>1. IInv => LimitsKept
  <2> SUFFICES ASSUME IInv PROVE LimitsKept
    OBVIOUS
  <2>1. \A p \in Providers : Within(attempts[p], Limits[p])
    BY DEF IInv, AllBooked
  <2>2. RpmRespected
    BY <2>1 DEF Within, RpmRespected
  <2>3. RpdRespected
    BY <2>1 DEF Within, RpdRespected
  <2>4. CooldownRespected
    BY <2>1 DEF Within, CooldownRespected
  <2> QED BY <2>2, <2>3, <2>4 DEF LimitsKept
<1> QED BY <1>1, InitIInv, NextIInv, PTL DEF Spec
-----------------------------------------------------------------------------
(* Backoffs.  A step changes the bookkeeping of one provider n at most,    *)
(* and there only by mark_unavailable() at time t.                         *)
Same(rates, w) == \A p \in Providers : w[p].until = rates[p].until /\ w[p].marked = rates[p].marked
MarkedAt(rates, w, n, t) ==
  \A p \in Providers : \/ w[p].until = rates[p].until /\ w[p].marked = rates[p].marked
                       \/ p = n /\ w[p].marked = t

(* The locals of chat() while it runs.                                     *)
Live(q) ==
  /\ q = [pc |-> q.pc, ask |-> q.ask, override |-> q.override, candidates |-> q.candidates,
          turns |-> q.turns, deadline |-> q.deadline, wake |-> q.wake, since |-> q.since,
          name |-> q.name, tried |-> q.tried, answer |-> q.answer]
  /\ \E S : q.tried \in Seq(S)
OnItsWay(q) == q.pc \notin {"idle", "done"}
AtProvider(q) == q.pc \in {"calling", "pausing", "retrying", "repairing"}

(* An attempt that is under way began when its provider was not backed     *)
(* off, or has seen others mark it since.                                  *)
BeganFree(q, rates, t) ==
  AtProvider(q) =>
    /\ q.since \in Nat /\ q.since <= t
    /\ q.name \in Providers =>
         rates[q.name].until <= q.since \/ q.since <= rates[q.name].marked

CallsInv ==
  /\ req = [r \in Requests |-> req[r]]
  /\ \A r \in Requests : OnItsWay(req[r]) => Live(req[r])
  /\ \A r \in Requests : BeganFree(req[r], rate, now)

LEMMA GcSame == ASSUME NEW s \in RateStates PROVE Gc(s).until = s.until /\ Gc(s).marked = s.marked
<1>1. ASSUME NEW cutoff
      PROVE  /\ Swept(s, cutoff).until = s.until /\ Swept(s, cutoff).marked = s.marked
             /\ DOMAIN Swept(s, cutoff) = DOMAIN s
  BY DEF Swept, RateStates
<1>2. ASSUME NEW w, DOMAIN w = DOMAIN s
      PROVE  NewDay(w).until = w.until /\ NewDay(w).marked = w.marked
  BY <1>2 DEF NewDay, RateStates
<1> QED BY <1>1, <1>2 DEF Gc

LEMMA RecordSame ==
  ASSUME NEW s \in RateStates PROVE Record(s).until = s.until /\ Record(s).marked = s.marked
  BY DEF Record, RateStates

LEMMA SpendSame ==
  ASSUME NEW s \in RateStates, NEW n
  PROVE  Spend(s, n).until = s.until /\ Spend(s, n).marked = s.marked
  BY DEF Spend, RateStates

(* pick() takes a provider that is not backed off.                         *)
LEMMA PickSame ==
  ASSUME NEW ask, NEW candidates, NEW rates, rates \in [Providers -> RateStates],
         AllBooked(rates, attempts, now), now \in Nat
  PROVE  LET pick == Pick(ask, candidates, rates) IN
         /\ pick.rates \in [Providers -> RateStates] /\ Same(rates, pick.rates)
         /\ pick.name \in Providers /\ pick.name # None => rates[pick.name].until <= now
<1> DEFINE pick == Pick(ask, candidates, rates)
<1>1. /\ pick.rates \in [Providers -> RateStates]
      /\ pick.name \in Providers /\ pick.name # None
           => CanUse(pick.rates[pick.name], Limits[pick.name], ask.est)
  BY PickBooked DEF AllBooked
<1>2. ASSUME NEW p \in Providers PROVE pick.rates[p] = rates[p] \/ pick.rates[p] = Gc(rates[p])
  BY DEF Pick
<1>3. Same(rates, pick.rates)
  BY <1>2, GcSame DEF Same
<1>4. pick.name \in Providers /\ pick.name # None => rates[pick.name].until <= now
  <2> HIDE DEF pick
  <2> SUFFICES ASSUME pick.name \in Providers, pick.name # None
               PROVE  rates[pick.name].until <= now
    OBVIOUS
  <2>1. now >= pick.rates[pick.name].until
    BY <1>1 DEF CanUse
  <2>2. pick.rates[pick.name].until = rates[pick.name].until
    BY <1>3 DEF Same
  <2> QED BY <2>1, <2>2
<1> QED BY <1>1, <1>3, <1>4

(* What a step of r leaves behind, and a turn of the loop.                 *)
Alone(r) ==
  /\ req' = [x \in Requests |-> req'[x]]
  /\ \A x \in Requests : x # r => req'[x] = req[x]
  /\ OnItsWay(req'[r]) => Live(req'[r])
  /\ BeganFree(req'[r], rate', now)
Left(r, tried) ==
  Alone(r) /\ (req'[r].pc \in {"done", "waiting"} \/ \E e : req'[r].tried = Append(tried, e))

LEMMA TurnLeaves ==
  ASSUME CallsInv, now \in Nat, NEW r \in Requests, NEW q, Live(q), NEW rates,
         AllBooked(rates, attempts, now), Turn(r, q, rates)
  PROVE  Same(rates, rate') /\ Left(r, q.tried)
<1> DEFINE pick == Pick(q.ask, q.candidates, rates)
           n == pick.name
<1>1. rates \in [Providers -> RateStates]
  BY DEF AllBooked
<1>2. /\ pick.rates \in [Providers -> RateStates] /\ Same(rates, pick.rates)
      /\ n \in Providers /\ n # None => rates[n].until <= now
  BY <1>1, PickSame
<1>3. req = [x \in Requests |-> req[x]]
  BY DEF CallsInv
<1>4. CASE q.turns = 0 \/ n = None
  <2>1. req' = [req EXCEPT ![r] = Done(q, "unavailable")] /\ (rate' = rates \/ rate' = pick.rates)
    BY <1>4 DEF Turn
  <2>2. req'[r].pc = "done"
    BY <1>3, <2>1 DEF Done
  <2>3. \A x \in Requests : x # r => req'[x] = req[x]
    BY <1>3, <2>1
  <2>4. req' = [x \in Requests |-> req'[x]]
    BY <1>3, <2>1
  <2>5. Same(rates, rate')
    BY <1>2, <2>1 DEF Same
  <2> QED BY <2>2, <2>3, <2>4, <2>5 DEF Left, Alone, OnItsWay, BeganFree, AtProvider
<1>5. CASE ~(q.turns = 0 \/ n = None)
  <2> DEFINE pc == IF q.ask.stream THEN "streaming" ELSE "calling"
             w == [q EXCEPT !.pc = pc, !.name = n, !.turns = @ - 1, !.since = now,
                            !.tried = Append(@, n)]
  <2>1. req' = [req EXCEPT ![r] = w] /\ rate' = [pick.rates EXCEPT ![n] = Record(@)]
    BY <1>5 DEF Turn
  <2> HIDE DEF pick, n, pc
  <2>2. w = [pc |-> pc, ask |-> q.ask, override |-> q.override, candidates |-> q.candidates,
             turns |-> q.turns - 1, deadline |-> q.deadline, wake |-> q.wake, since |-> now,
             name |-> n, tried |-> Append(q.tried, n), answer |-> q.answer]
    <3> DEFINE q0 == [pc |-> q.pc, ask |-> q.ask, override |-> q.override,
                      candidates |-> q.candidates, turns |-> q.turns, deadline |-> q.deadline,
                      wake |-> q.wake, since |-> q.since, name |-> q.name, tried |-> q.tried,
                      answer |-> q.answer]
    <3>1. q = q0
      BY DEF Live
    <3>2. w = [q0 EXCEPT !.pc = pc, !.name = n, !.turns = q.turns - 1, !.since = now,
                         !.tried = Append(q.tried, n)]
      BY <3>1, Zenon
    <3> HIDE DEF w
    <3> QED BY <3>2
  <2> HIDE DEF w
  <2>3. \E S : w.tried \in Seq(S)
    <3>1. PICK S : q.tried \in Seq(S)
      BY DEF Live
    <3>2. q.tried \in Seq(S \union {n})
      BY <3>1
    <3>3. Append(q.tried, n) \in Seq(S \union {n})
      BY <3>2
    <3> QED BY <2>2, <3>3
  <2>4. Live(w)
    BY <2>2, <2>3 DEF Live
  <2>5. req'[r] = w /\ \A x \in Requests : x # r => req'[x] = req[x]
    BY <1>3, <2>1
  <2>6. req' = [x \in Requests |-> req'[x]]
    BY <1>3, <2>1
  <2>7. Same(rates, rate')
    <3> SUFFICES ASSUME NEW p \in Providers
                 PROVE  rate'[p].until = rates[p].until /\ rate'[p].marked = rates[p].marked
      BY DEF Same
    <3>1. rate'[p] = pick.rates[p] \/ rate'[p] = Record(pick.rates[p])
      BY <1>2, <2>1
    <3> QED BY <1>2, <3>1, RecordSame DEF Same
  <2>8. BeganFree(w, rate', now)
    BY <1>2, <1>5, <2>2, <2>7 DEF BeganFree, Same
  <2> QED BY <2>2, <2>4, <2>5, <2>6, <2>7, <2>8 DEF Left, Alone
<1> QED BY <1>4, <1>5

LEMMA DoneAlone ==
  ASSUME CallsInv, NEW r \in Requests, NEW q, NEW answer, req' = [req EXCEPT ![r] = Done(q, answer)]
  PROVE  Alone(r) /\ req'[r].pc = "done"
<1>1. req = [x \in Requests |-> req[x]]
  BY DEF CallsInv
<1>2. req'[r].pc = "done"
  BY <1>1 DEF Done
<1>3. req' = [x \in Requests |-> req'[x]] /\ \A x \in Requests : x # r => req'[x] = req[x]
  BY <1>1
<1> QED BY <1>2, <1>3 DEF Alone, OnItsWay, BeganFree, AtProvider

(* The same request at another place, or until another time.               *)
Asleep(q, wake) == [q EXCEPT !.pc = "waiting", !.wake = wake]

LEMMA LiveElsewhere ==
  ASSUME NEW q, Live(q), NEW pc, NEW wake
  PROVE  /\ Live([q EXCEPT !.pc = pc]) /\ Live(Asleep(q, wake))
         /\ [q EXCEPT !.pc = pc].pc = pc /\ Asleep(q, wake).pc = "waiting"
         /\ [q EXCEPT !.pc = pc].since = q.since /\ [q EXCEPT !.pc = pc].name = q.name
<1> DEFINE q0 == [pc |-> q.pc, ask |-> q.ask, override |-> q.override,
                  candidates |-> q.candidates, turns |-> q.turns, deadline |-> q.deadline,
                  wake |-> q.wake, since |-> q.since, name |-> q.name, tried |-> q.tried,
                  answer |-> q.answer]
           w == [q EXCEPT !.pc = pc]
           v == [q EXCEPT !.pc = "waiting", !.wake = wake]
           w0 == [pc |-> pc, ask |-> q.ask, override |-> q.override,
                  candidates |-> q.candidates, turns |-> q.turns, deadline |-> q.deadline,
                  wake |-> q.wake, since |-> q.since, name |-> q.name, tried |-> q.tried,
                  answer |-> q.answer]
           v0 == [pc |-> "waiting", ask |-> q.ask, override |-> q.override,
                  candidates |-> q.candidates, turns |-> q.turns, deadline |-> q.deadline,
                  wake |-> wake, since |-> q.since, name |-> q.name, tried |-> q.tried,
                  answer |-> q.answer]
<1>1. q = q0 /\ \E S : q.tried \in Seq(S)
  BY DEF Live
<1>2. w = [q0 EXCEPT !.pc = pc] /\ v = [q0 EXCEPT !.pc = "waiting", !.wake = wake]
  BY <1>1, Zenon
<1>3. [q0 EXCEPT !.pc = pc] = w0
  BY SMT
<1>4. v = v0
  <2> HIDE DEF v
  <2> QED BY <1>2
<1>5. Live(w0) /\ Live(v0)
  BY <1>1 DEF Live
<1>6. w = w0
  BY <1>2, <1>3, Zenon
<1>7. w0.pc = pc /\ v0.pc = "waiting" /\ w0.since = q.since /\ w0.name = q.name
  OBVIOUS
<1> HIDE DEF w, v, w0, v0
<1>8. Live(w) /\ Live(v) /\ w.pc = pc /\ v.pc = "waiting" /\ w.since = q.since /\ w.name = q.name
  BY <1>4, <1>5, <1>6, <1>7
<1> QED BY <1>8 DEF w, v, Asleep

LEMMA LiveAnyCandidates ==
  ASSUME NEW q, Live(q), NEW candidates
  PROVE  LET w == [q EXCEPT !.candidates = candidates] IN Live(w) /\ w.tried = q.tried
<1> DEFINE q0 == [pc |-> q.pc, ask |-> q.ask, override |-> q.override,
                  candidates |-> q.candidates, turns |-> q.turns, deadline |-> q.deadline,
                  wake |-> q.wake, since |-> q.since, name |-> q.name, tried |-> q.tried,
                  answer |-> q.answer]
           w == [q EXCEPT !.candidates = candidates]
           w0 == [pc |-> q.pc, ask |-> q.ask, override |-> q.override,
                  candidates |-> candidates, turns |-> q.turns, deadline |-> q.deadline,
                  wake |-> q.wake, since |-> q.since, name |-> q.name, tried |-> q.tried,
                  answer |-> q.answer]
<1>1. q = q0 /\ \E S : q.tried \in Seq(S)
  BY DEF Live
<1>2. w = [q0 EXCEPT !.candidates = candidates]
  BY <1>1, Zenon
<1>3. [q0 EXCEPT !.candidates = candidates] = w0
  OBVIOUS
<1>4. Live(w0) /\ w0.tried = q.tried
  BY <1>1 DEF Live
<1>5. w = w0
  BY <1>2, <1>3, Zenon
<1> HIDE DEF w, w0
<1>6. Live(w) /\ w.tried = q.tried
  BY <1>4, <1>5
<1> QED BY <1>6 DEF w

LEMMA FreshLive == ASSUME NEW ask PROVE Live(Fresh(ask))
<1>1. Fresh(ask).tried \in Seq({})
  BY DEF Fresh
<1> QED BY <1>1 DEF Live, Fresh

LEMMA WaitOrTurnLeaves ==
  ASSUME IInv, CallsInv, NEW r \in Requests, NEW q, Live(q), WaitOrTurn(r, q)
  PROVE  Same(rate, rate') /\ Alone(r)
<1>1. now \in Nat /\ AllBooked(rate, attempts, now) /\ rate \in [Providers -> RateStates]
  BY DEF IInv, AllBooked
<1>2. CASE Turn(r, q, rate)
  BY <1>1, <1>2, TurnLeaves DEF Left
<1>3. CASE GoToSleep(r, q)
  <2>1. PICK wake : req' = [req EXCEPT ![r] = Asleep(q, wake)]
    BY <1>3 DEF GoToSleep, Asleep
  <2>2. PICK p : rate' = [rate EXCEPT ![p] = Gc(rate[p])]
    BY <1>3 DEF GoToSleep
  <2>3. req = [x \in Requests |-> req[x]]
    BY DEF CallsInv
  <2> DEFINE w == Asleep(q, wake)
  <2>4. Live(w) /\ w.pc = "waiting"
    BY LiveElsewhere
  <2> HIDE DEF w
  <2>5. req' = [req EXCEPT ![r] = w]
    BY <2>1 DEF w
  <2>6. /\ req' = [x \in Requests |-> req'[x]] /\ \A x \in Requests : x # r => req'[x] = req[x]
        /\ req'[r] = w
    BY <2>3, <2>5
  <2>7. \A o \in Providers : rate'[o] = rate[o] \/ rate'[o] = Gc(rate[o])
    BY <1>1, <2>2
  <2>8. Same(rate, rate')
    BY <1>1, <2>7, GcSame DEF Same
  <2> QED BY <2>4, <2>6, <2>8 DEF Alone, BeganFree, AtProvider
<1> QED BY <1>2, <1>3 DEF WaitOrTurn

LEMMA GoOnLeaves ==
  ASSUME IInv, CallsInv, NEW r \in Requests, OnItsWay(req[r]), NEW rates,
         AllBooked(rates, attempts, now), NEW final, GoOn(r, rates, final) \/ Unwritten(r, rates)
  PROVE  Same(rates, rate') /\ Left(r, req[r].tried)
<1>1. now \in Nat /\ Live(req[r])
  BY DEF IInv, CallsInv
<1>2. ASSUME NEW answer, req' = [req EXCEPT ![r] = Done(@, answer)], rate' = rates
      PROVE  Same(rates, rate') /\ Left(r, req[r].tried)
  <2>1. req' = [req EXCEPT ![r] = Done(req[r], answer)]
    BY <1>2
  <2> QED BY <1>2, <2>1, DoneAlone DEF Same, Left
<1>3. ASSUME Turn(r, [req[r] EXCEPT !.candidates = Remaining(req[r])], rates)
      PROVE  Same(rates, rate') /\ Left(r, req[r].tried)
  <2> DEFINE w == [req[r] EXCEPT !.candidates = Remaining(req[r])]
  <2>1. Live(w) /\ w.tried = req[r].tried
    BY <1>1, LiveAnyCandidates
  <2> HIDE DEF w
  <2>2. Turn(r, w, rates)
    BY <1>3 DEF w
  <2>3. Same(rates, rate') /\ Left(r, w.tried)
    BY <1>1, <2>1, <2>2, TurnLeaves
  <2> QED BY <2>1, <2>3
<1>4. CASE Unwritten(r, rates)
  BY <1>2, <1>4 DEF Unwritten
<1>5. CASE GoOn(r, rates, final)
  BY <1>2, <1>3, <1>5 DEF GoOn
<1> QED BY <1>4, <1>5

(* The others' attempts, while one provider is marked at most.             *)
LEMMA OthersBeganFree ==
  ASSUME CallsInv, NEW r \in Requests, now' = now, Alone(r), NEW n, MarkedAt(rate, rate', n, now)
  PROVE  CallsInv'
<1>1. ASSUME NEW x \in Requests PROVE BeganFree(req'[x], rate', now)
  <2>1. CASE x = r
    BY <2>1 DEF Alone
  <2>2. CASE x # r
    <3>1. req'[x] = req[x] /\ BeganFree(req[x], rate, now)
      BY <2>2 DEF Alone, CallsInv
    <3> QED BY <3>1 DEF BeganFree, MarkedAt
  <2> QED BY <2>1, <2>2
<1>2. \A x \in Requests : OnItsWay(req'[x]) => Live(req'[x])
  BY DEF Alone, CallsInv
<1>3. req' = [x \in Requests |-> req'[x]]
  BY DEF Alone
<1>4. \A x \in Requests : (OnItsWay(req[x]) => Live(req[x]))'
  BY <1>2 DEF OnItsWay, Live
<1>5. \A x \in Requests : BeganFree(req[x], rate, now)'
  BY <1>1 DEF BeganFree, AtProvider
<1> QED BY <1>3, <1>4, <1>5 DEF CallsInv

LEMMA InitCalls == Init => CallsInv
<1> SUFFICES ASSUME Init PROVE CallsInv
  OBVIOUS
<1>1. req = [r \in Requests |-> Idle]
  BY DEF Init
<1>2. req = [r \in Requests |-> req[r]] /\ \A r \in Requests : req[r].pc = "idle"
  BY <1>1 DEF Idle
<1> QED BY <1>2 DEF CallsInv, OnItsWay, BeganFree, AtProvider

(* A step of r between two awaits of its call: the same attempt elsewhere. *)
LEMMA MovesOn ==
  ASSUME CallsInv, NEW r \in Requests, NEW pc, AtProvider(req[r]), UNCHANGED <<now, rate>>,
         req' = [req EXCEPT ![r].pc = pc]
  PROVE  Alone(r)
<1> DEFINE w == [req[r] EXCEPT !.pc = pc]
<1>1. req = [x \in Requests |-> req[x]] /\ Live(req[r]) /\ BeganFree(req[r], rate, now)
  BY DEF CallsInv, OnItsWay, AtProvider
<1>2. Live(w) /\ w.since = req[r].since /\ w.name = req[r].name
  BY <1>1, LiveElsewhere, Zenon
<1>3. req' = [req EXCEPT ![r] = w]
  OBVIOUS
<1> HIDE DEF w
<1>4. /\ req' = [x \in Requests |-> req'[x]] /\ \A x \in Requests : x # r => req'[x] = req[x]
      /\ req'[r] = w
  BY <1>1, <1>3
<1>5. BeganFree(w, rate', now)
  BY <1>1, <1>2 DEF BeganFree
<1> QED BY <1>2, <1>4, <1>5 DEF Alone

(* The steps that are not the end of a call mark no provider.              *)
LEMMA QuietSteps ==
  ASSUME IInv, CallsInv, NEW r \in Requests,
         \/ Wake(r)
         \/ \E ask \in Asks : Begin(r, ask)
         \/ Mismatch(r) \/ MismatchAgain(r) \/ Retry(r) \/ StreamEnds(r) \/ StreamDropped(r)
         \/ \E kind \in Kinds : Pause(r, kind)
  PROVE  now' = now /\ Same(rate, rate') /\ Alone(r)
<1>1. CASE Wake(r)
  <2>1. Live(req[r]) /\ WaitOrTurn(r, req[r]) /\ now' = now
    BY <1>1 DEF Wake, CallsInv, OnItsWay
  <2> QED BY <2>1, WaitOrTurnLeaves
<1>2. ASSUME NEW ask \in Asks, Begin(r, ask) PROVE now' = now /\ Same(rate, rate') /\ Alone(r)
  <2>1. CASE WaitOrTurn(r, Fresh(ask))
    BY <1>2, <2>1, FreshLive, WaitOrTurnLeaves DEF Begin
  <2>2. CASE req' = [req EXCEPT ![r] = Done(Fresh(ask), "unknown")] /\ UNCHANGED rate
    BY <1>2, <2>2, DoneAlone DEF Begin, Same
  <2> QED BY <1>2, <2>1, <2>2 DEF Begin
<1>3. CASE Mismatch(r)
  BY <1>3, MovesOn DEF Mismatch, AtProvider, Same
<1>4. CASE Retry(r)
  BY <1>4, MovesOn DEF Retry, AtProvider, Same
<1>5. ASSUME NEW kind \in Kinds, Pause(r, kind) PROVE now' = now /\ Same(rate, rate') /\ Alone(r)
  BY <1>5, MovesOn DEF Pause, AtProvider, Same
<1>6. ASSUME NEW answer, req' = [req EXCEPT ![r] = Done(@, answer)], UNCHANGED <<now, rate>>
      PROVE  now' = now /\ Same(rate, rate') /\ Alone(r)
  <2>1. req' = [req EXCEPT ![r] = Done(req[r], answer)]
    BY <1>6
  <2> QED BY <1>6, <2>1, DoneAlone DEF Same
<1>7. CASE MismatchAgain(r) \/ StreamEnds(r) \/ StreamDropped(r)
  BY <1>6, <1>7 DEF MismatchAgain, StreamEnds, StreamDropped
<1> QED BY <1>1, <1>2, <1>3, <1>4, <1>5, <1>7

(* An answer marks no provider.                                            *)
LEMMA AnswerSteps ==
  ASSUME IInv, CallsInv, NEW r \in Requests, NEW n \in Tokens, Answer(r, n) \/ AnswerUnnoted(r, n)
  PROVE  now' = now /\ Same(rate, rate') /\ Alone(r)
<1> DEFINE spent == [rate EXCEPT ![req[r].name] = Spend(@, n)]
<1>1. now' = now /\ OnItsWay(req[r]) /\ rate \in [Providers -> RateStates]
  BY DEF Answer, AnswerUnnoted, InCall, OnItsWay, IInv, AllBooked
<1>2. \A p \in Providers : spent[p] = rate[p] \/ spent[p] = Spend(rate[p], n)
  BY <1>1
<1>3. Same(rate, spent)
  <2> HIDE DEF spent
  <2> QED BY <1>1, <1>2, SpendSame DEF Same
<1>4. CASE Answer(r, n)
  <2>1. req' = [req EXCEPT ![r] = Done(req[r], "ok")] /\ rate' = spent
    BY <1>4 DEF Answer
  <2> QED BY <1>1, <1>3, <2>1, DoneAlone
<1>5. CASE AnswerUnnoted(r, n)
  <2>1. GoOn(r, spent, req[r].override) \/ Unwritten(r, spent)
    BY <1>5 DEF AnswerUnnoted
  <2>2. AllBooked(spent, attempts, now)
    BY SpentBooked
  <2> HIDE DEF spent
  <2>3. Same(spent, rate') /\ Alone(r)
    BY <1>1, <2>1, <2>2, GoOnLeaves DEF Left
  <2> QED BY <1>1, <1>3, <2>3 DEF Same
<1> QED BY <1>4, <1>5

(* A failure marks the provider it is about, if any, until now or later.   *)
LEMMA FailStep ==
  ASSUME IInv, CallsInv, NEW r \in Requests, NEW kind \in Kinds, Fail(r, kind)
  PROVE  /\ now' = now /\ Alone(r) /\ InCall(r) /\ req'[r] # req[r]
         /\ MarkedAt(rate, rate', req[r].name, now)
         /\ \A p \in Providers : \/ rate'[p].until >= rate[p].until
                                 \/ p = req[r].name /\ rate'[p].until >= now
<1> DEFINE n == req[r].name
           seconds == BackoffFor(kind, req[r].ask)
           marked == Marked(req[r], kind)
           final == req[r].override \/ Final(kind)
<1>1. now' = now /\ InCall(r) /\ OnItsWay(req[r]) /\ (GoOn(r, marked, final) \/ Unwritten(r, marked))
  BY DEF Fail, InCall, OnItsWay
<1>2. AllBooked(marked, attempts, now) /\ rate \in [Providers -> RateStates] /\ now \in Nat
  BY MarkedBooked DEF IInv, AllBooked
<1>3. seconds \in Nat
  BY LimitsAssumption DEF BackoffFor
<1>4. marked = [rate EXCEPT ![n] = Mark(rate[n], seconds)]
  BY DEF Marked
<1> HIDE DEF marked, final, seconds
<1>5. ASSUME NEW p \in Providers
      PROVE  \/ marked[p].until = rate[p].until /\ marked[p].marked = rate[p].marked
             \/ p = n /\ marked[p].until = now + seconds /\ marked[p].marked = now
  <2>1. marked[p] = rate[p] \/ (p = n /\ marked[p] = Mark(rate[p], seconds))
    BY <1>2, <1>4
  <2>2. rate[p] \in RateStates
    BY <1>2
  <2> QED BY <2>1, <2>2 DEF Mark, RateStates
<1>6. Same(marked, rate') /\ Left(r, req[r].tried)
  BY <1>1, <1>2, GoOnLeaves
<1>7. MarkedAt(rate, rate', n, now)
  BY <1>5, <1>6 DEF Same, MarkedAt
<1>8. ASSUME NEW p \in Providers
      PROVE  rate'[p].until >= rate[p].until \/ (p = n /\ rate'[p].until >= now)
  <2>1. rate[p].until \in Nat
    BY <1>2 DEF RateStates
  <2>2. rate'[p].until = marked[p].until
    BY <1>6 DEF Same
  <2> QED BY <1>2, <1>3, <1>5, <2>1, <2>2
<1>9. req'[r] # req[r]
  <2>1. CASE req'[r].pc \in {"done", "waiting"}
    BY <1>1, <2>1 DEF InCall
  <2>2. ASSUME NEW e, req'[r].tried = Append(req[r].tried, e) PROVE req'[r].tried # req[r].tried
    <3>1. PICK S : req[r].tried \in Seq(S)
      BY <1>1 DEF CallsInv, Live
    <3>2. Len(req'[r].tried) = Len(req[r].tried) + 1 /\ Len(req[r].tried) \in Nat
      BY <2>2, <3>1
    <3> QED BY <3>2
  <2> QED BY <1>6, <2>1, <2>2 DEF Left
<1> QED BY <1>1, <1>6, <1>7, <1>8, <1>9 DEF Left

LEMMA NextCalls ==
  ASSUME IInv, CallsInv, [Next]_vars
  PROVE  /\ CallsInv'
         /\ \A p \in Providers : rate'[p].until < rate[p].until =>
              \E r \in Requests : /\ InCall(r) /\ req[r] # req'[r]
                                  /\ req[r].name = p /\ req[r].since <= rate[p].marked
<1> DEFINE Cut == \A p \in Providers : rate'[p].until < rate[p].until =>
                    \E r \in Requests : /\ InCall(r) /\ req[r] # req'[r]
                                        /\ req[r].name = p /\ req[r].since <= rate[p].marked
<1>1. rate \in [Providers -> RateStates] /\ now \in Nat
  BY DEF IInv, AllBooked
<1>2. \A p \in Providers : rate[p].until \in Nat /\ rate[p].marked \in Nat
  BY <1>1 DEF RateStates
<1>3. ASSUME NEW r \in Requests, now' = now, Same(rate, rate'), Alone(r) PROVE CallsInv' /\ Cut
  <2>1. MarkedAt(rate, rate', None, now)
    BY <1>3 DEF Same, MarkedAt
  <2>2. CallsInv'
    BY <1>3, <2>1, OthersBeganFree
  <2>3. Cut
    BY <1>2, <1>3 DEF Same
  <2> QED BY <2>2, <2>3
<1>4. ASSUME NEW r \in Requests, NEW kind \in Kinds, Fail(r, kind) PROVE CallsInv' /\ Cut
  <2>1. /\ now' = now /\ Alone(r) /\ InCall(r) /\ req'[r] # req[r]
        /\ MarkedAt(rate, rate', req[r].name, now)
        /\ \A p \in Providers : \/ rate'[p].until >= rate[p].until
                                \/ p = req[r].name /\ rate'[p].until >= now
    BY <1>4, FailStep
  <2>2. CallsInv'
    BY <2>1, OthersBeganFree
  <2>3. ASSUME NEW p \in Providers, rate'[p].until < rate[p].until
        PROVE  req[r].name = p /\ req[r].since <= rate[p].marked
    <3>1. rate'[p].until \in Nat
      BY NextIInv DEF IInv, AllBooked, RateStates
    <3>2. p = req[r].name /\ rate'[p].until >= now
      BY <1>2, <2>1, <2>3, <3>1
    <3>3. /\ req[r].since \in Nat /\ req[r].since <= now
          /\ rate[p].until <= req[r].since \/ req[r].since <= rate[p].marked
      BY <2>1, <3>2 DEF CallsInv, BeganFree, InCall, AtProvider
    <3> QED BY <1>1, <1>2, <2>3, <3>1, <3>2, <3>3
  <2>4. Cut
    BY <2>1, <2>3
  <2> QED BY <2>2, <2>4
<1>5. ASSUME UNCHANGED <<rate, req>>, now' \in Nat, now' >= now PROVE CallsInv' /\ Cut
  <2>1. \A r \in Requests : BeganFree(req[r], rate, now')
    BY <1>1, <1>5 DEF CallsInv, BeganFree
  <2>2. CallsInv'
    BY <1>5, <2>1 DEF CallsInv, BeganFree, OnItsWay, AtProvider, Live
  <2>3. Cut
    BY <1>2, <1>5
  <2> QED BY <2>2, <2>3
<1>6. ASSUME Tick PROVE CallsInv' /\ Cut
  BY <1>1, <1>5, <1>6 DEF Tick
<1>7. ASSUME UNCHANGED vars PROVE CallsInv' /\ Cut
  BY <1>1, <1>5, <1>7 DEF vars
<1>8. ASSUME NEW r \in Requests,
             \/ Wake(r)
             \/ \E ask \in Asks : Begin(r, ask)
             \/ Mismatch(r) \/ MismatchAgain(r) \/ Retry(r) \/ StreamEnds(r) \/ StreamDropped(r)
             \/ \E kind \in Kinds : Pause(r, kind)
      PROVE  CallsInv' /\ Cut
  BY <1>3, <1>8, QuietSteps
<1>9. ASSUME NEW r \in Requests, NEW n \in Tokens, Answer(r, n) \/ AnswerUnnoted(r, n)
      PROVE  CallsInv' /\ Cut
  BY <1>3, <1>9, AnswerSteps
<1> HIDE DEF Cut
<1>10. ASSUME Next PROVE CallsInv' /\ Cut
  BY <1>4, <1>6, <1>8, <1>9, <1>10 DEF Next, Steps
<1>11. CallsInv' /\ Cut
  BY <1>7, <1>10
<1> QED BY <1>11 DEF Cut

(* The backoff a provider is given (mark_unavailable) is cut short by      *)
(* nobody but a request whose attempt there had begun before, and fails:   *)
(* however requests overlap, whatever fails and whatever the backoffs are. *)
THEOREM BackoffsHold == Spec => BackoffCutOnlyByOverlap
<1> DEFINE Cut == \A p \in Providers : rate'[p].until < rate[p].until =>
                    \E r \in Requests : /\ InCall(r) /\ req[r] # req'[r]
                                        /\ req[r].name = p /\ req[r].since <= rate[p].marked
<1>1. IInv /\ CallsInv /\ [Next]_vars => CallsInv' /\ [Cut]_vars
  BY NextCalls
<1> QED BY <1>1, InitIInv, NextIInv, InitCalls, PTL DEF Spec, BackoffCutOnlyByOverlap
-----------------------------------------------------------------------------
(***************************************************************************)
(* The loop of chat(), for any providers, orders and requests.             *)
(***************************************************************************)
Rank(kept, i) == Cardinality({j \in kept : j <= i})

(* The k-th place that is kept is the least with k of them up to it.       *)
LEMMA RankIs ==
  ASSUME NEW n \in Nat, NEW kept, kept \subseteq 1..n
  PROVE  /\ IsFiniteSet(kept) /\ Cardinality(kept) \in Nat /\ Cardinality(kept) <= n
         /\ \A i \in 0..n : Rank(kept, i) \in 0..Cardinality(kept)
         /\ Rank(kept, 0) = 0 /\ Rank(kept, n) = Cardinality(kept)
         /\ \A i \in 1..n : Rank(kept, i) = IF i \in kept THEN Rank(kept, i - 1) + 1
                                            ELSE Rank(kept, i - 1)
<1>0. \A j \in kept : j \in Nat /\ 1 <= j /\ j <= n
  OBVIOUS
<1>1. IsFiniteSet(1..n) /\ Cardinality(1..n) = n
  BY FS_Interval
<1>2. IsFiniteSet(kept) /\ Cardinality(kept) \in Nat /\ Cardinality(kept) <= n
  BY <1>1, FS_Subset, FS_CardinalityType
<1>3. ASSUME NEW i \in 0..n PROVE Rank(kept, i) \in 0..Cardinality(kept)
  <2> DEFINE upto == {j \in kept : j <= i}
  <2>1. IsFiniteSet(upto) /\ Cardinality(upto) \in Nat /\ Cardinality(upto) <= Cardinality(kept)
    BY <1>2, FS_Subset, FS_CardinalityType
  <2> QED BY <2>1, <1>2 DEF Rank
<1>4. Rank(kept, 0) = 0
  <2>1. \A j \in kept : ~(j <= 0)
    BY <1>0
  <2>2. {j \in kept : j <= 0} = {}
    BY <2>1
  <2> QED BY <2>2, FS_EmptySet DEF Rank
<1>5. Rank(kept, n) = Cardinality(kept)
  <2>1. {j \in kept : j <= n} = kept
    BY <1>0
  <2> QED BY <2>1 DEF Rank
<1>6. ASSUME NEW i \in 1..n
      PROVE  Rank(kept, i) = IF i \in kept THEN Rank(kept, i - 1) + 1 ELSE Rank(kept, i - 1)
  <2> DEFINE below == {j \in kept : j <= i - 1}
             upto == {j \in kept : j <= i}
  <2>1. IsFiniteSet(below) /\ i \notin below
    <3>1. below \subseteq kept
      OBVIOUS
    <3>2. i \notin below
      OBVIOUS
    <3> QED BY <3>1, <3>2, <1>2, FS_Subset
  <2>2. upto = IF i \in kept THEN below \union {i} ELSE below
    <3>1. \A j \in kept : j <= i <=> j <= i - 1 \/ j = i
      BY <1>0
    <3> QED BY <3>1
  <2> HIDE DEF below, upto
  <2>3. Cardinality(upto) = IF i \in kept THEN Cardinality(below) + 1 ELSE Cardinality(below)
    BY <2>1, <2>2, FS_AddElement
  <2> QED BY <2>3 DEF Rank, below, upto
<1> QED BY <1>2, <1>3, <1>4, <1>5, <1>6

LEMMA RankGrows ==
  ASSUME NEW n \in Nat, NEW kept, kept \subseteq 1..n, NEW i \in kept, NEW j \in kept, i < j
  PROVE  Rank(kept, i) < Rank(kept, j)
<1> DEFINE below == {l \in kept : l <= i}
           upto == {l \in kept : l <= j}
<1>1. IsFiniteSet(kept)
  BY RankIs
<1>2. below \subseteq upto /\ j \in upto /\ j \notin below /\ upto \subseteq kept
  <2>1. \A l \in kept : l \in Nat
    OBVIOUS
  <2>2. \A l \in kept : l <= i => l <= j
    BY <2>1
  <2>3. ~(j <= i)
    BY <2>1
  <2>4. below \subseteq upto
    BY <2>2
  <2>5. j \in upto
    BY <2>1
  <2> QED BY <2>3, <2>4, <2>5
<1>3. IsFiniteSet(upto) /\ IsFiniteSet(below)
  BY <1>1, <1>2, FS_Subset
<1>4. below \union {j} \subseteq upto
  BY <1>2
<1> HIDE DEF below, upto
<1>5. Cardinality(below \union {j}) = Cardinality(below) + 1
  BY <1>2, <1>3, FS_AddElement
<1>6. Cardinality(below \union {j}) <= Cardinality(upto)
  BY <1>3, <1>4, FS_Subset
<1>7. Cardinality(below) \in Nat /\ Cardinality(upto) \in Nat
  BY <1>3, FS_CardinalityType
<1>8. Cardinality(below) < Cardinality(upto)
  BY <1>5, <1>6, <1>7
<1> QED BY <1>8 DEF below, upto, Rank

(* Filtered() has the kept elements, and no others.                        *)
LEMMA FilteredHas ==
  ASSUME NEW S, NEW s \in Seq(S), NEW kept, kept \subseteq 1..Len(s)
  PROVE  /\ Filtered(s, kept) = [k \in 1..Cardinality(kept) |-> Filtered(s, kept)[k]]
         /\ Cardinality(kept) \in Nat /\ Cardinality(kept) <= Len(s)
         /\ \A k \in 1..Cardinality(kept) : \E i \in kept : Filtered(s, kept)[k] = s[i]
         /\ \A i \in kept : \E k \in 1..Cardinality(kept) : Filtered(s, kept)[k] = s[i]
<1> DEFINE size == Cardinality(kept)
           w == Filtered(s, kept)
           Place(k) == CHOOSE i \in kept : Rank(kept, i) = k
<1>1. PICK n \in Nat : n = Len(s)
  OBVIOUS
<1>a. kept \subseteq 1..n
  BY <1>1
<1>2. size \in Nat /\ size <= n /\ kept \subseteq Nat
  <2>1. kept \subseteq Nat
    BY <1>a
  <2>2. size \in Nat /\ size <= n
    BY <1>a, RankIs
  <2> QED BY <2>1, <2>2
<1>3. ASSUME NEW k \in 1..size PROVE \E i \in kept : Rank(kept, i) = k
  <2> DEFINE enough == {i \in 0..n : Rank(kept, i) >= k}
  <2>1. Rank(kept, n) = size /\ Rank(kept, 0) = 0
    BY <1>a, RankIs
  <2>2. n \in enough /\ enough \subseteq Nat /\ 0 \notin enough
    BY <2>1, <1>1, <1>2
  <2> HIDE DEF enough, size
  <2>3. PICK i \in enough : \A j \in enough : i <= j
    BY <2>2, LeastElement
  <2> USE DEF enough
  <2>4. i \in 1..n /\ i - 1 \in 0..n /\ i - 1 \notin enough
    BY <2>2, <2>3, <1>1
  <2>5. Rank(kept, i) \in Nat /\ Rank(kept, i - 1) \in Nat
    <3>1. Rank(kept, i) \in 0..size /\ Rank(kept, i - 1) \in 0..size
      BY <2>4, <1>a, RankIs DEF size
    <3> QED BY <3>1
  <2>6. Rank(kept, i) = IF i \in kept THEN Rank(kept, i - 1) + 1 ELSE Rank(kept, i - 1)
    <3>1. \A l \in 1..n : Rank(kept, l) = IF l \in kept THEN Rank(kept, l - 1) + 1
                                           ELSE Rank(kept, l - 1)
      BY <1>a, RankIs
    <3> QED BY <3>1, <2>4
  <2>7. Rank(kept, i) >= k /\ ~(Rank(kept, i - 1) >= k) /\ k \in Nat
    BY <2>3, <2>4, <1>2
  <2>8. i \in kept /\ Rank(kept, i) = k
    BY <2>5, <2>6, <2>7
  <2> QED BY <2>8
<1>4. w = [k \in 1..size |-> s[Place(k)]]
  BY DEF Filtered, Rank
<1> HIDE DEF w
<1>5. ASSUME NEW k \in 1..size PROVE Place(k) \in kept /\ Rank(kept, Place(k)) = k
  BY <1>3
<1>6. ASSUME NEW i \in kept PROVE Rank(kept, i) \in 1..size /\ Place(Rank(kept, i)) = i
  <2>1. Rank(kept, i) \in 0..size /\ Rank(kept, i) # 0
    <3>1. i \in 1..n /\ i \in 0..n /\ i - 1 \in 0..n
      BY <1>1
    <3>2. Rank(kept, i) \in 0..size /\ Rank(kept, i - 1) \in 0..size
      BY <3>1, <1>a, RankIs
    <3>3. Rank(kept, i) = Rank(kept, i - 1) + 1
      BY <3>1, <1>a, RankIs
    <3> QED BY <3>2, <3>3, <1>2
  <2>2. PICK k \in 1..size : k = Rank(kept, i)
    BY <2>1, <1>2
  <2>3. Place(k) \in kept /\ Rank(kept, Place(k)) = k
    BY <1>5
  <2>4. PICK j \in kept : j = Place(k) /\ Rank(kept, j) = k
    BY <2>3
  <2> HIDE DEF size, Place
  <2>5. j \in Nat /\ i \in Nat /\ k \in Nat
    BY <1>2, <2>2
  <2>6. ~(i < j) /\ ~(j < i)
    <3>1. ASSUME i < j PROVE FALSE
      <4>1. Rank(kept, i) < Rank(kept, j)
        BY <3>1, <1>a, RankGrows
      <4> QED BY <4>1, <2>2, <2>4, <2>5
    <3>2. ASSUME j < i PROVE FALSE
      <4>1. Rank(kept, j) < Rank(kept, i)
        BY <3>2, <1>a, RankGrows
      <4> QED BY <4>1, <2>2, <2>4, <2>5
    <3> QED BY <3>1, <3>2
  <2>7. i = j
    BY <2>5, <2>6
  <2> QED BY <2>2, <2>4, <2>7
<1> HIDE DEF Place, size
<1>7. \A k \in 1..size : \E i \in kept : w[k] = s[i]
  BY <1>4, <1>5
<1>8. w = [k \in 1..size |-> w[k]]
  BY <1>4
<1>9. ASSUME NEW i \in kept PROVE \E k \in 1..size : w[k] = s[i]
  BY <1>4, <1>6
<1> QED BY <1>1, <1>2, <1>7, <1>8, <1>9 DEF w, size

LEMMA FilteredIs ==
  ASSUME NEW S, NEW s \in Seq(S), NEW kept, kept \subseteq 1..Len(s),
         NEW T, \A i \in kept : s[i] \in T
  PROVE  /\ Filtered(s, kept) \in Seq(T)
         /\ Len(Filtered(s, kept)) = Cardinality(kept)
         /\ Cardinality(kept) \in Nat
<1> DEFINE size == Cardinality(kept)
           w == Filtered(s, kept)
<1>1. w = [k \in 1..size |-> w[k]] /\ size \in Nat /\ \A k \in 1..size : \E i \in kept : w[k] = s[i]
  BY FilteredHas
<1> HIDE DEF w, size
<1>2. w \in [1..size -> T]
  BY <1>1
<1>3. w \in Seq(T) /\ Len(w) = size
  BY <1>1, <1>2
<1> QED BY <1>1, <1>3 DEF w, size

(* The locals while chat() runs: who the request may still be answered by, *)
(* and who has failed it.                                                  *)
Loop(q) ==
  /\ Live(q) /\ q.ask \in Asks /\ q.answer = None
  /\ q.candidates \in Seq(Providers) /\ q.turns \in Nat
  /\ q.turns <= Len(Candidates(q.ask)) + 1
  /\ q.tried \in Seq(Providers) /\ IsInjective(q.tried)
  /\ \A i \in 1..Len(Candidates(q.ask)) :
       Candidates(q.ask)[i] \in ToSet(q.tried) \union ToSet(q.candidates)

(* Before a turn no candidate has been tried; in one only the provider     *)
(* that is tried.  There are turns enough.                                 *)
Ready(q) ==
  /\ Loop(q) /\ q.turns >= Len(q.candidates) + 1
  /\ \A i \in 1..Len(q.candidates) : q.candidates[i] \notin ToSet(q.tried)
Trying(q) ==
  /\ Loop(q) /\ q.turns >= Len(q.candidates)
  /\ q.name \in Providers /\ q.name \in ToSet(q.candidates) /\ q.name \in ToSet(q.tried)
  /\ \A i \in 1..Len(q.candidates) :
       q.candidates[i] # q.name => q.candidates[i] \notin ToSet(q.tried)
Over(q) ==
  /\ q.pc = "done" /\ q.name \in Providers \union {None}
  /\ q.answer \in {"ok", "unavailable", "unknown", "bad_gateway", "invalid", "streamed",
                   "dropped", "crashed"}
  /\ q.tried \in Seq(Providers) /\ IsInjective(q.tried)
InTurn == {"calling", "pausing", "retrying", "repairing", "streaming"}

LoopSound(q) ==
  \/ q = Idle
  \/ q.pc = "waiting" /\ q.name = None /\ Ready(q)
  \/ q.pc \in InTurn /\ Trying(q)
  \/ Over(q)

OpenAt(q, p) ==
  /\ q # Idle /\ q.name = p
  /\ q.pc # "done" \/ q.answer \in {"invalid", "dropped", "crashed"}
Open(p) == {r \in Requests : OpenAt(req[r], p)}

LoopsSound == req = [r \in Requests |-> req[r]] /\ \A r \in Requests : LoopSound(req[r])
RowsAccount == \A p \in Providers : Len(attempts[p]) = ledger[p] + Cardinality(Open(p))
LoopInv ==
  /\ LoopsSound /\ RowsAccount
  /\ ledger \in [Providers -> Nat] /\ log_errors \in 0..MaxLogErrors /\ now \in Start..MaxTime

(* The same locals but for some.                                           *)
Locals(q, pc, candidates, turns, wake, since, name, tried) ==
  [pc |-> pc, ask |-> q.ask, override |-> q.override, candidates |-> candidates,
   turns |-> turns, deadline |-> q.deadline, wake |-> wake, since |-> since,
   name |-> name, tried |-> tried, answer |-> q.answer]

LEMMA LocalsAre ==
  ASSUME NEW q, NEW pc, NEW candidates, NEW turns, NEW wake, NEW since, NEW name, NEW tried
  PROVE  LET w == Locals(q, pc, candidates, turns, wake, since, name, tried) IN
         /\ w.pc = pc /\ w.ask = q.ask /\ w.candidates = candidates /\ w.turns = turns
         /\ w.name = name /\ w.tried = tried /\ w.answer = q.answer /\ w # Idle
         /\ w = [pc |-> w.pc, ask |-> w.ask, override |-> w.override, candidates |-> w.candidates,
                 turns |-> w.turns, deadline |-> w.deadline, wake |-> w.wake, since |-> w.since,
                 name |-> w.name, tried |-> w.tried, answer |-> w.answer]
<1> DEFINE w == Locals(q, pc, candidates, turns, wake, since, name, tried)
<1>1. /\ w.pc = pc /\ w.ask = q.ask /\ w.candidates = candidates /\ w.turns = turns
      /\ w.name = name /\ w.tried = tried /\ w.answer = q.answer
      /\ w = [pc |-> w.pc, ask |-> w.ask, override |-> w.override, candidates |-> w.candidates,
              turns |-> w.turns, deadline |-> w.deadline, wake |-> w.wake, since |-> w.since,
              name |-> w.name, tried |-> w.tried, answer |-> w.answer]
  BY DEF Locals
<1>2. w # Idle
  <2>1. DOMAIN w # DOMAIN Idle
    BY DEF Locals, Idle
  <2> QED BY <2>1
<1> QED BY <1>1, <1>2

LEMMA LocalsElsewhere ==
  ASSUME NEW q, Live(q), NEW pc, NEW candidates, NEW wake
  PROVE  /\ [q EXCEPT !.pc = pc]
              = Locals(q, pc, q.candidates, q.turns, q.wake, q.since, q.name, q.tried)
         /\ [q EXCEPT !.pc = pc, !.wake = wake]
              = Locals(q, pc, q.candidates, q.turns, wake, q.since, q.name, q.tried)
         /\ [q EXCEPT !.candidates = candidates]
              = Locals(q, q.pc, candidates, q.turns, q.wake, q.since, q.name, q.tried)
<1> DEFINE q0 == [pc |-> q.pc, ask |-> q.ask, override |-> q.override,
                  candidates |-> q.candidates, turns |-> q.turns, deadline |-> q.deadline,
                  wake |-> q.wake, since |-> q.since, name |-> q.name, tried |-> q.tried,
                  answer |-> q.answer]
<1>1. q = q0
  BY DEF Live
<1>2. [q0 EXCEPT !.pc = pc]
        = Locals(q, pc, q.candidates, q.turns, q.wake, q.since, q.name, q.tried)
  BY DEF Locals
<1>3. [q0 EXCEPT !.pc = pc, !.wake = wake]
        = Locals(q, pc, q.candidates, q.turns, wake, q.since, q.name, q.tried)
  <2> DEFINE w == [q0 EXCEPT !.pc = pc, !.wake = wake]
  <2>1. w = [q0 EXCEPT !.pc = pc, !.wake = wake]
    OBVIOUS
  <2> HIDE DEF w
  <2>2. w = Locals(q, pc, q.candidates, q.turns, wake, q.since, q.name, q.tried)
    BY <2>1 DEF Locals
  <2> QED BY <2>1, <2>2, Zenon DEF w
<1>4. [q0 EXCEPT !.candidates = candidates]
        = Locals(q, q.pc, candidates, q.turns, q.wake, q.since, q.name, q.tried)
  BY DEF Locals
<1> HIDE DEF q0
<1>5. /\ [q EXCEPT !.pc = pc] = [q0 EXCEPT !.pc = pc]
      /\ [q EXCEPT !.pc = pc, !.wake = wake] = [q0 EXCEPT !.pc = pc, !.wake = wake]
      /\ [q EXCEPT !.candidates = candidates] = [q0 EXCEPT !.candidates = candidates]
  BY <1>1, Zenon
<1> QED BY <1>2, <1>3, <1>4, <1>5, Zenon

AtCall(q, pc, turns, since, name, tried) ==
  [q EXCEPT !.pc = pc, !.name = name, !.turns = turns, !.since = since, !.tried = tried]

LEMMA LocalsAtCall ==
  ASSUME NEW q, Live(q), NEW pc, NEW turns, NEW since, NEW name, NEW tried
  PROVE  AtCall(q, pc, turns, since, name, tried)
           = Locals(q, pc, q.candidates, turns, q.wake, since, name, tried)
<1> DEFINE q0 == [pc |-> q.pc, ask |-> q.ask, override |-> q.override,
                  candidates |-> q.candidates, turns |-> q.turns, deadline |-> q.deadline,
                  wake |-> q.wake, since |-> q.since, name |-> q.name, tried |-> q.tried,
                  answer |-> q.answer]
<1>1. q = q0
  BY DEF Live
<1> DEFINE w == [q EXCEPT !.pc = pc, !.name = name, !.turns = turns, !.since = since,
                          !.tried = tried]
<1>2. w = [q0 EXCEPT !.pc = pc, !.name = name, !.turns = turns, !.since = since, !.tried = tried]
  BY <1>1, Zenon
<1> HIDE DEF w
<1>3. w = Locals(q, pc, q.candidates, turns, q.wake, since, name, tried)
  BY <1>2 DEF Locals
<1> QED BY <1>3, Zenon DEF w, AtCall

LEMMA CandidatesAre ==
  ASSUME NEW ask \in Asks, Override(ask) \in Providers \union {None}
  PROVE  Candidates(ask) \in Seq(Providers) /\ Len(Candidates(ask)) \in Nat
<1>1. CASE Override(ask) # None
  BY <1>1 DEF Candidates
<1>2. CASE Override(ask) = None
  <2> DEFINE kept == {i \in 1..Len(ask.tiers) : ask.tiers[i] \in Providers}
  <2>1. PICK tiers, S : tiers = ask.tiers /\ tiers \in Seq(S)
    BY RequestsAssumption
  <2>2. kept \subseteq 1..Len(tiers) /\ \A i \in kept : tiers[i] \in Providers
    BY <2>1
  <2>3. Candidates(ask) = Filtered(tiers, kept)
    BY <1>2, <2>1 DEF Candidates
  <2> HIDE DEF kept
  <2>4. Filtered(tiers, kept) \in Seq(Providers)
    BY <2>1, <2>2, FilteredIs
  <2> QED BY <2>3, <2>4
<1> QED BY <1>1, <1>2

LEMMA FreshReady ==
  ASSUME NEW ask \in Asks, Override(ask) \in Providers \union {None}
  PROVE  /\ Ready(Fresh(ask)) /\ Fresh(ask).name = None /\ Fresh(ask).tried = << >>
         /\ Fresh(ask).ask = ask
<1> DEFINE q == Fresh(ask)
<1>1. /\ q.name = None /\ q.tried = << >> /\ q.ask = ask /\ q.answer = None
      /\ q.candidates = Candidates(ask) /\ q.turns = Len(Candidates(ask)) + 1
  BY DEF Fresh
<1>2. Live(q)
  BY FreshLive
<1>3. Candidates(ask) \in Seq(Providers) /\ Len(Candidates(ask)) \in Nat
  BY CandidatesAre
<1> HIDE DEF q
<1>4. q.tried \in Seq(Providers) /\ IsInjective(q.tried) /\ ToSet(q.tried) = {}
  BY <1>1 DEF IsInjective, ToSet
<1>5. \A i \in 1..Len(Candidates(q.ask)) : Candidates(q.ask)[i] \in ToSet(q.candidates)
  BY <1>1, <1>3 DEF ToSet
<1>6. q.turns \in Nat /\ q.turns <= Len(Candidates(q.ask)) + 1 /\ q.turns >= Len(q.candidates) + 1
  BY <1>1, <1>3
<1>7. Loop(q)
  BY <1>1, <1>2, <1>3, <1>4, <1>5, <1>6 DEF Loop
<1> QED BY <1>1, <1>4, <1>6, <1>7 DEF Ready, q

(* Without the provider that failed it, the request is ready for another.  *)
LEMMA RemainingReady ==
  ASSUME NEW q, Trying(q)
  PROVE  LET w == [q EXCEPT !.candidates = Remaining(q)] IN
         /\ Ready(w) /\ w.name = q.name /\ w.tried = q.tried /\ w.ask = q.ask
         /\ w.candidates = Remaining(q) /\ \A i \in 1..Len(Remaining(q)) : Remaining(q)[i] # q.name
<1> DEFINE kept == {i \in 1..Len(q.candidates) : q.candidates[i] # q.name}
           left == Remaining(q)
           w == [q EXCEPT !.candidates = left]
<1>1. w = Locals(q, q.pc, left, q.turns, q.wake, q.since, q.name, q.tried)
  <2>1. Live(q)
    BY DEF Trying, Loop
  <2> QED BY <2>1, LocalsElsewhere, Zenon
<1> HIDE DEF w, left
<1>2. /\ w.ask = q.ask /\ w.candidates = left /\ w.turns = q.turns
      /\ w.name = q.name /\ w.tried = q.tried /\ w.answer = q.answer
      /\ w = [pc |-> w.pc, ask |-> w.ask, override |-> w.override, candidates |-> w.candidates,
              turns |-> w.turns, deadline |-> w.deadline, wake |-> w.wake, since |-> w.since,
              name |-> w.name, tried |-> w.tried, answer |-> w.answer]
  <2> DEFINE v == Locals(q, q.pc, left, q.turns, q.wake, q.since, q.name, q.tried)
  <2>1. /\ v.ask = q.ask /\ v.candidates = left /\ v.turns = q.turns
        /\ v.name = q.name /\ v.tried = q.tried /\ v.answer = q.answer
        /\ v = [pc |-> v.pc, ask |-> v.ask, override |-> v.override, candidates |-> v.candidates,
                turns |-> v.turns, deadline |-> v.deadline, wake |-> v.wake, since |-> v.since,
                name |-> v.name, tried |-> v.tried, answer |-> v.answer]
    BY LocalsAre
  <2>2. w = v
    BY <1>1
  <2> HIDE DEF v
  <2> QED BY <2>1, <2>2
<1>3. PICK s : s = q.candidates /\ s \in Seq(Providers) /\ Len(s) \in Nat
  BY DEF Trying, Loop
<1>4. kept \subseteq 1..Len(s) /\ \A i \in 1..Len(s) : i \in kept <=> s[i] # q.name
  BY <1>3
<1>5. left = Filtered(s, kept)
  BY <1>3 DEF left, Remaining
<1> HIDE DEF kept
<1>6. /\ left \in Seq(Providers) /\ Len(left) = Cardinality(kept)
      /\ Cardinality(kept) \in Nat
      /\ \A k \in 1..Len(left) : \E i \in kept : left[k] = s[i]
      /\ \A i \in kept : \E k \in 1..Len(left) : left[k] = s[i]
  <2>1. \A i \in kept : s[i] \in Providers
    BY <1>3, <1>4
  <2>2. kept \subseteq 1..Len(s)
    BY <1>4
  <2>3. Filtered(s, kept) \in Seq(Providers) /\ Len(Filtered(s, kept)) = Cardinality(kept)
        /\ Cardinality(kept) \in Nat
    BY <2>1, <2>2, <1>3, FilteredIs
  <2>a. s \in Seq(Providers)
    BY <1>3
  <2>4. \A k \in 1..Cardinality(kept) : \E i \in kept : Filtered(s, kept)[k] = s[i]
    BY <2>2, <2>a, FilteredHas
  <2>5. \A i \in kept : \E k \in 1..Cardinality(kept) : Filtered(s, kept)[k] = s[i]
    BY <2>2, <2>a, FilteredHas
  <2> QED BY <2>3, <2>4, <2>5, <1>5
<1>7. left \in Seq(Providers)
  BY <1>6
<1>8. Len(left) + 1 <= Len(s)
  <2>1. PICK l \in 1..Len(s) : s[l] = q.name
    BY <1>3 DEF Trying, ToSet
  <2>2. IsFiniteSet(1..Len(s)) /\ Cardinality(1..Len(s)) = Len(s)
    <3>1. ASSUME NEW n \in Nat PROVE IsFiniteSet(1..n) /\ Cardinality(1..n) = n
      BY FS_Interval
    <3> QED BY <3>1, <1>3
  <2>3. kept \subseteq 1..Len(s) /\ kept # 1..Len(s)
    BY <1>4, <2>1
  <2>4. Cardinality(kept) < Cardinality(1..Len(s))
    <3>1. Cardinality(kept) <= Cardinality(1..Len(s))
      BY <2>2, <2>3, FS_Subset
    <3>2. Cardinality(1..Len(s)) # Cardinality(kept)
      BY <2>2, <2>3, FS_Subset
    <3> QED BY <3>1, <3>2, <2>2, <1>3, <1>6
  <2> QED BY <2>2, <2>4, <1>3, <1>6
<1>9. /\ \A i \in 1..Len(left) : left[i] # q.name /\ left[i] \notin ToSet(q.tried)
  <2>1. ASSUME NEW k \in 1..Len(left) PROVE left[k] # q.name /\ left[k] \notin ToSet(q.tried)
    <3>1. PICK i \in kept : left[k] = s[i]
      BY <1>6
    <3>2. i \in 1..Len(s) /\ s[i] # q.name
      BY <1>4
    <3> QED BY <3>1, <3>2, <1>3 DEF Trying
  <2> QED BY <2>1
<1>10. \A i \in 1..Len(Candidates(q.ask)) :
         Candidates(q.ask)[i] \in ToSet(q.tried) \union ToSet(left)
  <2>1. ASSUME NEW x \in ToSet(s), x # q.name PROVE x \in ToSet(left)
    <3>1. PICK i \in 1..Len(s) : s[i] = x
      BY <1>3 DEF ToSet
    <3>2. PICK k \in 1..Len(left) : left[k] = x
      BY <1>4, <1>6, <2>1, <3>1
    <3> QED BY <3>2, <1>7 DEF ToSet
  <2>2. /\ q.name \in ToSet(q.tried)
        /\ \A i \in 1..Len(Candidates(q.ask)) :
             Candidates(q.ask)[i] \in ToSet(q.tried) \union ToSet(s)
    BY <1>3 DEF Trying, Loop
  <2> QED BY <2>1, <2>2
<1>11. /\ q.ask \in Asks /\ q.answer = None /\ q.turns \in Nat
       /\ q.turns <= Len(Candidates(q.ask)) + 1 /\ q.turns >= Len(s)
       /\ q.tried \in Seq(Providers) /\ IsInjective(q.tried)
  BY <1>3 DEF Trying, Loop
<1>12. Live(w)
  BY <1>2, <1>11 DEF Live
<1>13. Loop(w)
  BY <1>2, <1>7, <1>10, <1>11, <1>12 DEF Loop
<1>14. w.turns >= Len(w.candidates) + 1
  BY <1>2, <1>3, <1>6, <1>8, <1>11
<1>15. Ready(w)
  BY <1>2, <1>9, <1>13, <1>14 DEF Ready
<1> QED BY <1>2, <1>9, <1>15 DEF w, left

LEMMA PickIs ==
  ASSUME NEW ask, NEW candidates \in Seq(Providers), NEW rates
  PROVE  LET n == Pick(ask, candidates, rates).name IN
         \/ n = None /\ \A i \in 1..Len(candidates) : ~Usable(candidates[i], ask, rates)
         \/ n # None /\ n \in Providers /\ n \in ToSet(candidates)
<1> DEFINE usable == {i \in 1..Len(candidates) : Usable(candidates[i], ask, rates)}
           first == CHOOSE i \in usable : \A j \in usable : i <= j
           n == Pick(ask, candidates, rates).name
<1>1. n = IF usable = {} THEN None ELSE candidates[first]
  BY DEF Pick
<1>2. CASE usable = {}
  BY <1>1, <1>2
<1>3. CASE usable # {}
  <2>1. usable \subseteq Nat
    OBVIOUS
  <2>2. \E i \in usable : \A j \in usable : i <= j
    <3> HIDE DEF usable
    <3> QED BY <1>3, <2>1, LeastElement
  <2>3. first \in 1..Len(candidates)
    BY <2>2
  <2> HIDE DEF first, n
  <2>4. n = candidates[first]
    BY <1>1, <1>3
  <2> HIDE DEF usable
  <2>5. candidates[first] \in Providers /\ candidates[first] \in ToSet(candidates)
    BY <2>3 DEF ToSet
  <2>6. n # None
    BY <2>4, <2>5, RequestsAssumption
  <2> QED BY <2>4, <2>5, <2>6 DEF n
<1> QED BY <1>2, <1>3

LEMMA TriedOnceMore ==
  ASSUME NEW tried \in Seq(Providers), IsInjective(tried), NEW n \in Providers, n \notin ToSet(tried)
  PROVE  /\ Append(tried, n) \in Seq(Providers) /\ IsInjective(Append(tried, n))
         /\ ToSet(Append(tried, n)) = ToSet(tried) \union {n}
<1> DEFINE w == Append(tried, n)
<1>1. /\ w \in Seq(Providers) /\ Len(w) = Len(tried) + 1 /\ w[Len(tried) + 1] = n
      /\ \A i \in 1..Len(tried) : w[i] = tried[i]
      /\ Len(tried) \in Nat
  OBVIOUS
<1> HIDE DEF w
<1>2. /\ DOMAIN w = 1..(Len(tried) + 1) /\ DOMAIN tried = 1..Len(tried)
      /\ 1..(Len(tried) + 1) = 1..Len(tried) \union {Len(tried) + 1}
  BY <1>1
<1>3. ASSUME NEW i \in DOMAIN w, NEW j \in DOMAIN w, w[i] = w[j] PROVE i = j
  <2>1. i \in 1..Len(tried) \/ i = Len(tried) + 1
    BY <1>2
  <2>2. j \in 1..Len(tried) \/ j = Len(tried) + 1
    BY <1>2
  <2>3. \A l \in 1..Len(tried) : tried[l] # n
    BY <1>2 DEF ToSet
  <2> QED BY <2>1, <2>2, <2>3, <1>1, <1>2, <1>3 DEF IsInjective
<1>4. IsInjective(w)
  BY <1>3 DEF IsInjective
<1>5. ToSet(w) = ToSet(tried) \union {n}
  BY <1>1, <1>2 DEF ToSet
<1> QED BY <1>1, <1>4, <1>5 DEF w

(* What a turn of the loop leaves: nobody can be used, or a call of the    *)
(* one that can.                                                           *)
LEMMA TurnIs ==
  ASSUME req = [x \in Requests |-> req[x]], NEW r \in Requests, NEW q, Ready(q),
         q.name \in Providers \union {None}, NEW rates, Turn(r, q, rates)
  PROVE  /\ req' = [x \in Requests |-> req'[x]] /\ \A x \in Requests : x # r => req'[x] = req[x]
         /\ \/ /\ req'[r] = Done(q, "unavailable") /\ Over(req'[r]) /\ attempts' = attempts
               /\ \A i \in 1..Len(q.candidates) : ~Usable(q.candidates[i], q.ask, rates)
            \/ \E n \in Providers :
                 /\ req'[r].pc \in InTurn /\ Trying(req'[r]) /\ req'[r].name = n
                 /\ req'[r] # Idle
                 /\ attempts' = [attempts EXCEPT ![n] = Append(@, now)]
<1>1. PICK s : s = q.candidates /\ s \in Seq(Providers) /\ Len(s) \in Nat
  BY DEF Ready, Loop
<1>2. /\ Live(q) /\ q.ask \in Asks /\ q.answer = None /\ q.turns \in Nat
      /\ q.turns <= Len(Candidates(q.ask)) + 1 /\ q.turns >= Len(s) + 1
      /\ q.tried \in Seq(Providers) /\ IsInjective(q.tried)
      /\ \A i \in 1..Len(s) : s[i] \notin ToSet(q.tried)
      /\ \A i \in 1..Len(Candidates(q.ask)) :
           Candidates(q.ask)[i] \in ToSet(q.tried) \union ToSet(s)
  BY <1>1 DEF Ready, Loop
<1>3. PICK n : n = Pick(q.ask, q.candidates, rates).name
  OBVIOUS
<1>4. \/ n = None /\ \A i \in 1..Len(s) : ~Usable(s[i], q.ask, rates)
      \/ n # None /\ n \in Providers /\ n \in ToSet(s)
  BY <1>1, <1>3, PickIs
<1>5. q.turns # 0
  BY <1>1, <1>2
<1>6. CASE n = None
  <2>1. req' = [req EXCEPT ![r] = Done(q, "unavailable")] /\ attempts' = attempts
    BY <1>3, <1>6 DEF Turn
  <2>2. /\ req'[r] = Done(q, "unavailable")
        /\ req' = [x \in Requests |-> req'[x]] /\ \A x \in Requests : x # r => req'[x] = req[x]
    BY <2>1
  <2>3. Over(Done(q, "unavailable"))
    BY <1>2 DEF Over, Done
  <2>4. \A i \in 1..Len(s) : ~Usable(s[i], q.ask, rates)
    BY <1>4, <1>6
  <2> QED BY <2>1, <2>2, <2>3, <2>4, <1>1
<1>7. CASE n # None
  <2> DEFINE w == [q EXCEPT !.pc = IF q.ask.stream THEN "streaming" ELSE "calling",
                            !.name = n, !.turns = q.turns - 1, !.since = now,
                            !.tried = Append(q.tried, n)]
  <2>1. req' = [req EXCEPT ![r] = w] /\ attempts' = [attempts EXCEPT ![n] = Append(@, now)]
    BY <1>3, <1>5, <1>7 DEF Turn
  <2>2. PICK pc, turns, since, tried :
          /\ pc = IF q.ask.stream THEN "streaming" ELSE "calling"
          /\ turns = q.turns - 1 /\ since = now /\ tried = Append(q.tried, n)
    OBVIOUS
  <2>3. pc \in InTurn
    BY <2>2 DEF InTurn
  <2> DEFINE v == Locals(q, pc, q.candidates, turns, q.wake, since, n, tried)
  <2>4. w = v
    <3>0. Live(q)
      BY <1>2
    <3> HIDE DEF w
    <3>1. AtCall(q, pc, turns, since, n, tried)
            = Locals(q, pc, q.candidates, turns, q.wake, since, n, tried)
      BY <3>0, LocalsAtCall
    <3> QED BY <2>2, <3>1, Zenon DEF w, AtCall
  <2> HIDE DEF w
  <2>5. /\ v.pc = pc /\ v.ask = q.ask /\ v.candidates = q.candidates /\ v.turns = turns
        /\ v.name = n /\ v.tried = tried /\ v.answer = q.answer /\ v # Idle
        /\ v = [pc |-> v.pc, ask |-> v.ask, override |-> v.override, candidates |-> v.candidates,
                turns |-> v.turns, deadline |-> v.deadline, wake |-> v.wake, since |-> v.since,
                name |-> v.name, tried |-> v.tried, answer |-> v.answer]
    BY LocalsAre
  <2> HIDE DEF v
  <2>6. n \in Providers /\ n \in ToSet(s) /\ n \notin ToSet(q.tried)
    BY <1>1, <1>2, <1>4, <1>7 DEF ToSet
  <2>7. /\ v.tried \in Seq(Providers) /\ IsInjective(v.tried)
        /\ ToSet(v.tried) = ToSet(q.tried) \union {n}
    BY <1>2, <2>2, <2>5, <2>6, TriedOnceMore
  <2>8. v.turns \in Nat /\ v.turns <= Len(Candidates(q.ask)) + 1 /\ v.turns >= Len(s)
    <3>1. Len(Candidates(q.ask)) + 1 >= q.turns /\ q.turns - 1 <= q.turns /\ q.turns - 1 \in Nat
      BY <1>2, <1>5
    <3> QED BY <3>1, <2>2, <2>5, <1>1, <1>2
  <2>9. Live(v)
    BY <2>5, <2>7 DEF Live
  <2>10. /\ \A i \in 1..Len(Candidates(q.ask)) :
              Candidates(q.ask)[i] \in ToSet(v.tried) \union ToSet(s)
         /\ \A i \in 1..Len(s) : s[i] # n => s[i] \notin ToSet(v.tried)
    BY <1>2, <2>7
  <2>11. Loop(v)
    BY <1>1, <1>2, <2>5, <2>7, <2>8, <2>9, <2>10 DEF Loop
  <2>12. Trying(v)
    BY <1>1, <2>5, <2>6, <2>7, <2>8, <2>10, <2>11 DEF Trying
  <2>13. /\ req'[r] = v
         /\ req' = [x \in Requests |-> req'[x]] /\ \A x \in Requests : x # r => req'[x] = req[x]
    BY <2>1, <2>4
  <2> QED BY <2>1, <2>3, <2>5, <2>6, <2>12, <2>13
<1> QED BY <1>6, <1>7

One(b) == IF b THEN 1 ELSE 0
Others(r) == req' = [x \in Requests |-> req'[x]] /\ \A x \in Requests : x # r => req'[x] = req[x]

(* The rows a step writes are those of attempts that are over; the         *)
(* attempts it records are those that are open after it.                   *)
Noted(r) == \A p \in Providers : ledger'[p] = ledger[p] + One(OpenAt(req[r], p))
Begun(r) == \A p \in Providers : Len(attempts'[p]) = Len(attempts[p]) + One(OpenAt(req'[r], p))

LEMMA OpenCount ==
  ASSUME NEW r \in Requests, Others(r), NEW p
  PROVE  /\ IsFiniteSet(Open(p)) /\ Cardinality(Open(p)) \in Nat
         /\ Cardinality(Open(p)') + One(OpenAt(req[r], p))
              = Cardinality(Open(p)) + One(OpenAt(req'[r], p))
<1> DEFINE rest == Open(p) \ {r}
<1>1. PICK before, after : before = Open(p) /\ after = Open(p)'
  OBVIOUS
<1>2. /\ before = {x \in Requests : OpenAt(req[x], p)}
      /\ after = {x \in Requests : OpenAt(req'[x], p)}
  BY <1>1 DEF Open
<1>3. \A x \in Requests : x # r => (OpenAt(req'[x], p) <=> OpenAt(req[x], p))
  BY DEF Others
<1>4. PICK common : common = before \ {r}
  OBVIOUS
<1>5. /\ before = IF OpenAt(req[r], p) THEN common \union {r} ELSE common
      /\ after = IF OpenAt(req'[r], p) THEN common \union {r} ELSE common
  BY <1>2, <1>3, <1>4
<1>6. IsFiniteSet(common) /\ r \notin common /\ IsFiniteSet(before)
  <2>1. common \subseteq Requests /\ before \subseteq Requests
    BY <1>2, <1>4
  <2> QED BY <2>1, <1>4, RequestsAssumption, FS_Subset
<1>7. /\ Cardinality(common) \in Nat /\ Cardinality(common \union {r}) = Cardinality(common) + 1
      /\ Cardinality(before) \in Nat
  BY <1>6, FS_CardinalityType, FS_AddElement
<1>8. /\ Cardinality(before) = Cardinality(common) + One(OpenAt(req[r], p))
      /\ Cardinality(after) = Cardinality(common) + One(OpenAt(req'[r], p))
  BY <1>5, <1>7 DEF One
<1>9. One(OpenAt(req[r], p)) \in Nat /\ One(OpenAt(req'[r], p)) \in Nat
  BY DEF One
<1>10. Cardinality(after) + One(OpenAt(req[r], p)) = Cardinality(before) + One(OpenAt(req'[r], p))
  BY <1>7, <1>8, <1>9
<1> QED BY <1>1, <1>6, <1>7, <1>10

LEMMA StepKeeps ==
  ASSUME LoopInv, attempts \in [Providers -> Seq(Nat)], attempts' \in [Providers -> Seq(Nat)],
         NEW r \in Requests, Others(r), LoopSound(req'[r]), now' = now,
         ledger' \in [Providers -> Nat], log_errors' \in 0..MaxLogErrors,
         \/ Noted(r) /\ Begun(r)
         \/ /\ ledger' = ledger /\ attempts' = attempts
            /\ \A p \in Providers : OpenAt(req'[r], p) <=> OpenAt(req[r], p)
  PROVE  LoopInv'
<1>1. LoopsSound'
  <2>1. \A x \in Requests : LoopSound(req'[x])
    BY DEF LoopInv, LoopsSound, Others
  <2> QED BY <2>1 DEF LoopsSound, Others
<1>2. ASSUME NEW p \in Providers
      PROVE  Len(attempts'[p]) = ledger'[p] + Cardinality(Open(p)')
  <2>1. Len(attempts[p]) = ledger[p] + Cardinality(Open(p))
    BY DEF LoopInv, RowsAccount
  <2>2. PICK before, after, a, b, l, m, o, q :
          /\ before = Cardinality(Open(p)) /\ after = Cardinality(Open(p)')
          /\ a = Len(attempts[p]) /\ b = Len(attempts'[p]) /\ l = ledger[p] /\ m = ledger'[p]
          /\ o = One(OpenAt(req[r], p)) /\ q = One(OpenAt(req'[r], p))
    OBVIOUS
  <2>3. a \in Nat /\ b \in Nat /\ l \in Nat /\ m \in Nat
    BY <2>2 DEF LoopInv
  <2>4. o \in Nat /\ q \in Nat
    BY <2>2 DEF One
  <2>5. before \in Nat /\ after + o = before + q
    BY <2>2, OpenCount
  <2>6. after = before + q - o
    <3>1. IsFiniteSet(Open(p)')
      <4>1. Open(p)' \subseteq Requests
        BY DEF Open
      <4> QED BY <4>1, RequestsAssumption, FS_Subset
    <3>2. after \in Nat
      BY <3>1, <2>2, FS_CardinalityType
    <3> QED BY ONLY <3>2, <2>4, <2>5
  <2>7. b - m = a - l + q - o
    <3>1. CASE Noted(r) /\ Begun(r)
      <4>1. m = l + o /\ b = a + q
        BY <3>1, <2>2 DEF Noted, Begun
      <4> QED BY <4>1, <2>3, <2>4
    <3>2. CASE /\ ledger' = ledger /\ attempts' = attempts
               /\ \A x \in Providers : OpenAt(req'[r], x) <=> OpenAt(req[r], x)
      <4>1. m = l /\ b = a /\ o = q
        BY <3>2, <2>2 DEF One
      <4> QED BY <4>1, <2>3, <2>4
    <3> QED BY <3>1, <3>2
  <2>8. b = m + after
    <3>1. a = l + before
      BY <2>1, <2>2
    <3>2. before \in Nat
      BY <2>5
    <3> QED BY <3>1, <3>2, <2>3, <2>4, <2>6, <2>7
  <2> QED BY <2>2, <2>8
<1>3. RowsAccount'
  <2>1. \A p \in Providers : Len(attempts'[p]) = ledger'[p] + Cardinality(Open(p)')
    BY <1>2
  <2> QED BY <2>1 DEF RowsAccount
<1>4. now' \in Start..MaxTime
  BY DEF LoopInv
<1> QED BY <1>1, <1>3, <1>4 DEF LoopInv

(* Locals that are gone, and an attempt that is over or not.               *)
LEMMA DoneIs ==
  ASSUME NEW q, NEW answer
  PROVE  LET w == Done(q, answer) IN
         /\ w.pc = "done" /\ w.answer = answer /\ w.name = q.name /\ w.tried = q.tried
         /\ w.ask = q.ask /\ w # Idle
<1> DEFINE w == Done(q, answer)
<1>1. w.pc = "done" /\ w.answer = answer /\ w.name = q.name /\ w.tried = q.tried /\ w.ask = q.ask
  BY DEF Done
<1>2. w # Idle
  <2>1. Idle.pc = "idle"
    BY DEF Idle
  <2> HIDE DEF w
  <2> QED BY <1>1, <2>1
<1> QED BY <1>1, <1>2

LEMMA OpenInTurn ==
  ASSUME NEW q, q.pc \in InTurn, NEW p PROVE q # Idle /\ (OpenAt(q, p) <=> q.name = p)
  BY DEF InTurn, Idle, OpenAt

LEMMA ClosedAfter ==
  ASSUME NEW q, NEW answer, answer \notin {"invalid", "dropped", "crashed"}, NEW p
  PROVE  ~OpenAt(Done(q, answer), p)
<1>1. Done(q, answer).pc = "done" /\ Done(q, answer).answer = answer
  BY DoneIs
<1> QED BY <1>1 DEF OpenAt

LEMMA OpenAfter ==
  ASSUME NEW q, NEW answer, answer \in {"invalid", "dropped", "crashed"}, NEW p
  PROVE  OpenAt(Done(q, answer), p) <=> q.name = p
<1>1. Done(q, answer) # Idle /\ Done(q, answer).answer = answer /\ Done(q, answer).name = q.name
  BY DoneIs
<1> QED BY <1>1 DEF OpenAt

LEMMA TryingIsOver ==
  ASSUME NEW q, Trying(q), NEW answer,
         answer \in {"ok", "unavailable", "unknown", "bad_gateway", "invalid", "streamed",
                     "dropped", "crashed"}
  PROVE  Over(Done(q, answer))
<1>1. q.name \in Providers /\ q.tried \in Seq(Providers) /\ IsInjective(q.tried)
  BY DEF Trying, Loop
<1> QED BY <1>1, DoneIs DEF Over

(* A step of request r that keeps the account, and a give-up that is due.  *)
Fairly(r) == Ends(r, "unavailable") => NobodyLeft(req'[r], Candidates(req'[r].ask))
Leads(r) == Others(r) /\ LoopSound(req'[r]) /\ Begun(r) /\ Fairly(r)
Moves(r) ==
  /\ Others(r) /\ LoopSound(req'[r]) /\ Fairly(r) /\ now' = now
  /\ ledger' \in [Providers -> Nat] /\ log_errors' \in 0..MaxLogErrors
  /\ \/ Noted(r) /\ Begun(r)
     \/ /\ ledger' = ledger /\ attempts' = attempts
        /\ \A p \in Providers : OpenAt(req'[r], p) <=> OpenAt(req[r], p)

LEMMA TurnLeads ==
  ASSUME LoopInv, attempts \in [Providers -> Seq(Nat)], NEW r \in Requests, NEW q, Ready(q),
         q.name \in Providers \union {None}, NEW rates, Turn(r, q, rates),
         \A p \in Providers : rates[p] = rate[p] \/ p \in ToSet(q.tried)
  PROVE  Leads(r)
<1>1. req = [x \in Requests |-> req[x]]
  BY DEF LoopInv, LoopsSound
<1>2. /\ Others(r)
      /\ \/ /\ req'[r] = Done(q, "unavailable") /\ Over(req'[r]) /\ attempts' = attempts
            /\ \A i \in 1..Len(q.candidates) : ~Usable(q.candidates[i], q.ask, rates)
         \/ \E n \in Providers :
              /\ req'[r].pc \in InTurn /\ Trying(req'[r]) /\ req'[r].name = n
              /\ req'[r] # Idle
              /\ attempts' = [attempts EXCEPT ![n] = Append(@, now)]
  BY <1>1, TurnIs DEF Others
<1>3. CASE /\ req'[r] = Done(q, "unavailable") /\ Over(req'[r]) /\ attempts' = attempts
           /\ \A i \in 1..Len(q.candidates) : ~Usable(q.candidates[i], q.ask, rates)
  <2>1. ASSUME NEW p \in Providers PROVE One(OpenAt(req'[r], p)) = 0
    BY <1>3, ClosedAfter DEF One
  <2>2. Begun(r)
    BY <1>3, <2>1 DEF Begun
  <2>3. req'[r].tried = q.tried /\ req'[r].ask = q.ask
    BY <1>3, DoneIs
  <2>4. ASSUME NEW i \in 1..Len(Candidates(q.ask)), Candidates(q.ask)[i] \notin ToSet(q.tried)
        PROVE  ~Usable(Candidates(q.ask)[i], q.ask, rate)
    <3>1. PICK p : p = Candidates(q.ask)[i] /\ p \in ToSet(q.candidates)
      BY <2>4 DEF Ready, Loop
    <3>2. PICK j \in 1..Len(q.candidates) : q.candidates[j] = p
      <4>1. q.candidates \in Seq(Providers)
        BY DEF Ready, Loop
      <4>2. \A s \in Seq(Providers) : \A x \in ToSet(s) : \E j \in 1..Len(s) : s[j] = x
        BY DEF ToSet
      <4> QED BY <3>1, <4>1, <4>2
    <3>3. p \in Providers /\ rates[p] = rate[p]
      BY <2>4, <3>1, <3>2 DEF Ready, Loop
    <3>4. ~Usable(p, q.ask, rates)
      BY <1>3, <3>2
    <3> QED BY <3>1, <3>3, <3>4 DEF Usable
  <2>5. Fairly(r)
    BY <2>3, <2>4 DEF Fairly, NobodyLeft
  <2> QED BY <1>2, <1>3, <2>2, <2>5 DEF Leads, LoopSound
<1>4. CASE \E n \in Providers :
             /\ req'[r].pc \in InTurn /\ Trying(req'[r]) /\ req'[r].name = n
             /\ req'[r] # Idle
             /\ attempts' = [attempts EXCEPT ![n] = Append(@, now)]
  <2>1. PICK n \in Providers :
             /\ req'[r].pc \in InTurn /\ Trying(req'[r]) /\ req'[r].name = n
             /\ req'[r] # Idle
             /\ attempts' = [attempts EXCEPT ![n] = Append(@, now)]
    BY <1>4
  <2>2. ASSUME NEW p \in Providers
        PROVE  Len(attempts'[p]) = Len(attempts[p]) + One(OpenAt(req'[r], p))
    <3>1. OpenAt(req'[r], p) <=> n = p
      BY <2>1, OpenInTurn
    <3>2. attempts[p] \in Seq(Nat) /\ Len(attempts[p]) \in Nat
      OBVIOUS
    <3>3. CASE n = p
      <4>1. attempts'[p] = Append(attempts[p], now)
        BY <2>1, <3>3
      <4>2. \A s \in Seq(Nat) : Len(Append(s, now)) = Len(s) + 1
        BY DEF LoopInv
      <4>3. Len(attempts'[p]) = Len(attempts[p]) + 1
        BY <4>1, <4>2, <3>2
      <4> QED BY <4>3, <3>1, <3>3 DEF One
    <3>4. CASE n # p
      <4>1. attempts'[p] = attempts[p]
        BY <2>1, <3>4
      <4> QED BY <4>1, <3>1, <3>2, <3>4 DEF One
    <3> QED BY <3>3, <3>4
  <2>3. Begun(r)
    BY <2>2 DEF Begun
  <2>4. req'[r].pc # "done"
    BY <2>1 DEF InTurn
  <2>5. Fairly(r)
    BY <2>4 DEF Fairly, Ends
  <2> QED BY <1>2, <2>1, <2>3, <2>5 DEF Leads, LoopSound
<1> QED BY <1>2, <1>3, <1>4

(* In the wait no attempt is open.                                         *)
LEMMA SleepLeads ==
  ASSUME LoopInv, attempts \in [Providers -> Seq(Nat)], NEW r \in Requests, NEW q, Ready(q),
         q.name = None, GoToSleep(r, q)
  PROVE  Leads(r)
<1>1. PICK wake : req' = [req EXCEPT ![r] = [q EXCEPT !.pc = "waiting", !.wake = wake]]
  BY DEF GoToSleep
<1>2. attempts' = attempts
  BY DEF GoToSleep
<1> DEFINE v == Locals(q, "waiting", q.candidates, q.turns, wake, q.since, q.name, q.tried)
<1>3. [q EXCEPT !.pc = "waiting", !.wake = wake] = v
  <2>1. Live(q)
    BY DEF Ready, Loop
  <2> QED BY <2>1, LocalsElsewhere
<1>4. /\ v.pc = "waiting" /\ v.ask = q.ask /\ v.candidates = q.candidates /\ v.turns = q.turns
      /\ v.name = q.name /\ v.tried = q.tried /\ v.answer = q.answer
      /\ v = [pc |-> v.pc, ask |-> v.ask, override |-> v.override, candidates |-> v.candidates,
              turns |-> v.turns, deadline |-> v.deadline, wake |-> v.wake, since |-> v.since,
              name |-> v.name, tried |-> v.tried, answer |-> v.answer]
  BY LocalsAre
<1> HIDE DEF v
<1>5. req'[r] = v /\ Others(r)
  <2>1. req = [x \in Requests |-> req[x]] /\ req' = [req EXCEPT ![r] = v]
    BY <1>1, <1>3 DEF LoopInv, LoopsSound
  <2> QED BY <2>1 DEF Others
<1>6. Ready(v)
  <2>1. Live(v)
    <3>1. v.tried \in Seq(Providers)
      BY <1>4 DEF Ready, Loop
    <3> QED BY <1>4, <3>1 DEF Live
  <2>2. Loop(v)
    BY <1>4, <2>1 DEF Ready, Loop
  <2> QED BY <1>4, <2>2 DEF Ready
<1>7. LoopSound(req'[r])
  BY <1>4, <1>5, <1>6 DEF LoopSound
<1>8. ASSUME NEW p \in Providers PROVE Len(attempts'[p]) = Len(attempts[p]) + One(OpenAt(req'[r], p))
  <2>1. ~OpenAt(req'[r], p)
    BY <1>4, <1>5, RequestsAssumption DEF OpenAt
  <2>2. Len(attempts[p]) \in Nat
    OBVIOUS
  <2> QED BY <1>2, <2>1, <2>2 DEF One
<1>9. Begun(r)
  BY <1>8 DEF Begun
<1>10. Fairly(r)
  BY <1>4, <1>5 DEF Fairly, Ends
<1> QED BY <1>5, <1>7, <1>9, <1>10 DEF Leads

LEMMA WaitOrTurnLeads ==
  ASSUME LoopInv, attempts \in [Providers -> Seq(Nat)], NEW r \in Requests, NEW q, Ready(q),
         q.name = None, WaitOrTurn(r, q)
  PROVE  Leads(r)
<1>1. CASE GoToSleep(r, q)
  BY <1>1, SleepLeads
<1>2. CASE Turn(r, q, rate)
  <2>1. \A p \in Providers : rate[p] = rate[p] \/ p \in ToSet(q.tried)
    OBVIOUS
  <2>2. q.name \in Providers \union {None}
    OBVIOUS
  <2> QED BY <1>2, <2>1, <2>2, TurnLeads
<1> QED BY <1>1, <1>2 DEF WaitOrTurn

(* Nothing is open before the first attempt.                               *)
LEMMA FromRest ==
  ASSUME LoopInv, NEW r \in Requests, Leads(r), UNCHANGED <<now, ledger, log_errors>>,
         \A p \in Providers : ~OpenAt(req[r], p)
  PROVE  Moves(r)
<1>1. ledger' \in [Providers -> Nat] /\ log_errors' \in 0..MaxLogErrors
  BY DEF LoopInv
<1>2. Noted(r)
  <2>1. \A p \in Providers : One(OpenAt(req[r], p)) = 0 /\ ledger[p] \in Nat
    BY DEF One, LoopInv
  <2> QED BY <2>1 DEF Noted
<1> QED BY <1>1, <1>2 DEF Moves, Leads

LEMMA WakeMoves ==
  ASSUME LoopInv, attempts \in [Providers -> Seq(Nat)], NEW r \in Requests, Wake(r)
  PROVE  Moves(r)
<1>1. req[r].pc = "waiting" /\ LoopSound(req[r])
  BY DEF Wake, LoopInv, LoopsSound
<1>2. req[r].name = None /\ Ready(req[r])
  BY <1>1 DEF LoopSound, Idle, InTurn, Over
<1>3. \A p \in Providers : ~OpenAt(req[r], p)
  BY <1>2, RequestsAssumption DEF OpenAt
<1>4. WaitOrTurn(r, req[r]) /\ UNCHANGED <<now, ledger, log_errors>>
  BY DEF Wake
<1>5. Leads(r)
  BY <1>2, <1>4, WaitOrTurnLeads
<1> QED BY <1>3, <1>4, <1>5, FromRest

LEMMA BeginMoves ==
  ASSUME LoopInv, attempts \in [Providers -> Seq(Nat)], NEW r \in Requests, NEW ask \in Asks,
         Begin(r, ask)
  PROVE  Moves(r)
<1>1. \A p \in Providers : ~OpenAt(req[r], p)
  BY DEF OpenAt, Begin
<1>2. UNCHANGED <<now, ledger, log_errors>>
  BY DEF Begin
<1>3. CASE Override(ask) \in Providers \union {None}
  <2>1. WaitOrTurn(r, Fresh(ask))
    BY <1>3 DEF Begin
  <2>2. Ready(Fresh(ask)) /\ Fresh(ask).name = None
    BY <1>3, FreshReady
  <2>3. Leads(r)
    BY <2>1, <2>2, WaitOrTurnLeads
  <2> QED BY <1>1, <1>2, <2>3, FromRest
<1>4. CASE Override(ask) \notin Providers \union {None}
  <2> DEFINE q == Fresh(ask)
  <2>1. req' = [req EXCEPT ![r] = Done(q, "unknown")] /\ attempts' = attempts
    BY <1>4 DEF Begin
  <2>2. q.name = None /\ q.tried = << >>
    BY DEF Fresh
  <2> HIDE DEF q
  <2>3. /\ Done(q, "unknown").pc = "done" /\ Done(q, "unknown").answer = "unknown"
        /\ Done(q, "unknown").name = None /\ Done(q, "unknown").tried = << >>
    BY <2>2, DoneIs
  <2>4. IsInjective(<< >>) /\ << >> \in Seq(Providers)
    BY DEF IsInjective
  <2>5. Over(Done(q, "unknown"))
    BY <2>3, <2>4 DEF Over
  <2>6. req'[r] = Done(q, "unknown") /\ Others(r)
    <3>1. req = [x \in Requests |-> req[x]]
      BY DEF LoopInv, LoopsSound
    <3> QED BY <3>1, <2>1 DEF Others
  <2>7. Fairly(r)
    BY <2>3, <2>6 DEF Fairly, Ends
  <2>8. ASSUME NEW p \in Providers PROVE Len(attempts'[p]) = Len(attempts[p]) + One(OpenAt(req'[r], p))
    <3>1. ~OpenAt(req'[r], p)
      BY <2>6, ClosedAfter
    <3>2. Len(attempts[p]) \in Nat
      OBVIOUS
    <3> QED BY <2>1, <3>1, <3>2 DEF One
  <2>9. Leads(r)
    BY <2>5, <2>6, <2>7, <2>8 DEF Leads, LoopSound, Begun
  <2> QED BY <1>1, <1>2, <2>9, FromRest
<1> QED BY <1>3, <1>4

(* In a turn the request is at the provider it names, and nowhere else.    *)
LEMMA AtWork ==
  ASSUME LoopInv, NEW r \in Requests, req[r].pc \in InTurn
  PROVE  /\ Trying(req[r]) /\ req[r].name \in Providers /\ req[r].name \in ToSet(req[r].tried)
         /\ \A p \in Providers : OpenAt(req[r], p) <=> req[r].name = p
<1>1. LoopSound(req[r])
  BY DEF LoopInv, LoopsSound
<1>2. Trying(req[r])
  BY <1>1 DEF LoopSound, InTurn, Idle, Over
<1> QED BY <1>2, OpenInTurn DEF Trying

(* Its row is that of the attempt that is over.                            *)
LEMMA LogNotes ==
  ASSUME LoopInv, NEW r \in Requests, req[r].pc \in InTurn, Log(req[r].name)
  PROVE  Noted(r) /\ ledger' \in [Providers -> Nat]
<1>1. PICK n \in Providers : n = req[r].name
  BY AtWork
<1>2. ledger' = [ledger EXCEPT ![n] = ledger[n] + 1] /\ ledger \in [Providers -> Nat]
  BY <1>1 DEF Log, LoopInv
<1>3. \A p \in Providers : OpenAt(req[r], p) <=> n = p
  BY <1>1, AtWork
<1>4. ASSUME NEW p \in Providers PROVE ledger'[p] = ledger[p] + One(OpenAt(req[r], p))
  <2>1. ledger[p] \in Nat
    BY <1>2
  <2> QED BY <2>1, <1>2, <1>3 DEF One
<1> QED BY <1>2, <1>4 DEF Noted

(* An attempt ends with a row: it is over.                                 *)
LEMMA EndLeads ==
  ASSUME LoopInv, attempts \in [Providers -> Seq(Nat)], NEW r \in Requests, req[r].pc \in InTurn,
         NEW answer \in {"ok", "bad_gateway", "streamed"},
         req' = [req EXCEPT ![r] = Done(req[r], answer)], attempts' = attempts
  PROVE  Leads(r)
<1>1. req'[r] = Done(req[r], answer) /\ Others(r)
  <2>1. req = [x \in Requests |-> req[x]]
    BY DEF LoopInv, LoopsSound
  <2> QED BY <2>1 DEF Others
<1>2. Over(Done(req[r], answer))
  BY AtWork, TryingIsOver
<1>3. Fairly(r)
  BY <1>1, DoneIs DEF Fairly, Ends
<1>4. ASSUME NEW p \in Providers PROVE Len(attempts'[p]) = Len(attempts[p]) + One(OpenAt(req'[r], p))
  <2>1. ~OpenAt(req'[r], p)
    BY <1>1, ClosedAfter
  <2>2. Len(attempts[p]) \in Nat
    OBVIOUS
  <2> QED BY <2>1, <2>2 DEF One
<1> QED BY <1>1, <1>2, <1>3, <1>4 DEF Leads, LoopSound, Begun

(* An attempt ends without a row: it stays open.                           *)
LEMMA LostMoves ==
  ASSUME LoopInv, NEW r \in Requests, req[r].pc \in InTurn,
         NEW answer \in {"invalid", "dropped", "crashed"},
         req' = [req EXCEPT ![r] = Done(req[r], answer)],
         UNCHANGED <<now, ledger, attempts>>, log_errors' \in 0..MaxLogErrors
  PROVE  Moves(r)
<1>1. req'[r] = Done(req[r], answer) /\ Others(r)
  <2>1. req = [x \in Requests |-> req[x]]
    BY DEF LoopInv, LoopsSound
  <2> QED BY <2>1 DEF Others
<1>2. Over(Done(req[r], answer))
  BY AtWork, TryingIsOver
<1>3. Fairly(r)
  BY <1>1, DoneIs DEF Fairly, Ends
<1>4. \A p \in Providers : OpenAt(req'[r], p) <=> OpenAt(req[r], p)
  BY <1>1, AtWork, OpenAfter
<1>5. ledger' \in [Providers -> Nat]
  BY DEF LoopInv
<1> QED BY <1>1, <1>2, <1>3, <1>4, <1>5 DEF Moves, LoopSound

(* A retry or a repair belongs to the attempt.                             *)
LEMMA SameAttempt ==
  ASSUME LoopInv, NEW r \in Requests, req[r].pc \in InTurn, NEW pc \in InTurn,
         req' = [req EXCEPT ![r].pc = pc], UNCHANGED <<now, ledger, log_errors, attempts>>
  PROVE  Moves(r)
<1> DEFINE q == req[r]
           v == Locals(q, pc, q.candidates, q.turns, q.wake, q.since, q.name, q.tried)
<1>1. Trying(q) /\ \A p \in Providers : OpenAt(q, p) <=> q.name = p
  BY AtWork
<1>2. [q EXCEPT !.pc = pc] = v
  <2>1. Live(q)
    BY <1>1 DEF Trying, Loop
  <2> HIDE DEF q
  <2> QED BY <2>1, LocalsElsewhere
<1>3. /\ v.pc = pc /\ v.ask = q.ask /\ v.candidates = q.candidates /\ v.turns = q.turns
      /\ v.name = q.name /\ v.tried = q.tried /\ v.answer = q.answer
      /\ v = [pc |-> v.pc, ask |-> v.ask, override |-> v.override, candidates |-> v.candidates,
              turns |-> v.turns, deadline |-> v.deadline, wake |-> v.wake, since |-> v.since,
              name |-> v.name, tried |-> v.tried, answer |-> v.answer]
  <2> HIDE DEF q
  <2> QED BY LocalsAre
<1>4. req'[r] = v /\ Others(r)
  <2>1. req = [x \in Requests |-> req[x]] /\ req' = [req EXCEPT ![r] = v]
    <3>1. req = [x \in Requests |-> req[x]]
      BY DEF LoopInv, LoopsSound
    <3>2. req' = [req EXCEPT ![r] = [req[r] EXCEPT !.pc = pc]]
      OBVIOUS
    <3> QED BY <3>1, <3>2, <1>2
  <2> QED BY <2>1 DEF Others
<1> HIDE DEF v, q
<1>5. Trying(v)
  <2>1. Live(v)
    <3>1. v.tried \in Seq(Providers)
      BY <1>1, <1>3 DEF Trying, Loop
    <3> QED BY <1>3, <3>1 DEF Live
  <2>2. Loop(v)
    BY <1>1, <1>3, <2>1 DEF Trying, Loop
  <2> QED BY <1>1, <1>3, <2>2 DEF Trying
<1>6. \A p \in Providers : OpenAt(v, p) <=> OpenAt(q, p)
  BY <1>1, <1>3, OpenInTurn
<1>7. Fairly(r)
  BY <1>3, <1>4 DEF Fairly, Ends, InTurn
<1>8. LoopSound(v)
  BY <1>3, <1>5 DEF LoopSound
<1>9. ledger' \in [Providers -> Nat] /\ log_errors' \in 0..MaxLogErrors
  BY DEF LoopInv
<1> QED BY <1>4, <1>6, <1>7, <1>8, <1>9 DEF Moves, q

(* After the error row: 502, or a turn with the candidates that remain.    *)
LEMMA GoOnLeads ==
  ASSUME LoopInv, attempts \in [Providers -> Seq(Nat)], NEW r \in Requests, req[r].pc \in InTurn,
         NEW rates, NEW final, GoOn(r, rates, final),
         \A p \in Providers : p # req[r].name => rates[p] = rate[p]
  PROVE  Leads(r)
<1>1. CASE final
  <2>1. req' = [req EXCEPT ![r] = Done(req[r], "bad_gateway")] /\ attempts' = attempts
    BY <1>1 DEF GoOn
  <2>2. "bad_gateway" \in {"ok", "bad_gateway", "streamed"}
    OBVIOUS
  <2> QED BY <2>1, <2>2, EndLeads
<1>2. CASE ~final
  <2>1. PICK w : w = [req[r] EXCEPT !.candidates = Remaining(req[r])]
    OBVIOUS
  <2>2. Turn(r, w, rates)
    BY <1>2, <2>1 DEF GoOn
  <2>3. /\ Trying(req[r]) /\ req[r].name \in Providers /\ req[r].name \in ToSet(req[r].tried)
    BY AtWork
  <2>4. Ready(w) /\ w.name = req[r].name /\ w.tried = req[r].tried
    BY <2>1, <2>3, RemainingReady
  <2>5. \A p \in Providers : rates[p] = rate[p] \/ p \in ToSet(w.tried)
    BY <2>3, <2>4
  <2>6. w.name \in Providers \union {None}
    BY <2>3, <2>4
  <2> QED BY <2>2, <2>4, <2>5, <2>6, TurnLeads
<1> QED BY <1>1, <1>2

LEMMA LoggedMoves ==
  ASSUME LoopInv, NEW r \in Requests, req[r].pc \in InTurn, Log(req[r].name), Leads(r),
         now' = now, log_errors' \in 0..MaxLogErrors
  PROVE  Moves(r)
BY LogNotes DEF Moves, Leads

LEMMA UnwrittenMoves ==
  ASSUME LoopInv, NEW r \in Requests, req[r].pc \in InTurn, NEW rates, Unwritten(r, rates), now' = now
  PROVE  Moves(r)
<1>1. req' = [req EXCEPT ![r] = Done(req[r], "crashed")]
  BY DEF Unwritten
<1>2. log_errors' \in 0..MaxLogErrors
  BY TimesAssumption DEF Unwritten, LoopInv
<1>3. UNCHANGED <<now, ledger, attempts>>
  BY DEF Unwritten
<1>4. "crashed" \in {"invalid", "dropped", "crashed"}
  OBVIOUS
<1> QED BY <1>1, <1>2, <1>3, <1>4, LostMoves

LEMMA FailMoves ==
  ASSUME LoopInv, attempts \in [Providers -> Seq(Nat)], rate \in [Providers -> RateStates],
         NEW r \in Requests, NEW kind \in Kinds, Fail(r, kind)
  PROVE  Moves(r)
<1>1. req[r].pc \in InTurn /\ now' = now
  BY DEF Fail, InCall, InTurn
<1> DEFINE marked == Marked(req[r], kind)
           final == req[r].override \/ Final(kind)
<1>2. \A p \in Providers : p # req[r].name => marked[p] = rate[p]
  BY DEF Marked
<1>3. \/ GoOn(r, marked, final) /\ Log(req[r].name) /\ UNCHANGED log_errors
      \/ Unwritten(r, marked)
  BY DEF Fail
<1> HIDE DEF marked, final
<1>4. CASE GoOn(r, marked, final) /\ Log(req[r].name) /\ UNCHANGED log_errors
  <2>1. Leads(r)
    BY <1>1, <1>2, <1>4, GoOnLeads
  <2>2. log_errors' \in 0..MaxLogErrors
    BY <1>4 DEF LoopInv
  <2> QED BY <1>1, <1>4, <2>1, <2>2, LoggedMoves
<1>5. CASE Unwritten(r, marked)
  BY <1>1, <1>5, UnwrittenMoves
<1> QED BY <1>3, <1>4, <1>5

LEMMA AnswerUnnotedMoves ==
  ASSUME LoopInv, attempts \in [Providers -> Seq(Nat)], rate \in [Providers -> RateStates],
         NEW r \in Requests, NEW n \in Tokens, AnswerUnnoted(r, n)
  PROVE  Moves(r)
<1>1. req[r].pc \in InTurn /\ now' = now
  BY DEF AnswerUnnoted, InCall, InTurn
<1> DEFINE spent == [rate EXCEPT ![req[r].name] = Spend(@, n)]
           final == req[r].override
<1>2. \A p \in Providers : p # req[r].name => spent[p] = rate[p]
  OBVIOUS
<1>3. \/ GoOn(r, spent, final) /\ Log(req[r].name) /\ log_errors' = log_errors + 1
      \/ Unwritten(r, spent)
  BY DEF AnswerUnnoted
<1> HIDE DEF spent, final
<1>4. CASE GoOn(r, spent, final) /\ Log(req[r].name) /\ log_errors' = log_errors + 1
  <2>1. Leads(r)
    BY <1>1, <1>2, <1>4, GoOnLeads
  <2>2. log_errors' \in 0..MaxLogErrors
    BY <1>4, TimesAssumption DEF LoopInv, AnswerUnnoted
  <2> QED BY <1>1, <1>4, <2>1, <2>2, LoggedMoves
<1>5. CASE Unwritten(r, spent)
  BY <1>1, <1>5, UnwrittenMoves
<1> QED BY <1>3, <1>4, <1>5

LEMMA AnswerMoves ==
  ASSUME LoopInv, attempts \in [Providers -> Seq(Nat)], NEW r \in Requests, NEW n \in Tokens,
         Answer(r, n)
  PROVE  Moves(r)
<1>1. req[r].pc \in InTurn
  BY DEF Answer, InCall, InTurn
<1>2. req' = [req EXCEPT ![r] = Done(req[r], "ok")] /\ attempts' = attempts /\ Log(req[r].name)
      /\ now' = now /\ log_errors' \in 0..MaxLogErrors
  BY DEF Answer, LoopInv
<1>3. "ok" \in {"ok", "bad_gateway", "streamed"}
  OBVIOUS
<1>4. Leads(r)
  BY <1>1, <1>2, <1>3, EndLeads
<1> QED BY <1>1, <1>2, <1>4, LoggedMoves

LEMMA StreamEndsMoves ==
  ASSUME LoopInv, attempts \in [Providers -> Seq(Nat)], NEW r \in Requests, StreamEnds(r)
  PROVE  Moves(r)
<1>1. req[r].pc \in InTurn
  BY DEF StreamEnds, InTurn
<1>2. req' = [req EXCEPT ![r] = Done(req[r], "streamed")] /\ attempts' = attempts
      /\ Log(req[r].name) /\ now' = now /\ log_errors' \in 0..MaxLogErrors
  BY DEF StreamEnds, LoopInv
<1>3. "streamed" \in {"ok", "bad_gateway", "streamed"}
  OBVIOUS
<1>4. Leads(r)
  BY <1>1, <1>2, <1>3, EndLeads
<1> QED BY <1>1, <1>2, <1>4, LoggedMoves

LEMMA OtherMoves ==
  ASSUME LoopInv, NEW r \in Requests,
         \/ Mismatch(r) \/ MismatchAgain(r) \/ Retry(r) \/ StreamDropped(r)
         \/ \E kind \in Kinds : Pause(r, kind)
  PROVE  Moves(r)
<1>1. log_errors \in 0..MaxLogErrors
  BY DEF LoopInv
<1>2. ASSUME NEW pc \in InTurn, req[r].pc \in InTurn, req' = [req EXCEPT ![r].pc = pc],
             UNCHANGED <<now, ledger, log_errors, attempts>>
      PROVE  Moves(r)
  BY <1>2, SameAttempt
<1>3. ASSUME NEW answer \in {"invalid", "dropped", "crashed"}, req[r].pc \in InTurn,
             req' = [req EXCEPT ![r] = Done(req[r], answer)],
             UNCHANGED <<now, ledger, log_errors, attempts>>
      PROVE  Moves(r)
  BY <1>1, <1>3, LostMoves
<1>4. CASE Mismatch(r)
  BY <1>2, <1>4 DEF Mismatch, InTurn
<1>5. CASE Retry(r)
  BY <1>2, <1>5 DEF Retry, InTurn
<1>6. CASE \E kind \in Kinds : Pause(r, kind)
  BY <1>2, <1>6 DEF Pause, InTurn
<1>7. CASE MismatchAgain(r)
  <2>1. req' = [req EXCEPT ![r] = Done(req[r], "invalid")]
    BY <1>7 DEF MismatchAgain
  <2> QED BY <1>3, <1>7, <2>1 DEF MismatchAgain, InTurn
<1>8. CASE StreamDropped(r)
  <2>1. req' = [req EXCEPT ![r] = Done(req[r], "dropped")]
    BY <1>8 DEF StreamDropped
  <2> QED BY <1>3, <1>8, <2>1 DEF StreamDropped, InTurn
<1> QED BY <1>4, <1>5, <1>6, <1>7, <1>8

LEMMA InitLoop == Init => LoopInv
<1> SUFFICES ASSUME Init PROVE LoopInv
  OBVIOUS
<1>1. LoopsSound
  BY DEF Init, LoopsSound, LoopSound
<1>2. ASSUME NEW p \in Providers PROVE Len(attempts[p]) = ledger[p] + Cardinality(Open(p))
  <2>1. Open(p) = {}
    BY DEF Open, OpenAt, Init
  <2>2. Cardinality(Open(p)) = 0
    BY <2>1, FS_EmptySet
  <2>3. attempts[p] = << >> /\ ledger[p] = 0
    BY DEF Init
  <2> QED BY <2>2, <2>3
<1>3. RowsAccount
  BY <1>2 DEF RowsAccount
<1>4. ledger \in [Providers -> Nat] /\ log_errors \in 0..MaxLogErrors /\ now \in Start..MaxTime
  BY TimesAssumption DEF Init
<1> QED BY <1>1, <1>3, <1>4 DEF LoopInv

(* Every step is a move of one request, a tick or nothing.                 *)
LEMMA StepsMove ==
  ASSUME IInv, LoopInv, Next
  PROVE  Tick \/ \E r \in Requests : Moves(r)
<1>1. attempts \in [Providers -> Seq(Nat)] /\ rate \in [Providers -> RateStates]
  BY DEF IInv, AllBooked
<1>2. ASSUME NEW r \in Requests, Steps(r) PROVE Moves(r)
  BY <1>1, <1>2, WakeMoves, AnswerMoves, AnswerUnnotedMoves, FailMoves, StreamEndsMoves,
     OtherMoves DEF Steps
<1>3. ASSUME NEW r \in Requests, NEW ask \in Asks, Begin(r, ask) PROVE Moves(r)
  BY <1>1, <1>3, BeginMoves
<1> QED BY <1>2, <1>3 DEF Next

LEMMA NextLoop == IInv /\ LoopInv /\ [Next]_vars => LoopInv'
<1> SUFFICES ASSUME IInv, LoopInv, [Next]_vars PROVE LoopInv'
  OBVIOUS
<1>1. attempts \in [Providers -> Seq(Nat)] /\ attempts' \in [Providers -> Seq(Nat)]
  BY NextIInv DEF IInv, AllBooked
<1>2. ASSUME NEW r \in Requests, Moves(r) PROVE LoopInv'
  BY <1>1, <1>2, StepKeeps DEF Moves
<1>3. ASSUME UNCHANGED <<req, ledger, attempts, log_errors>>, now' \in Start..MaxTime PROVE LoopInv'
  <2>1. LoopsSound'
    BY <1>3 DEF LoopInv, LoopsSound
  <2>2. ASSUME NEW p \in Providers PROVE Len(attempts'[p]) = ledger'[p] + Cardinality(Open(p)')
    <3>1. Open(p)' = Open(p)
      BY <1>3 DEF Open
    <3> QED BY <1>3, <3>1 DEF LoopInv, RowsAccount
  <2>3. RowsAccount'
    BY <2>2 DEF RowsAccount
  <2> QED BY <1>3, <2>1, <2>3 DEF LoopInv
<1>4. CASE Tick
  <2>1. now' \in Start..MaxTime
    <3>1. now \in Start..MaxTime /\ Start \in Nat /\ MaxTime \in Nat
      BY TimesAssumption DEF LoopInv
    <3> QED BY <1>4, <3>1 DEF Tick
  <2> QED BY <1>3, <1>4, <2>1 DEF Tick
<1>5. CASE UNCHANGED vars
  BY <1>3, <1>5 DEF vars, LoopInv
<1> QED BY <1>2, <1>4, <1>5, StepsMove

LEMMA LoopIsTyped ==
  ASSUME IInv, LoopInv
  PROVE  TypeOK
<1>1. /\ now \in Start..MaxTime /\ rate \in [Providers -> RateStates]
      /\ attempts \in [Providers -> Seq(Nat)]
      /\ ledger \in [Providers -> Nat] /\ log_errors \in 0..MaxLogErrors
  BY DEF IInv, AllBooked, LoopInv
<1>2. ASSUME NEW r \in Requests, req[r] # Idle
      PROVE  /\ req[r].pc \in {"waiting", "calling", "pausing", "retrying", "repairing",
                               "streaming", "done"}
             /\ req[r].answer \in {None, "ok", "unavailable", "unknown", "bad_gateway",
                                   "invalid", "streamed", "dropped", "crashed"}
             /\ req[r].pc # "done" => req[r].turns \in 0..Len(Candidates(req[r].ask)) + 1
             /\ req[r].name \in Providers \union {None}
  <2>1. LoopSound(req[r])
    BY DEF LoopInv, LoopsSound
  <2>2. ASSUME Loop(req[r])
        PROVE  req[r].answer = None /\ req[r].turns \in 0..Len(Candidates(req[r].ask)) + 1
    <3>1. /\ req[r].turns \in Nat /\ req[r].turns <= Len(Candidates(req[r].ask)) + 1
          /\ req[r].answer = None
      BY <2>2 DEF Loop
    <3> QED BY <3>1
  <2>3. CASE req[r].pc = "waiting" /\ req[r].name = None /\ Ready(req[r])
    BY <2>2, <2>3 DEF Ready
  <2>4. CASE req[r].pc \in InTurn /\ Trying(req[r])
    BY <2>2, <2>4 DEF Trying, InTurn
  <2>5. CASE Over(req[r])
    BY <2>5 DEF Over
  <2> QED BY <1>2, <2>1, <2>3, <2>4, <2>5 DEF LoopSound
<1> QED BY <1>1, <1>2 DEF TypeOK

LEMMA LoopIsAccounted ==
  ASSUME IInv, LoopInv
  PROVE  AttemptsAccounted
<1>1. TriedOnce
  <2>1. ASSUME NEW r \in Requests, req[r] # Idle PROVE IsInjective(req[r].tried)
    BY <2>1 DEF LoopInv, LoopsSound, LoopSound, Ready, Trying, Loop, Over
  <2> QED BY <2>1 DEF TriedOnce
<1>2. LedgerAccounts
  <2>1. ASSUME NEW p \in Providers
        PROVE  Open(p) = {r \in Requests : /\ req[r] # Idle /\ req[r].name = p
                                           /\ req[r].pc # "done" \/ req[r].answer \in {"invalid", "dropped", "crashed"}}
    BY DEF Open, OpenAt
  <2> QED BY <2>1 DEF LoopInv, RowsAccount, LedgerAccounts
<1> QED BY <1>1, <1>2, LoopIsTyped DEF AttemptsAccounted

(* A request tries no provider twice, and every attempt at a provider is   *)
(* in the ledger when it is over, but for those the property names: for    *)
(* any providers and requests, and whatever fails (chat()'s loop).         *)
THEOREM AttemptsAreAccounted == Spec => []AttemptsAccounted
<1>1. IInv /\ LoopInv => AttemptsAccounted
  BY LoopIsAccounted
<1> QED BY <1>1, InitIInv, NextIInv, InitLoop, NextLoop, PTL DEF Spec

LEMMA GivesUpDuly ==
  ASSUME IInv, LoopInv, [Next]_vars, NEW r \in Requests, Ends(r, "unavailable")
  PROVE  NobodyLeft(req'[r], Candidates(req'[r].ask))
<1>1. req'[r] # req[r]
  BY DEF Ends
<1>2. PICK x \in Requests : Moves(x)
  BY <1>1, StepsMove DEF Tick, vars
<1>3. x = r
  BY <1>1, <1>2 DEF Moves, Others
<1> QED BY <1>2, <1>3 DEF Moves, Fairly

(* "All upstream providers are currently unavailable" is answered only     *)
(* when every candidate has failed the request or cannot be used: the      *)
(* loop's turns do not run out before its candidates do.                   *)
THEOREM UnavailableMeansSo == Spec => UnavailableOnlyWhenSo
<1> DEFINE Due == \A r \in Requests : Ends(r, "unavailable") =>
                    NobodyLeft(req'[r], Candidates(req'[r].ask))
<1>1. IInv /\ LoopInv /\ [Next]_vars => [Due]_vars
  BY GivesUpDuly
<1> QED BY <1>1, InitIInv, NextIInv, InitLoop, NextLoop, PTL DEF Spec, UnavailableOnlyWhenSo
=============================================================================
