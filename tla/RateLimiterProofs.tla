------------------------- MODULE RateLimiterProofs -------------------------
(***************************************************************************)
(* Theorems about RateLimiter, for any limits, any window and any clock.   *)
(*                                                                         *)
(* The argument: what the limiter remembers of a key is always the calls   *)
(* accepted last, and each one it has forgotten is older than the window   *)
(* (Forgets).  A call is accepted when fewer than the limit remain after   *)
(* forgetting, so the call that many places earlier has been forgotten and *)
(* is more than a window old.                                              *)
(***************************************************************************)
EXTENDS RateLimiter, NatLemmas, SequenceTheorems, TLAPS

(* dq is s without its first d elements, all of them before the horizon.   *)
Drops(dq, s, d, horizon) ==
  /\ dq = SubSeq(s, d + 1, Len(s))
  /\ \A i \in 1..d : s[i] < horizon

Forgets == \A k \in Key : \E d \in 0..Len(accepted[k]) :
              Drops(window[k], accepted[k], d, now - Window)

(* The clock does not step back: the accepted times are in order.          *)
InOrder ==
  \A k \in Key : \A i \in 1..Len(accepted[k]) :
    /\ accepted[k][i] <= now
    /\ \A j \in i..Len(accepted[k]) : accepted[k][i] <= accepted[k][j]

NothingBeforeLoad == limits = NotLoaded => \A k \in Key : accepted[k] = <<>>

IInv == TypeOK /\ Forgets /\ InOrder /\ NothingBeforeLoad /\ WindowRespected
-----------------------------------------------------------------------------
(* Forgetting from the left keeps a suffix, and stops at the first time    *)
(* not before the horizon.                                                 *)
LEMMA GcDrops ==
  ASSUME NEW s \in Seq(Nat), NEW d \in 0..Len(s), NEW dq, NEW h \in Int,
         Drops(dq, s, d, h)
  PROVE  \E e \in 0..Len(s) :
           /\ Drops(Gc(dq, h), s, e, h)
           /\ e < Len(s) => s[e + 1] >= h
<1> DEFINE n == Len(s)
           live == {i \in 1..Len(dq) : dq[i] >= h}
<1>1. n \in Nat /\ d \in Nat /\ d <= n
  OBVIOUS
<1>2. dq = SubSeq(s, d + 1, n) /\ \A i \in 1..d : s[i] < h
  BY DEF Drops
<1>3. dq \in Seq(Nat) /\ Len(dq) = n - d /\ \A i \in 1..(n - d) : dq[i] = s[d + i]
  BY <1>1, <1>2
<1>4. CASE live = {}
  <2>1. Gc(dq, h) = <<>>
    BY <1>4 DEF Gc
  <2>2. SubSeq(s, n + 1, n) = <<>>
    BY <1>1
  <2>3. ASSUME NEW i \in 1..n PROVE s[i] < h
    <3>1. CASE i <= d
      BY <3>1, <1>1, <1>2
    <3>2. CASE i > d
      <4>1. i - d \in 1..(n - d) /\ d + (i - d) = i
        BY <3>2, <1>1
      <4>2. dq[i - d] = s[i]
        BY <4>1, <1>3
      <4>3. ~(dq[i - d] >= h)
        BY <4>1, <1>3, <1>4
      <4>4. s[i] \in Nat
        BY <1>1
      <4> QED BY <4>2, <4>3, <4>4
    <3> QED BY <3>1, <3>2, <1>1
  <2> HIDE DEF n
  <2>4. n \in 0..n
    BY <1>1
  <2>5. Drops(Gc(dq, h), s, n, h)
    BY <2>1, <2>2, <2>3 DEF Drops, n
  <2>6. ~(n < n)
    BY <1>1
  <2> QED BY <2>4, <2>5, <2>6 DEF n
<1>5. CASE live # {}
  <2> DEFINE m == CHOOSE i \in live : \A j \in live : i <= j
             e == d + m - 1
  <2>1. live \subseteq Nat
    BY <1>1, <1>3
  <2>2. \E i \in live : \A j \in live : i <= j
    <3> HIDE DEF live
    <3> QED BY <2>1, <1>5, LeastElement
  <2>3. m \in live /\ \A j \in live : m <= j
    BY <2>2
  <2>4. m \in 1..(n - d) /\ dq[m] >= h
    BY <2>3, <1>3
  <2>5. Gc(dq, h) = SubSeq(dq, m, Len(dq))
    BY <1>5 DEF Gc
  <2> HIDE DEF m
  <2>6. e \in 0..n /\ e + 1 = d + m /\ e < n
    BY <2>4, <1>1
  <2>7. SubSeq(dq, m, n - d) = SubSeq(s, d + m, n)
    <3>1. SubSeq(dq, m, n - d) \in Seq(Nat) /\ SubSeq(s, d + m, n) \in Seq(Nat)
      <4>1. m \in 1..(Len(dq) + 1) /\ n - d \in (m - 1)..Len(dq)
        BY <1>1, <1>3, <2>4
      <4>2. d + m \in 1..(Len(s) + 1) /\ n \in (d + m - 1)..Len(s)
        BY <1>1, <2>4
      <4>3. SubSeq(dq, m, n - d) \in Seq(Nat)
        <5> HIDE DEF n
        <5> QED BY <4>1, <1>3, SubSeqProperties
      <4>4. SubSeq(s, d + m, n) \in Seq(Nat)
        <5> HIDE DEF n
        <5> QED BY <4>2, SubSeqProperties
      <4> QED BY <4>3, <4>4
    <3>2. Len(SubSeq(dq, m, n - d)) = n - d - m + 1 /\ Len(SubSeq(s, d + m, n)) = n - d - m + 1
      BY <1>1, <1>3, <2>4
    <3>3. ASSUME NEW i \in 1..(n - d - m + 1)
          PROVE  SubSeq(dq, m, n - d)[i] = SubSeq(s, d + m, n)[i]
      <4>1. m + i - 1 \in 1..(n - d) /\ d + (m + i - 1) = d + m + i - 1
        BY <1>1, <2>4
      <4>2. /\ m \in 1..(Len(dq) + 1) /\ n - d \in (m - 1)..Len(dq) /\ i \in 1..(n - d - m + 1)
            /\ d + m \in 1..(Len(s) + 1) /\ n \in (d + m - 1)..Len(s) /\ i \in 1..(n - (d + m) + 1)
        BY <1>1, <1>3, <2>4
      <4>3. SubSeq(dq, m, n - d)[i] = dq[m + i - 1]
        <5> HIDE DEF n
        <5> QED BY <4>2, <1>3, SubSeqProperties
      <4>4. SubSeq(s, d + m, n)[i] = s[d + m + i - 1]
        <5> HIDE DEF n
        <5> QED BY <4>2, SubSeqProperties
      <4> QED BY <4>1, <4>3, <4>4, <1>3
    <3> HIDE DEF n
    <3> QED BY <3>1, <3>2, <3>3, SeqEqual
  <2>8. ASSUME NEW i \in 1..e PROVE s[i] < h
    <3>1. CASE i <= d
      BY <3>1, <1>2, <2>6
    <3>2. CASE i > d
      <4>1. i - d \in 1..(n - d) /\ i - d < m /\ d + (i - d) = i
        BY <3>2, <1>1, <2>4, <2>6
      <4>2. i - d \notin live
        BY <4>1, <2>3, <2>4
      <4>3. dq[i - d] = s[i] /\ s[i] \in Nat
        BY <4>1, <1>1, <1>3, <2>6
      <4> QED BY <4>1, <4>2, <4>3, <1>3
    <3> QED BY <3>1, <3>2, <1>1, <2>6
  <2>9. s[e + 1] >= h
    BY <2>4, <2>6, <1>3
  <2>10. Drops(Gc(dq, h), s, e, h)
    BY <2>5, <2>6, <2>7, <2>8, <1>3 DEF Drops
  <2> QED BY <2>6, <2>9, <2>10
<1> QED BY <1>4, <1>5

(* What is live of a key is what was accepted of it in the last Window     *)
(* seconds.                                                                *)
LEMMA LiveIsRecent ==
  ASSUME IInv, NEW k \in Key
  PROVE  \E e \in 0..Len(accepted[k]) :
           /\ Drops(Live(k), accepted[k], e, now - Window)
           /\ e < Len(accepted[k]) => accepted[k][e + 1] >= now - Window
           /\ Len(Live(k)) = Len(accepted[k]) - e
           /\ Live(k) \in Seq(Nat)
<1> DEFINE s == accepted[k]
<1>1. s \in Seq(Nat) /\ now - Window \in Int
  BY WindowAssumption DEF IInv, TypeOK
<1>2. PICK d \in 0..Len(s) : Drops(window[k], s, d, now - Window)
  BY DEF IInv, Forgets
<1> HIDE DEF s
<1>3. PICK e \in 0..Len(s) : /\ Drops(Gc(window[k], now - Window), s, e, now - Window)
                             /\ e < Len(s) => s[e + 1] >= now - Window
  BY <1>1, <1>2, GcDrops
<1>4. Live(k) = SubSeq(s, e + 1, Len(s))
  BY <1>3 DEF Live, Drops
<1>5. Len(s) \in Nat /\ e \in Nat /\ e <= Len(s)
  BY <1>1, <1>3
<1>6. Live(k) \in Seq(Nat) /\ Len(Live(k)) = Len(s) - e
  BY <1>1, <1>4, <1>5
<1> QED BY <1>3, <1>6 DEF Live, s

LEMMA GetLimitsType ==
  ASSUME TypeOK, NEW yaml \in Yamls
  PROVE  /\ GetLimits(yaml) \in Limits
         /\ GetLimits(yaml) # NotLoaded
         /\ limits # NotLoaded => GetLimits(yaml) = limits
  BY YamlsAssumption, NotLoadedAssumption DEF TypeOK, GetLimits

LEMMA CapType ==
  ASSUME NEW lims \in Limits, NEW k \in Key
  PROVE  Cap(lims, k) \in Nat
  BY DEF Limits, Cap, Key

LEMMA InitIInv == Init => IInv
<1> SUFFICES ASSUME Init PROVE IInv
  OBVIOUS
<1>1. now = 0 /\ limits = NotLoaded /\ \A k \in Key : window[k] = <<>> /\ accepted[k] = <<>>
  BY DEF Init
<1>2. TypeOK
  BY DEF Init, TypeOK
<1>3. Forgets
  <2>1. Drops(<<>>, <<>>, 0, now - Window)
    BY DEF Drops
  <2> QED BY <1>1, <2>1 DEF Forgets
<1> QED BY <1>1, <1>2, <1>3 DEF IInv, InOrder, NothingBeforeLoad, WindowRespected

LEMMA LoadStep ==
  ASSUME IInv, NEW yaml \in Yamls, Load(yaml)
  PROVE  IInv'
<1> USE DEF Load
<1>1. /\ limits' \in Limits /\ limits' # NotLoaded
      /\ limits # NotLoaded => limits' = limits
  BY GetLimitsType DEF IInv
<1>2. TypeOK' /\ Forgets' /\ InOrder' /\ NothingBeforeLoad'
  BY <1>1 DEF IInv, TypeOK, Forgets, InOrder, NothingBeforeLoad, Drops
<1>3. WindowRespected'
  BY <1>1 DEF IInv, NothingBeforeLoad, WindowRespected, Cap
<1> QED BY <1>2, <1>3 DEF IInv

LEMMA AcceptStep ==
  ASSUME IInv, NEW yaml \in Yamls, NEW k \in Key, Accept(k, yaml)
  PROVE  IInv'
<1> DEFINE s == accepted[k]
           L == Len(s)
           lims == GetLimits(yaml)
<1>1. /\ lims \in Limits /\ lims # NotLoaded /\ limits' = lims
      /\ limits # NotLoaded => limits' = limits
  BY GetLimitsType DEF IInv, Accept
<1>2. s \in Seq(Nat) /\ L \in Nat /\ now \in Nat /\ now' = now /\ Window \in Nat
  BY WindowAssumption DEF IInv, TypeOK, Accept
<1>3. PICK e \in 0..L : /\ Drops(Live(k), s, e, now - Window)
                        /\ Len(Live(k)) = L - e
                        /\ Live(k) \in Seq(Nat)
  BY LiveIsRecent
<1>4. /\ window' = [window EXCEPT ![k] = Append(Live(k), now)]
      /\ accepted' = [accepted EXCEPT ![k] = Append(s, now)]
      /\ Len(Live(k)) < Cap(lims, k)
  BY DEF Accept, Admits
<1>5. /\ window' \in [Key -> Seq(Nat)] /\ accepted' \in [Key -> Seq(Nat)]
      /\ window'[k] = Append(Live(k), now)
      /\ accepted'[k] = Append(s, now)
      /\ \A j \in Key \ {k} : window'[j] = window[j] /\ accepted'[j] = accepted[j]
  BY <1>2, <1>3, <1>4 DEF IInv, TypeOK
<1> HIDE DEF s, lims
<1>6. /\ Len(Append(s, now)) = L + 1
      /\ Append(s, now)[L + 1] = now
      /\ \A i \in 1..L : Append(s, now)[i] = s[i]
  BY <1>2
<1>7. TypeOK'
  BY <1>1, <1>2, <1>5 DEF TypeOK
<1>8. Forgets'
  <2> SUFFICES ASSUME NEW j \in Key
               PROVE  \E d \in 0..Len(accepted'[j]) : Drops(window'[j], accepted'[j], d, now - Window)
    BY <1>2 DEF Forgets, Drops
  <2>1. CASE j # k
    BY <2>1, <1>5 DEF IInv, Forgets
  <2>2. CASE j = k
    <3>1. Append(Live(k), now) = SubSeq(Append(s, now), e + 1, L + 1)
      <4> DEFINE longer == Append(s, now)
                 rest == SubSeq(longer, e + 1, L + 1)
                 kept == Append(Live(k), now)
      <4>1. longer \in Seq(Nat) /\ e \in Nat /\ e <= L
        BY <1>2, <1>3
      <4>2. rest \in Seq(Nat) /\ Len(rest) = L + 1 - e
            /\ \A i \in 1..(L + 1 - e) : rest[i] = longer[e + i]
        <5>1. e + 1 \in Int /\ L + 1 \in Int /\ e + 1 <= L + 1 /\ (L + 1) - (e + 1) + 1 = L + 1 - e
          BY <4>1, <1>2
        <5>2. \A i \in (e + 1)..(L + 1) : longer[i] \in Nat
          <6>1. Len(longer) = L + 1
            BY <1>6
          <6> HIDE DEF longer, L
          <6> QED BY <4>1, <6>1, <1>2, ElementOfSeq
        <5>3. \A i \in 1..(L + 1 - e) : (e + 1) + i - 1 = e + i
          BY <4>1, <1>2
        <5> HIDE DEF longer, L
        <5> QED BY <5>1, <5>2, <5>3, SubSeqProperties
      <4>3. kept \in Seq(Nat) /\ Len(kept) = L + 1 - e
            /\ kept[L + 1 - e] = now
            /\ \A i \in 1..(L - e) : kept[i] = Live(k)[i]
        <5> HIDE DEF L
        <5> QED BY <1>2, <1>3, <4>1, AppendProperties
      <4>4. \A i \in 1..(L - e) : Live(k)[i] = s[e + i]
        BY <1>2, <1>3, <4>1 DEF Drops
      <4>5. ASSUME NEW i \in 1..(L + 1 - e) PROVE rest[i] = kept[i]
        <5>1. CASE i = L + 1 - e
          BY <5>1, <4>1, <4>2, <4>3, <1>2, <1>6
        <5>2. CASE i # L + 1 - e
          <6>1. i \in 1..(L - e) /\ e + i \in 1..L
            BY <5>2, <4>1, <1>2
          <6> QED BY <6>1, <4>2, <4>3, <4>4, <1>6
        <5> QED BY <5>1, <5>2
      <4> HIDE DEF rest, kept, longer, L
      <4> QED BY <4>2, <4>3, <4>5, SeqEqual DEF rest, kept, longer
    <3>2. \A i \in 1..e : Append(s, now)[i] < now - Window
      BY <1>2, <1>3, <1>6 DEF Drops
    <3>3. e \in 0..(L + 1)
      BY <1>2, <1>3
    <3> QED BY <2>2, <1>5, <1>6, <3>1, <3>2, <3>3 DEF Drops
  <2> QED BY <2>1, <2>2
<1>9. InOrder'
  <2> SUFFICES ASSUME NEW j \in Key, NEW i \in 1..Len(accepted'[j])
               PROVE  /\ accepted'[j][i] <= now
                      /\ \A h \in i..Len(accepted'[j]) : accepted'[j][i] <= accepted'[j][h]
    BY <1>2 DEF InOrder
  <2>1. CASE j # k
    BY <2>1, <1>5 DEF IInv, InOrder
  <2>2. CASE j = k
    <3>1. \A h \in 1..L : s[h] <= now /\ \A g \in h..L : s[h] <= s[g]
      BY DEF IInv, InOrder, s
    <3> QED BY <2>2, <3>1, <1>2, <1>5, <1>6
  <2> QED BY <2>1, <2>2
<1>10. NothingBeforeLoad'
  BY <1>1 DEF NothingBeforeLoad
<1>11. WindowRespected'
  <2> SUFFICES ASSUME NEW j \in Key, NEW i \in 1..Len(accepted'[j]),
                      i + Cap(lims, j) <= Len(accepted'[j])
               PROVE  accepted'[j][i + Cap(lims, j)] > accepted'[j][i] + Window
    BY <1>1 DEF WindowRespected
  <2>1. Cap(lims, j) \in Nat
    BY <1>1, CapType
  <2>2. CASE limits = NotLoaded /\ j # k
    <3>1. accepted'[j] = <<>>
      BY <2>2, <1>5 DEF IInv, NothingBeforeLoad
    <3> QED BY <3>1
  <2>3. CASE limits # NotLoaded /\ j # k
    BY <2>3, <1>1, <1>5 DEF IInv, WindowRespected
  <2>4. CASE j = k
    <3> DEFINE c == Cap(lims, k)
    <3>1. c \in Nat /\ L - e < c /\ c > 0 /\ e \in Nat
      BY <2>1, <2>4, <1>2, <1>3, <1>4
    <3>2. i \in 1..(L + 1) /\ i + c <= L + 1
      BY <2>4, <1>5, <1>6
    <3>3. i \in 1..L /\ Append(s, now)[i] = s[i] /\ s[i] \in Nat
      <4>1. i \in 1..L
        BY <3>1, <3>2, <1>2
      <4> QED BY <4>1, <1>2, <1>6
    <3>4. CASE i + c = L + 1
      <4>1. i \in 1..e
        BY <3>1, <3>2, <3>4, <1>2
      <4>2. s[i] < now - Window
        BY <4>1, <1>3 DEF Drops
      <4>3. now > s[i] + Window
        BY <4>2, <3>3, <1>2
      <4> QED BY <4>3, <3>3, <3>4, <2>4, <1>5, <1>6
    <3>5. CASE i + c # L + 1
      <4>1. i + c \in 1..L /\ i + c <= L
        <5> HIDE DEF c, L
        <5> QED BY <3>1, <3>2, <3>5, <1>2
      <4>2. limits # NotLoaded
        BY <4>1, <1>2 DEF IInv, NothingBeforeLoad, s
      <4>3. s[i + c] > s[i] + Window
        BY <4>1, <4>2, <3>3, <1>1 DEF IInv, WindowRespected, s
      <4> QED BY <4>1, <4>3, <3>3, <2>4, <1>5, <1>6
    <3> QED BY <3>4, <3>5
  <2> QED BY <2>2, <2>3, <2>4
<1> QED BY <1>7, <1>8, <1>9, <1>10, <1>11 DEF IInv

LEMMA RefuseStep ==
  ASSUME IInv, NEW yaml \in Yamls, NEW k \in Key, Refuse(k, yaml)
  PROVE  IInv'
<1>1. /\ limits' \in Limits /\ limits' # NotLoaded
      /\ limits # NotLoaded => limits' = limits
  BY GetLimitsType DEF IInv, Refuse
<1>2. PICK e \in 0..Len(accepted[k]) :
        Drops(Live(k), accepted[k], e, now - Window) /\ Live(k) \in Seq(Nat)
  BY LiveIsRecent
<1>3. now' = now /\ accepted' = accepted /\ window' = [window EXCEPT ![k] = Live(k)]
  BY DEF Refuse
<1>4. TypeOK'
  BY <1>1, <1>2, <1>3 DEF IInv, TypeOK
<1>5. Forgets'
  <2>1. \A j \in Key : \E d \in 0..Len(accepted[j]) : Drops(window'[j], accepted[j], d, now - Window)
    BY <1>2, <1>3 DEF IInv, Forgets, TypeOK
  <2> QED BY <2>1, <1>3 DEF Forgets, Drops
<1>6. InOrder' /\ NothingBeforeLoad'
  BY <1>1, <1>3 DEF IInv, InOrder, NothingBeforeLoad
<1>7. WindowRespected'
  BY <1>1, <1>3 DEF IInv, WindowRespected, NothingBeforeLoad, Cap
<1> QED BY <1>4, <1>5, <1>6, <1>7 DEF IInv

LEMMA TickStep ==
  ASSUME IInv, Tick
  PROVE  IInv'
<1>1. now \in Nat /\ Window \in Nat /\ now' = now + 1 /\ UNCHANGED <<limits, window, accepted>>
  BY WindowAssumption DEF IInv, TypeOK, Tick
<1>2. TypeOK' /\ NothingBeforeLoad' /\ WindowRespected'
  BY <1>1 DEF IInv, TypeOK, NothingBeforeLoad, WindowRespected, Cap
<1>3. \A k \in Key : accepted[k] \in Seq(Nat)
  BY DEF IInv, TypeOK
<1>4. Forgets'
  <2> SUFFICES ASSUME NEW k \in Key
               PROVE  \E d \in 0..Len(accepted[k]) : Drops(window[k], accepted[k], d, now' - Window)
    BY <1>1 DEF Forgets, Drops
  <2>1. PICK d \in 0..Len(accepted[k]) : Drops(window[k], accepted[k], d, now - Window)
    BY DEF IInv, Forgets
  <2>2. \A i \in 1..d : accepted[k][i] \in Nat
    BY <1>3
  <2>3. Drops(window[k], accepted[k], d, now' - Window)
    BY <2>1, <2>2, <1>1 DEF Drops
  <2> QED BY <2>3
<1>5. InOrder'
  <2> SUFFICES ASSUME NEW k \in Key, NEW i \in 1..Len(accepted[k])
               PROVE  accepted[k][i] <= now + 1
    BY <1>1 DEF IInv, InOrder
  <2>1. accepted[k][i] \in Nat /\ accepted[k][i] <= now
    BY <1>3 DEF IInv, InOrder
  <2> QED BY <2>1, <1>1
<1> QED BY <1>2, <1>4, <1>5 DEF IInv

LEMMA RestartStep ==
  ASSUME IInv, Restart
  PROVE  IInv'
<1>1. /\ now' = now /\ limits' = NotLoaded
      /\ \A k \in Key : window'[k] = <<>> /\ accepted'[k] = <<>>
  BY DEF Restart
<1>2. TypeOK'
  BY DEF IInv, TypeOK, Restart
<1>3. Forgets'
  <2> SUFFICES ASSUME NEW k \in Key
               PROVE  \E d \in 0..Len(accepted'[k]) : Drops(window'[k], accepted'[k], d, now' - Window)
    BY DEF Forgets, Drops
  <2>1. Drops(<<>>, <<>>, 0, now' - Window)
    BY DEF Drops
  <2>2. window'[k] = <<>> /\ accepted'[k] = <<>> /\ 0 \in 0..Len(<<>>)
    BY <1>1
  <2> QED BY <2>1, <2>2
<1> QED BY <1>1, <1>2, <1>3 DEF IInv, InOrder, NothingBeforeLoad, WindowRespected

LEMMA NextIInv == IInv /\ [Next]_limiterVars => IInv'
<1> SUFFICES ASSUME IInv, [Next]_limiterVars PROVE IInv'
  OBVIOUS
<1>1. CASE UNCHANGED limiterVars
  BY <1>1 DEF limiterVars, IInv, TypeOK, Forgets, Drops, InOrder, NothingBeforeLoad,
              WindowRespected, Cap
<1>2. CASE Next
  BY <1>2, LoadStep, AcceptStep, RefuseStep, TickStep, RestartStep DEF Next
<1> QED BY <1>1, <1>2

(* The invariant of the proof, with the type invariant in it.              *)
THEOREM LimiterInvariant == Spec => []IInv
  BY InitIInv, NextIInv, PTL DEF Spec

(* Whatever the limits, the window and the traffic: limit + 1 calls of a   *)
(* sender accepted by one process span more than the window (_check).      *)
THEOREM WindowIsRespected == Spec => []WindowRespected
<1>1. IInv => WindowRespected
  BY DEF IInv
<1> QED BY <1>1, LimiterInvariant, PTL

(* The limiter refuses no call that the sliding window would let through:  *)
(* what _gc forgets is never needed, what it keeps is never too much.      *)
THEOREM RefusalIsExact == Spec => []RefusesExactlyWhenFull
<1>1. ASSUME IInv PROVE RefusesExactlyWhenFull
  <2> SUFFICES ASSUME limits # NotLoaded, NEW k \in Key
               PROVE  ~Admits(limits, k) <=> Full(accepted[k], Cap(limits, k))
    BY DEF RefusesExactlyWhenFull
  <2> DEFINE s == accepted[k]
             n == Cap(limits, k)
             L == Len(s)
  <2>1. n \in Nat /\ s \in Seq(Nat) /\ L \in Nat /\ now \in Nat /\ Window \in Nat
    BY <1>1, CapType, WindowAssumption DEF IInv, TypeOK
  <2>2. PICK e \in 0..L : /\ Drops(Live(k), s, e, now - Window)
                          /\ e < L => s[e + 1] >= now - Window
                          /\ Len(Live(k)) = L - e
    BY <1>1, LiveIsRecent
  <2>3. Admits(limits, k) <=> L - e < n
    BY <2>2 DEF Admits
  <2>4. \A i \in 1..L : s[i] \in Nat /\ \A j \in i..L : s[i] <= s[j]
    BY <1>1, <2>1 DEF IInv, InOrder
  <2> HIDE DEF n, s
  <2>5. CASE L - e < n
    <3>1. CASE L < n
      BY <3>1, <2>1, <2>3, <2>5 DEF Full, s, n
    <3>2. CASE L >= n
      <4>1. n > 0 /\ L - n + 1 \in 1..e /\ L - n + 1 \in 1..L
        BY <3>2, <2>5, <2>1, <2>2
      <4>2. s[L - n + 1] < now - Window
        BY <4>1, <2>2 DEF Drops
      <4>3. ~(s[L - n + 1] >= now - Window)
        BY <4>1, <4>2, <2>1, <2>4
      <4>4. ~Full(s, n)
        BY <4>1, <4>3 DEF Full
      <4> QED BY <4>4, <2>3, <2>5 DEF s, n
    <3> QED BY <3>1, <3>2, <2>1
  <2>6. CASE ~(L - e < n)
    <3>1. L >= n /\ e <= L - n
      BY <2>6, <2>1, <2>2
    <3>2. ASSUME n > 0 PROVE s[L - n + 1] >= now - Window
      <4>1. e < L /\ e + 1 \in 1..L /\ L - n + 1 \in (e + 1)..L
        BY <3>1, <3>2, <2>1, <2>2
      <4>2. s[e + 1] >= now - Window /\ s[e + 1] <= s[L - n + 1]
        BY <4>1, <2>2, <2>4
      <4>3. s[e + 1] \in Nat /\ s[L - n + 1] \in Nat
        BY <4>1, <2>1, <2>4
      <4> QED BY <4>2, <4>3, <2>1
    <3>3. Full(s, n)
      BY <3>1, <3>2 DEF Full
    <3> QED BY <3>3, <2>3, <2>6 DEF s, n
  <2> QED BY <2>5, <2>6
<1> QED BY <1>1, LimiterInvariant, PTL
=============================================================================
