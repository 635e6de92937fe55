------------------------ MODULE ChannelGatewayProofs ------------------------
(***************************************************************************)
(* The gateway uses its limiter as RateLimiter says it may, audits every   *)
(* envelope it judges, answers no more than the log explains, and judges   *)
(* on the owners of the moment: for any channels, senders, adapters,       *)
(* number of connections and requests, and contents of channels.yaml.      *)
(*                                                                         *)
(* A reply that left was owed by a connection or a request, and each that  *)
(* is owed has its row (Counted); the rows of a sender are among the calls *)
(* that the limiter accepted, in their order and at their times (Embedded),*)
(* so that what RateLimiterProofs shows of the calls holds of the rows.    *)
(***************************************************************************)
EXTENDS ChannelGateway, NatLemmas, TLAPS

LimiterProofs == INSTANCE RateLimiterProofs WITH Yamls <- {y.limits : y \in ChannelYamls}

(* What the steps below need of the state: the file is one of those that   *)
(* channels.yaml may be, and the log counts the envelopes.                 *)
Audited ==
  /\ yaml \in ChannelYamls
  /\ now \in Nat
  /\ log \in Seq(Event)
  /\ messages \in Nat /\ unaudited \in Nat
  /\ EveryMessageAudited

LEMMA InitAudited == Init => Audited
BY DEF Init, Audited, EveryMessageAudited, Limiter!Init, Audit!Init

(* One audit write, whether it succeeds or raises.                         *)
LEMMA AppendAuditKeepsCount ==
  ASSUME Audited, NEW e \in Event, AppendAudit(e)
  PROVE  log' \in Seq(Event) /\ messages' \in Nat /\ unaudited' \in Nat /\ EveryMessageAudited'
<1>1. CASE Audit!Record(e) /\ UNCHANGED unaudited
  <2>1. log' = Append(log, e)
    BY <1>1 DEF Audit!Record
  <2>2. log' \in Seq(Event) /\ Len(log') = Len(log) + 1 /\ Len(log) \in Nat
    BY <2>1 DEF Audited
  <2>3. messages' = messages + 1
    BY DEF AppendAudit
  <2>4. QED
    BY <1>1, <2>2, <2>3 DEF Audited, EveryMessageAudited
<1>2. CASE UNCHANGED log /\ unaudited' = unaudited + 1
  <2>1. Len(log) \in Nat
    BY DEF Audited
  <2>2. messages' = messages + 1
    BY DEF AppendAudit
  <2>3. QED
    BY <1>2, <2>1, <2>2 DEF Audited, EveryMessageAudited
<1>3. QED
  BY <1>1, <1>2 DEF AppendAudit

LEMMA EventIsEvent ==
  ASSUME Audited, NEW m \in Envelope,
         NEW route \in {"ws", "webhook"}, NEW type \in EventTypes, NEW why \in Reasons
  PROVE  EventOf(route, type, m, why) \in Event
BY DEF Audited, EventOf, Event, Envelope, Sender

LEMMA RefusalIsReason ==
  ASSUME NEW m, NEW ows PROVE Refusal(m, ows) \in Reasons
BY DEF Refusal, Reasons

(* The judgement writes one row and makes one call of the limiter.         *)
LEMMA JudgeKeeps ==
  ASSUME Audited, NEW m \in Envelope, NEW ows, NEW route \in {"ws", "webhook"},
         Judge(m, ows, route)
  PROVE  /\ log' \in Seq(Event) /\ messages' \in Nat /\ unaudited' \in Nat
         /\ EveryMessageAudited'
         /\ now' = now
         /\ Limiter!Next
<1> DEFINE why == Refusal(m, ows)
           Y == {y.limits : y \in ChannelYamls}
           k == MessageKey(m)
<1>1. why \in Reasons /\ "" \in Reasons
  BY RefusalIsReason DEF Reasons
<1>2. yaml.limits \in Y /\ k \in Limiter!Key
  BY DEF Audited, MessageKey, Envelope, Limiter!Key, Kinds
<1>3. PICK type \in EventTypes, reason \in Reasons :
        AppendAudit(EventOf(route, type, m, reason))
  BY <1>1 DEF Judge, EventTypes
<1>4. log' \in Seq(Event) /\ messages' \in Nat /\ unaudited' \in Nat /\ EveryMessageAudited'
  BY <1>3, EventIsEvent, AppendAuditKeepsCount
<1>5. \/ Limiter!Load(yaml.limits)
      \/ Limiter!Refuse(k, yaml.limits)
      \/ Limiter!Accept(k, yaml.limits)
  BY DEF Judge
<1>6. now' = now
  BY <1>5 DEF Limiter!Load, Limiter!Refuse, Limiter!Accept
<1>7. Limiter!Next
  BY <1>2, <1>5 DEF Limiter!Next
<1>8. QED
  BY <1>4, <1>6, <1>7

(* What a step does to the part of the state that the two theorems are     *)
(* about, whichever action takes it.                                       *)
StepKeeps == Audited' /\ [Limiter!Next]_limiter

LEMMA ServeKeeps == ASSUME Audited, Serve PROVE StepKeeps
<1> USE DEF StepKeeps
<1>1. ASSUME NEW c \in Conns, NEW ch \in Adapters, Connect(c, ch) PROVE StepKeeps
  <2>1. Limiter!Load(yaml.limits) /\ UNCHANGED <<log, store, messages, unaudited>>
    BY <1>1 DEF Connect
  <2>2. Limiter!Next
    BY <2>1 DEF Limiter!Next, Audited
  <2>3. QED
    BY <2>1, <2>2 DEF Limiter!Load, Audited, EveryMessageAudited, store
<1>2. ASSUME NEW c \in Conns, NEW m \in Envelope, Receive(c, m) PROVE StepKeeps
  <2>1. UNCHANGED store
    BY <1>2 DEF Receive
  <2>2. CASE AppendAudit(EventOf("ws", "channel_spoof_attempt", m, "")) /\ UNCHANGED limiter
    <3>1. EventOf("ws", "channel_spoof_attempt", m, "") \in Event
      BY EventIsEvent DEF EventTypes, Reasons
    <3>2. log' \in Seq(Event) /\ messages' \in Nat /\ unaudited' \in Nat /\ EveryMessageAudited'
      BY <2>2, <3>1, AppendAuditKeepsCount
    <3>3. QED
      BY <2>1, <2>2, <3>2 DEF Audited, limiter, store
  <2>3. CASE Judge(m, conns[c].owners, "ws")
    BY <2>1, <2>3, JudgeKeeps DEF Audited, store
  <2>4. QED
    BY <1>2, <2>2, <2>3 DEF Receive
<1>3. ASSUME NEW h \in Hooks, NEW m \in Envelope, Process(h, m) PROVE StepKeeps
  <2>1. UNCHANGED store /\ Judge(m, OwnersOf(m.channel), "webhook")
    BY <1>3 DEF Process
  <2>2. QED
    BY <2>1, JudgeKeeps DEF Audited, store
<1>4. CASE UNCHANGED <<limiter, log, store, messages, unaudited>>
  BY <1>4 DEF Audited, EveryMessageAudited, limiter, store
<1>5. ASSUME NEW c \in Conns, Send(c) \/ Disconnect(c) PROVE StepKeeps
  BY <1>4, <1>5 DEF Send, Disconnect
<1>6. ASSUME NEW h \in Hooks,
             NoMessage(h) \/ Answer(h) \/ \E ch \in Adapters : Request(h, ch)
      PROVE StepKeeps
  BY <1>4, <1>6 DEF NoMessage, Answer, Request
<1>7. QED
  BY <1>1, <1>2, <1>3, <1>5, <1>6 DEF Serve

LEMMA NextKeeps == ASSUME Audited, [Next]_vars PROVE StepKeeps
<1> USE DEF StepKeeps
<1>1. CASE Serve
  BY <1>1, ServeKeeps
<1>2. CASE \E s \in Sender : ChangeOwner(s)
  BY <1>2 DEF ChangeOwner, Audited, EveryMessageAudited, limiter
<1>3. CASE EditYaml
  BY <1>3 DEF EditYaml, Audited, EveryMessageAudited, limiter
<1>4. CASE Tick
  BY <1>4 DEF Tick, Limiter!Tick, Limiter!Next, Audited, EveryMessageAudited, store
<1>5. CASE Restart
  BY <1>5 DEF Restart, Limiter!Restart, Limiter!Next, Audited, EveryMessageAudited, store
<1>6. CASE UNCHANGED vars
  BY <1>6 DEF vars, Audited, EveryMessageAudited, limiter, store
<1>7. QED
  BY <1>1, <1>2, <1>3, <1>4, <1>5, <1>6 DEF Next

LEMMA AuditedInvariant == Spec => []Audited
<1>1. Audited /\ [Next]_vars => Audited'
  BY NextKeeps DEF StepKeeps
<1>2. QED
  BY InitAudited, <1>1, PTL DEF Spec

(* Each envelope that reached the judgement has left one audit row, or its *)
(* write failed: at every moment of every run of the channel routes.       *)
THEOREM EveryEnvelopeIsAudited == Spec => []EveryMessageAudited
<1>1. Audited => EveryMessageAudited
  BY DEF Audited
<1>2. QED
  BY AuditedInvariant, <1>1, PTL

(* The gateway implements the limiter specified by itself: whatever the    *)
(* routes, the operator and the restarts do, the limiter inside makes only *)
(* the steps of RateLimiter, so its theorems hold of the gateway.          *)
THEOREM GatewayImplementsLimiter == Spec => LimiterSpec
<1>1. Init => Limiter!Init
  BY DEF Init
<1>2. Audited /\ [Next]_vars => [Limiter!Next]_limiter
  BY NextKeeps DEF StepKeeps
<1>3. Audited /\ [Next]_vars => [Limiter!Next]_(Limiter!limiterVars)
  BY <1>2 DEF Limiter!limiterVars, limiter
<1>4. QED
  BY AuditedInvariant, <1>1, <1>3, PTL DEF Spec, LimiterSpec, Limiter!Spec

(* What RateLimiterProofs shows of the limiter holds of the one inside.    *)
LEMMA LimiterInside == Spec => []LimiterProofs!IInv
<1>1. Limiter!Init => LimiterProofs!Init
  BY DEF Limiter!Init, LimiterProofs!Init, Limiter!Key, LimiterProofs!Key
<1>2. [Limiter!Next]_(Limiter!limiterVars) => [LimiterProofs!Next]_(LimiterProofs!limiterVars)
  <2>1. Limiter!Key = LimiterProofs!Key
    BY DEF Limiter!Key, LimiterProofs!Key
  <2>2. \A y : Limiter!GetLimits(y) = LimiterProofs!GetLimits(y)
    BY DEF Limiter!GetLimits, LimiterProofs!GetLimits, Limiter!ConfigureFromYaml, LimiterProofs!ConfigureFromYaml
  <2>3. \A k : Limiter!Live(k) = LimiterProofs!Live(k)
    BY DEF Limiter!Live, LimiterProofs!Live, Limiter!Gc, LimiterProofs!Gc
  <2>4. \A k, l : Limiter!Admits(l, k) = LimiterProofs!Admits(l, k)
    BY <2>3 DEF Limiter!Admits, LimiterProofs!Admits, Limiter!Cap, LimiterProofs!Cap
  <2>5. \A y : Limiter!Load(y) => LimiterProofs!Load(y)
    BY <2>2 DEF Limiter!Load, LimiterProofs!Load
  <2>6. \A y, k : Limiter!Accept(k, y) => LimiterProofs!Accept(k, y)
    BY <2>2, <2>3, <2>4 DEF Limiter!Accept, LimiterProofs!Accept
  <2>7. \A y, k : Limiter!Refuse(k, y) => LimiterProofs!Refuse(k, y)
    BY <2>2, <2>3, <2>4 DEF Limiter!Refuse, LimiterProofs!Refuse
  <2>8. Limiter!Tick => LimiterProofs!Tick
    BY DEF Limiter!Tick, LimiterProofs!Tick
  <2>9. Limiter!Restart => LimiterProofs!Restart
    BY <2>1 DEF Limiter!Restart, LimiterProofs!Restart
  <2> QED
  BY <2>1, <2>5, <2>6, <2>7, <2>8, <2>9 DEF Limiter!Next, LimiterProofs!Next, Limiter!limiterVars, LimiterProofs!limiterVars
<1>4. Window \in Nat
  BY GatewayAssumption
<1>5. \A yaml_1 \in {y.limits : y \in ChannelYamls} : LimiterProofs!ConfigureFromYaml(yaml_1) \in LimiterProofs!Limits
  BY GatewayAssumption DEF LimiterProofs!Limits, Limiter!Limits, LimiterProofs!ConfigureFromYaml, Limiter!ConfigureFromYaml
<1>6. NotLoaded \notin LimiterProofs!Limits
  BY GatewayAssumption DEF LimiterProofs!Limits, Limiter!Limits
<1>7. LimiterProofs!Init => LimiterProofs!IInv
  BY <1>4, <1>5, <1>6, LimiterProofs!InitIInv
<1>8. LimiterProofs!IInv /\ [LimiterProofs!Next]_(LimiterProofs!limiterVars) => LimiterProofs!IInv'
  BY <1>4, <1>5, <1>6, LimiterProofs!NextIInv
<1> QED BY <1>1, <1>2, <1>7, <1>8, GatewayImplementsLimiter, PTL DEF LimiterSpec, Limiter!Spec
-----------------------------------------------------------------------------
KeyOf(s) == [channel |-> s.channel, user |-> s.user, kind |-> "messages"]

(* The rows of the echoed messages of s since the start are among the      *)
(* calls that the limiter accepted, in the same order and at their times.  *)
Placed(s, pos) ==
  /\ \A i \in InboundRows(s, boot + 1) : accepted[KeyOf(s)][pos[i]] = log[i].at
  /\ \A i, j \in InboundRows(s, boot + 1) : i < j => pos[i] < pos[j]

Follows(s) ==
  \E pos \in [InboundRows(s, boot + 1) -> 1..Len(accepted[KeyOf(s)])] : Placed(s, pos)

Embedded == boot <= Len(log) /\ \A s \in Sender : Follows(s)

(* A row more is one more of its sender, if it is that of an echo.         *)
LEMMA RowsGrow ==
  ASSUME log \in Seq(Event), NEW e \in Event, log' = Append(log, e),
         NEW s \in Sender, NEW from \in 1..(Len(log) + 1)
  PROVE  /\ InboundRows(s, from)' =
              IF e.type = "inbound_message" /\ e.sender = s
              THEN InboundRows(s, from) \union {Len(log) + 1} ELSE InboundRows(s, from)
         /\ Len(log) + 1 \notin InboundRows(s, from)
         /\ \A i \in InboundRows(s, from) : log'[i] = log[i] /\ i \in from..Len(log)
<1>1. /\ Len(log) \in Nat /\ Len(log') = Len(log) + 1 /\ log'[Len(log) + 1] = e
      /\ \A i \in 1..Len(log) : log'[i] = log[i]
  BY Appended
<1>2. from..Len(log') = (from..Len(log)) \union {Len(log) + 1} /\ Len(log) + 1 \notin from..Len(log)
      /\ \A i \in from..Len(log) : i \in 1..Len(log)
  BY <1>1
<1> QED BY <1>1, <1>2 DEF InboundRows

(* A step that accepts at most a call of a sender, and writes at most a    *)
(* row, that of an echo only for a call that it accepts.                   *)
Grows ==
  /\ boot' = boot
  /\ \A s \in Sender : \/ accepted'[KeyOf(s)] = accepted[KeyOf(s)]
                       \/ accepted'[KeyOf(s)] = Append(accepted[KeyOf(s)], now)
  /\ \/ log' = log
     \/ \E e \in Event :
          /\ log' = Append(log, e) /\ e.at = now
          /\ e.type = "inbound_message" =>
               accepted'[KeyOf(e.sender)] = Append(accepted[KeyOf(e.sender)], now)

LEMMA GrowsKeeps ==
  ASSUME Embedded, Grows, log \in Seq(Event), boot \in Nat, now \in Nat,
         \A s \in Sender : accepted[KeyOf(s)] \in Seq(Nat)
  PROVE  Embedded'
<1>1. Len(log) \in Nat /\ Len(log') \in Nat /\ Len(log) <= Len(log')
  BY Appended DEF Grows
<1>2. boot' <= Len(log')
  BY <1>1 DEF Grows, Embedded
<1>3. ASSUME NEW s \in Sender
      PROVE  Follows(s)'
  <2>1. PICK pos \in [InboundRows(s, boot + 1) -> 1..Len(accepted[KeyOf(s)])] : Placed(s, pos)
    BY DEF Embedded, Follows
  <2>2. PICK from : from = boot + 1
    OBVIOUS
  <2>3. from \in 1..(Len(log) + 1) /\ boot' + 1 = from
    BY <2>2, <1>1 DEF Embedded, Grows
  <2> DEFINE k == KeyOf(s)
             rows == InboundRows(s, from)
  <2>4. /\ accepted[k] \in Seq(Nat) /\ Len(accepted[k]) \in Nat
        /\ Len(accepted[k]) <= Len(accepted'[k]) /\ Len(accepted'[k]) \in Nat
        /\ \A p \in 1..Len(accepted[k]) : accepted'[k][p] = accepted[k][p]
    <3>1. accepted[k] \in Seq(Nat)
      OBVIOUS
    <3>2. accepted'[k] = accepted[k] \/ accepted'[k] = Append(accepted[k], now)
      BY DEF Grows
    <3> HIDE DEF k
    <3>3. CASE accepted'[k] = accepted[k]
      <4>1. Len(accepted[k]) \in Nat
        BY <3>1
      <4> QED BY <3>1, <3>3, <4>1
    <3>4. CASE accepted'[k] = Append(accepted[k], now)
      <4>1. /\ Len(accepted[k]) \in Nat /\ Len(Append(accepted[k], now)) = Len(accepted[k]) + 1
            /\ \A p \in 1..Len(accepted[k]) : Append(accepted[k], now)[p] = accepted[k][p]
        BY <3>1, Appended
      <4> QED BY <3>1, <3>4, <4>1
    <3> QED BY <3>2, <3>3, <3>4
  <2>5. /\ pos \in [rows -> 1..Len(accepted[k])]
        /\ \A i \in rows : accepted[k][pos[i]] = log[i].at
        /\ \A i, j \in rows : i < j => pos[i] < pos[j]
    BY <2>1, <2>2 DEF Placed
  <2>9. /\ \A i \in rows : pos[i] \in 1..Len(accepted[k]) /\ accepted'[k][pos[i]] = log[i].at
        /\ pos \in [rows -> 1..Len(accepted'[k])]
    <3>1. \A i \in rows : pos[i] \in 1..Len(accepted[k])
      BY <2>5
    <3>2. 1..Len(accepted[k]) \subseteq 1..Len(accepted'[k])
      BY <2>4
    <3>3. pos \in [rows -> 1..Len(accepted'[k])]
      BY <3>2, <2>5
    <3> QED BY <3>1, <3>3, <2>4, <2>5
  <2>6. ASSUME NEW f \in [InboundRows(s, from)' -> 1..Len(accepted'[k])],
               \A i \in InboundRows(s, from)' : accepted'[k][f[i]] = log'[i].at,
               \A i, j \in InboundRows(s, from)' : i < j => f[i] < f[j]
        PROVE  Follows(s)'
    <3>1. InboundRows(s, from)' = InboundRows(s, boot + 1)'
      BY <2>3 DEF InboundRows
    <3> QED BY <2>6, <3>1 DEF Follows, Placed
  <2>7. CASE log' = log
    <3>1. InboundRows(s, from)' = rows
      BY <2>7 DEF InboundRows
    <3> HIDE DEF rows, k
    <3> QED BY <2>9, <2>5, <2>6, <2>7, <3>1
  <2>8. ASSUME NEW e \in Event, log' = Append(log, e), e.at = now,
               e.type = "inbound_message" =>
                 accepted'[KeyOf(e.sender)] = Append(accepted[KeyOf(e.sender)], now)
        PROVE  Follows(s)'
    <3>1. /\ InboundRows(s, from)' =
               IF e.type = "inbound_message" /\ e.sender = s
               THEN rows \union {Len(log) + 1} ELSE rows
          /\ Len(log) + 1 \notin rows
          /\ \A i \in rows : log'[i] = log[i] /\ i \in from..Len(log)
      BY <2>3, <2>8, RowsGrow
    <3>2. CASE e.type = "inbound_message" /\ e.sender = s
      <4> DEFINE last == Len(accepted[k]) + 1
                 n == Len(log) + 1
                 f == [i \in rows \union {n} |-> IF i = n THEN last ELSE pos[i]]
      <4>1. /\ Len(accepted'[k]) = last /\ accepted'[k][last] = now
        BY <3>2, <2>4, <2>8, Appended
      <4>2. InboundRows(s, from)' = rows \union {n} /\ log'[n] = e
        BY <3>1, <3>2, <2>8, Appended
      <4>3. f \in [rows \union {n} -> 1..Len(accepted'[k])]
        BY <4>1, <2>4, <2>5
      <4>4. \A i \in rows : f[i] = pos[i] /\ f[i] \in 1..Len(accepted[k]) /\ i < n /\ i \in Nat
        BY <3>1, <2>5, <1>1, <2>3
      <4>5. f[n] = last
        OBVIOUS
      <4>6. \A i \in rows \union {n} : accepted'[k][f[i]] = log'[i].at
        BY <4>1, <4>2, <4>4, <4>5, <2>4, <2>5, <2>8, <3>1
      <4>7. \A i, j \in rows \union {n} : i < j => f[i] < f[j]
        BY <4>4, <4>5, <2>4, <2>5, <1>1
      <4> HIDE DEF f, rows, n, k
      <4> QED BY <4>2, <4>3, <4>6, <4>7, <2>6
    <3>3. CASE ~(e.type = "inbound_message" /\ e.sender = s)
      <4>1. InboundRows(s, from)' = rows
        BY <3>1, <3>3
      <4> HIDE DEF rows, k
      <4> QED BY <4>1, <2>9, <2>5, <2>6, <3>1
    <3> QED BY <3>2, <3>3
  <2> QED BY <2>7, <2>8 DEF Grows
<1> QED BY <1>2, <1>3 DEF Embedded

(* What the limiter knows of the calls of s.                               *)
LEMMA LimiterFacts ==
  ASSUME LimiterProofs!IInv, NEW s \in Sender
  PROVE  /\ accepted[KeyOf(s)] \in Seq(Nat)
         /\ \A p, q \in 1..Len(accepted[KeyOf(s)]) :
              p <= q => accepted[KeyOf(s)][p] <= accepted[KeyOf(s)][q]
         /\ limits # NotLoaded =>
              /\ limits[s.channel]["messages"] \in Nat
              /\ \A p \in 1..Len(accepted[KeyOf(s)]) :
                   p + limits[s.channel]["messages"] <= Len(accepted[KeyOf(s)]) =>
                     accepted[KeyOf(s)][p + limits[s.channel]["messages"]]
                       > accepted[KeyOf(s)][p] + Window
<1> DEFINE k == KeyOf(s)
<1>1. k \in LimiterProofs!Key /\ k.channel = s.channel /\ k.kind = "messages" /\ s.channel \in Channels
  BY DEF KeyOf, Sender, LimiterProofs!Key, Kinds
<1>2. accepted[k] \in Seq(Nat)
  BY <1>1 DEF LimiterProofs!IInv, LimiterProofs!TypeOK
<1>3. ASSUME NEW p \in 1..Len(accepted[k]), NEW q \in 1..Len(accepted[k]), p <= q
      PROVE  accepted[k][p] <= accepted[k][q]
  <2>1. q \in p..Len(accepted[k])
    BY <1>2, <1>3
  <2> QED BY <2>1, <1>1 DEF LimiterProofs!IInv, LimiterProofs!InOrder
<1>4. ASSUME limits # NotLoaded PROVE limits[s.channel]["messages"] \in Nat
  <2>1. limits \in [Channels -> [Kinds -> Nat]]
    BY <1>4 DEF LimiterProofs!IInv, LimiterProofs!TypeOK, LimiterProofs!Limits
  <2> QED BY <2>1, <1>1 DEF Kinds
<1>5. ASSUME limits # NotLoaded, NEW p \in 1..Len(accepted[k]),
             p + limits[s.channel]["messages"] <= Len(accepted[k])
      PROVE  accepted[k][p + limits[s.channel]["messages"]] > accepted[k][p] + Window
  <2>1. LimiterProofs!Cap(limits, k) = limits[s.channel]["messages"]
    BY <1>1 DEF LimiterProofs!Cap
  <2> HIDE DEF k
  <2> QED BY <2>1, <1>1, <1>5 DEF LimiterProofs!IInv, LimiterProofs!WindowRespected
<1> HIDE DEF k
<1>6. k = KeyOf(s)
  BY DEF k
<1> QED BY <1>2, <1>3, <1>4, <1>5, <1>6

(* Rows that lie in the window of an accepted call are calls that do, one  *)
(* each; so they are no more than it lets through.                         *)
LEMMA RowsWithinLimit ==
  ASSUME Embedded, LimiterProofs!IInv, log \in Seq(Event), boot \in Nat
  PROVE  InboundWithinLimit
<1> SUFFICES ASSUME limits # NotLoaded, NEW s \in Sender,
                    NEW i \in InboundRows(s, boot + 1), NEW j \in InboundRows(s, boot + 1),
                    log[j].at <= log[i].at + Window
             PROVE  Cardinality(InboundRows(s, boot + 1) \intersect i..j)
                      <= limits[s.channel]["messages"]
  BY DEF InboundWithinLimit
<1> DEFINE rows == InboundRows(s, boot + 1)
           acc == accepted[KeyOf(s)]
           cap == limits[s.channel]["messages"]
           between == rows \intersect i..j
<1>1. PICK pos \in [rows -> 1..Len(acc)] : Placed(s, pos)
  BY DEF Embedded, Follows
<1>2. /\ acc \in Seq(Nat) /\ cap \in Nat
      /\ \A p, q \in 1..Len(acc) : p <= q => acc[p] <= acc[q]
      /\ \A p \in 1..Len(acc) : p + cap <= Len(acc) => acc[p + cap] > acc[p] + Window
  BY LimiterFacts
<1>3. /\ Len(acc) \in Nat /\ rows \subseteq Nat
      /\ \A r \in rows : pos[r] \in 1..Len(acc) /\ acc[pos[r]] = log[r].at
      /\ \A r, t \in rows : r < t => pos[r] < pos[t]
  <2>1. rows \subseteq Nat
    BY Appended DEF InboundRows
  <2> QED BY <1>1, <1>2, <2>1 DEF Placed
<1>4. i \in rows /\ j \in rows /\ between \subseteq rows /\ \A r \in between : i <= r /\ r <= j
  OBVIOUS
<1> HIDE DEF rows, acc, cap
<1>5. pos[i] \in Nat /\ pos[j] \in Nat
  BY <1>3, <1>4
<1>6. \A r \in between : pos[r] \in pos[i]..pos[j]
  <2> TAKE r \in between
  <2>1. i = r \/ i < r
    BY <1>3, <1>4
  <2>2. r = j \/ r < j
    BY <1>3, <1>4
  <2>3. pos[i] <= pos[r] /\ pos[r] \in Nat
    BY <2>1, <1>3, <1>4, <1>5
  <2>4. pos[r] <= pos[j]
    BY <2>2, <2>3, <1>3, <1>4, <1>5
  <2> QED BY <2>3, <2>4, <1>5
<1>7. IsFiniteSet(pos[i]..pos[j]) /\ Cardinality(pos[i]..pos[j]) =
        IF pos[i] > pos[j] THEN 0 ELSE pos[j] - pos[i] + 1
  BY <1>5, FS_Interval
<1>8. Cardinality(between) <= Cardinality(pos[i]..pos[j]) /\ Cardinality(between) \in Nat
  <2> DEFINE f == [r \in between |-> pos[r]]
  <2>1. f \in Injection(between, pos[i]..pos[j])
    <3>1. f \in [between -> pos[i]..pos[j]]
      BY <1>6
    <3>2. ASSUME NEW r \in between, NEW t \in between, r # t PROVE f[r] # f[t]
      <4>1. r < t \/ t < r
        BY <3>2, <1>3, <1>4
      <4>2. pos[r] # pos[t]
        BY <4>1, <1>3, <1>4
      <4> QED BY <4>2
    <3> QED BY <3>1, <3>2 DEF Injection, IsInjective
  <2> HIDE DEF f
  <2>2. IsFiniteSet(between) /\ Cardinality(between) <= Cardinality(pos[i]..pos[j])
    BY <2>1, <1>7, FS_Injection
  <2> QED BY <2>2, FS_CardinalityType
<1>9. ~ pos[i] + cap <= pos[j]
  <2> SUFFICES ASSUME pos[i] + cap <= pos[j] PROVE FALSE
    OBVIOUS
  <2>1. pos[i] + cap \in 1..Len(acc) /\ pos[j] \in 1..Len(acc) /\ pos[i] \in 1..Len(acc)
    BY <1>2, <1>3, <1>4
  <2>2. acc[pos[i] + cap] <= acc[pos[j]] /\ acc[pos[i] + cap] > acc[pos[i]] + Window
    <3>1. PICK p, q : p = pos[i] /\ q = pos[i] + cap
      OBVIOUS
    <3>2. /\ p \in 1..Len(acc) /\ q \in 1..Len(acc) /\ q <= pos[j]
          /\ p + cap = q /\ p + cap <= Len(acc)
      BY <2>1, <3>1, <1>3
    <3>3. acc[p + cap] > acc[p] + Window
      BY <1>2, <3>2
    <3>4. acc[q] <= acc[pos[j]]
      BY <1>2, <2>1, <3>2
    <3> QED BY <3>1, <3>3, <3>4
  <2>3. acc[pos[i]] = log[i].at /\ acc[pos[j]] = log[j].at
    BY <1>3, <1>4
  <2>4. acc[pos[i]] \in Nat /\ acc[pos[j]] \in Nat /\ acc[pos[i] + cap] \in Nat
    <3>1. \A p \in 1..Len(acc) : acc[p] \in Nat
      BY <1>2
    <3> QED BY <2>1, <3>1
  <2>5. Window \in Nat
    BY GatewayAssumption
  <2> QED BY <2>2, <2>3, <2>4, <2>5
<1>10. Cardinality(between) <= cap
  <2> HIDE DEF between
  <2> QED BY <1>5, <1>7, <1>8, <1>9, <1>2
<1> QED BY <1>10 DEF rows, cap

(* What the judgement of m writes and counts.                              *)
SenderOf(m) == [channel |-> m.channel, user |-> m.user]

Judged(m, ows, route, e) ==
  /\ log' = Append(log, e) /\ e.at = now /\ e.sender = SenderOf(m) /\ e.route = route
  /\ e.type = "inbound_message" => Limiter!Accept(MessageKey(m), yaml.limits)
  /\ e.reason # "disabled" =>
       (e.reason = "notAllowed" <=>
          m.user \notin ows /\ m.user \notin Entry(m.channel).allowed_senders)

LEMMA JudgeDoes ==
  ASSUME Audited, NEW m \in Envelope, NEW ows, NEW route \in {"ws", "webhook"},
         Judge(m, ows, route)
  PROVE  log' = log \/ \E e \in Event : Judged(m, ows, route, e)
<1> DEFINE why == Refusal(m, ows)
<1>1. why \in Reasons /\ "" \in Reasons
  BY RefusalIsReason DEF Reasons
<1>2. /\ why # "disabled" =>
           (why = "notAllowed" <=>
              m.user \notin ows /\ m.user \notin Entry(m.channel).allowed_senders)
  BY DEF Refusal
<1>3. ASSUME NEW type \in EventTypes, NEW reason \in Reasons,
             AppendAudit(EventOf(route, type, m, reason)),
             type = "inbound_message" => Limiter!Accept(MessageKey(m), yaml.limits),
             reason = why
      PROVE  log' = log \/ \E e \in Event : Judged(m, ows, route, e)
  <2> DEFINE e == EventOf(route, type, m, reason)
  <2>1. e \in Event
    BY EventIsEvent
  <2>2. log' = log \/ log' = Append(log, e)
    BY <1>3 DEF AppendAudit, Audit!Record
  <2>3. e.at = now /\ e.sender = SenderOf(m) /\ e.route = route /\ e.type = type /\ e.reason = reason
    BY DEF EventOf, SenderOf
  <2> HIDE DEF e
  <2>4. log' = Append(log, e) => Judged(m, ows, route, e)
    BY <2>3, <1>2, <1>3 DEF Judged
  <2> QED BY <2>1, <2>2, <2>4
<1>4. CASE why # "" /\ AppendAudit(EventOf(route, "allowlist_drop", m, why))
  BY <1>1, <1>3, <1>4 DEF EventTypes
<1>5. CASE why = "" /\ AppendAudit(EventOf(route, "rate_limit", m, ""))
  BY <1>1, <1>3, <1>5 DEF EventTypes
<1>6. CASE /\ why = "" /\ Limiter!Accept(MessageKey(m), yaml.limits)
           /\ AppendAudit(EventOf(route, "inbound_message", m, ""))
  BY <1>1, <1>3, <1>6 DEF EventTypes
<1> QED BY <1>4, <1>5, <1>6 DEF Judge

(* The judgement accepts a call of its sender, or none.                    *)
LEMMA JudgeGrows ==
  ASSUME Audited, LimiterProofs!IInv, boot' = boot,
         NEW m \in Envelope, NEW ows, NEW route \in {"ws", "webhook"}, Judge(m, ows, route)
  PROVE  Grows
<1>1. MessageKey(m) = KeyOf(SenderOf(m)) /\ SenderOf(m) \in Sender
  BY DEF MessageKey, KeyOf, SenderOf, Envelope, Sender
<1>2. Limiter!Accept(MessageKey(m), yaml.limits) =>
        accepted' = [accepted EXCEPT ![KeyOf(SenderOf(m))] = Append(@, now)]
  BY <1>1 DEF Limiter!Accept
<1>3. accepted' = accepted \/ accepted' = [accepted EXCEPT ![KeyOf(SenderOf(m))] = Append(@, now)]
  BY <1>2 DEF Judge, Limiter!Load, Limiter!Refuse
<1>4. DOMAIN accepted = LimiterProofs!Key /\ \A s \in Sender : KeyOf(s) \in LimiterProofs!Key
  BY DEF LimiterProofs!IInv, LimiterProofs!TypeOK, KeyOf, Sender, LimiterProofs!Key, Kinds
<1>5. \A s \in Sender : \/ accepted'[KeyOf(s)] = accepted[KeyOf(s)]
                        \/ accepted'[KeyOf(s)] = Append(accepted[KeyOf(s)], now)
  BY <1>3, <1>4
<1>6. ASSUME NEW e \in Event, Judged(m, ows, route, e)
      PROVE  /\ log' = Append(log, e) /\ e.at = now
             /\ e.type = "inbound_message" =>
                  accepted'[KeyOf(e.sender)] = Append(accepted[KeyOf(e.sender)], now)
  BY <1>1, <1>2, <1>4, <1>6 DEF Judged
<1> QED BY <1>5, <1>6, JudgeDoes DEF Grows

(* The replies of s that are still to be sent, and their rows.             *)
EchoTo(s) == [type |-> "inbound_message", sender |-> s]
ConnsOwing(s) == {c \in Conns : conns[c] # Closed /\ conns[c].reply = EchoTo(s)}
HooksOwing(s) == {h \in Hooks : hooks[h].step = "sending" /\ hooks[h].reply = EchoTo(s)}

Counted(s) ==
  replies[s] + Cardinality(ConnsOwing(s)) + Cardinality(HooksOwing(s))
    <= Cardinality(InboundRows(s, 1))

(* A connection has the owners of its channel while nothing changed.       *)
FreshOwners ==
  \A c \in Conns : conns[c] # Closed /\ conns[c].fresh => conns[c].owners = OwnersOf(conns[c].channel)

RoutesTyped ==
  /\ owners \subseteq Sender
  /\ conns \in [Conns -> Conn \union {Closed}]
  /\ \A h \in Hooks :
       hooks[h] \in {NoRequest} \union [step : {"parsing"}, channel : Channels]
                              \union [step : {"sending"}, reply : Reply]
  /\ DOMAIN hooks = Hooks
  /\ changes \in Nat /\ boot \in Nat
  /\ replies \in [Sender -> Nat]

Routes == RoutesTyped /\ FreshOwners /\ \A s \in Sender : Counted(s)

LEMMA InitRoutes == Init => Routes /\ Embedded
<1> SUFFICES ASSUME Init PROVE Routes /\ Embedded
  OBVIOUS
<1>1. RoutesTyped /\ FreshOwners
  BY DEF Init, RoutesTyped, FreshOwners
<1>2. log = << >> /\ boot = 0 /\ Len(log) = 0
  BY DEF Init, Audit!Init
<1>3. ASSUME NEW s \in Sender, NEW from \in {1, boot + 1} PROVE InboundRows(s, from) = {}
  BY <1>2 DEF InboundRows
<1>4. ASSUME NEW s \in Sender PROVE Counted(s) /\ Follows(s)
  <2>1. InboundRows(s, 1) = {} /\ InboundRows(s, boot + 1) = {}
    BY <1>3
  <2>2. ConnsOwing(s) = {} /\ HooksOwing(s) = {} /\ replies[s] = 0
    BY DEF Init, ConnsOwing, HooksOwing, NoRequest
  <2>3. Counted(s)
    BY <2>1, <2>2, FS_EmptySet DEF Counted
  <2>4. [i \in {} |-> i] \in [{} -> 1..Len(accepted[KeyOf(s)])]
    OBVIOUS
  <2>5. Follows(s)
    BY <2>1, <2>4 DEF Follows, Placed
  <2> QED BY <2>3, <2>5
<1> QED BY <1>1, <1>2, <1>4 DEF Routes, Embedded

(* Sets of rows and of those that owe are finite.                          *)
LEMMA OwingFinite ==
  ASSUME NEW s, log \in Seq(Event)
  PROVE  /\ IsFiniteSet(ConnsOwing(s)) /\ IsFiniteSet(HooksOwing(s))
         /\ IsFiniteSet(InboundRows(s, 1))
<1>1. IsFiniteSet(Conns) /\ IsFiniteSet(Hooks)
  BY GatewayAssumption
<1>2. ConnsOwing(s) \subseteq Conns /\ HooksOwing(s) \subseteq Hooks
  BY DEF ConnsOwing, HooksOwing
<1>3. InboundRows(s, 1) \subseteq 1..Len(log) /\ IsFiniteSet(1..Len(log))
  BY FS_Interval DEF InboundRows
<1> QED BY <1>1, <1>2, <1>3, FS_Subset

(* The count of s holds on when it owes no more, or has a row for what it  *)
(* owes more, and a reply that has left was owed.                          *)
LEMMA CountKept ==
  ASSUME NEW s \in Sender, Counted(s), log \in Seq(Event), replies \in [Sender -> Nat],
         replies'[s] = replies[s], ConnsOwing(s)' \subseteq ConnsOwing(s),
         HooksOwing(s)' \subseteq HooksOwing(s),
         \/ InboundRows(s, 1)' = InboundRows(s, 1)
         \/ \E n : n \notin InboundRows(s, 1) /\ InboundRows(s, 1)' = InboundRows(s, 1) \union {n}
  PROVE  Counted(s)'
<1>1. /\ Cardinality(ConnsOwing(s)) \in Nat /\ Cardinality(HooksOwing(s)) \in Nat
      /\ Cardinality(InboundRows(s, 1)) \in Nat /\ replies[s] \in Nat
  BY OwingFinite, FS_CardinalityType
<1>2. /\ Cardinality(ConnsOwing(s)') \in Nat /\ Cardinality(HooksOwing(s)') \in Nat
      /\ Cardinality(ConnsOwing(s)') <= Cardinality(ConnsOwing(s))
      /\ Cardinality(HooksOwing(s)') <= Cardinality(HooksOwing(s))
  BY OwingFinite, Counts
<1>3. \/ Cardinality(InboundRows(s, 1)') = Cardinality(InboundRows(s, 1))
      \/ Cardinality(InboundRows(s, 1)') = Cardinality(InboundRows(s, 1)) + 1
  BY OwingFinite, FS_AddElement
<1> QED BY <1>1, <1>2, <1>3 DEF Counted

LEMMA CountRow ==
  ASSUME NEW s \in Sender, Counted(s), log \in Seq(Event), replies \in [Sender -> Nat],
         replies'[s] = replies[s],
         \/ /\ \E c : ConnsOwing(s)' \subseteq ConnsOwing(s) \union {c}
            /\ HooksOwing(s)' \subseteq HooksOwing(s)
         \/ /\ \E h : HooksOwing(s)' \subseteq HooksOwing(s) \union {h}
            /\ ConnsOwing(s)' \subseteq ConnsOwing(s),
         NEW n, n \notin InboundRows(s, 1), InboundRows(s, 1)' = InboundRows(s, 1) \union {n}
  PROVE  Counted(s)'
<1>1. /\ Cardinality(ConnsOwing(s)) \in Nat /\ Cardinality(HooksOwing(s)) \in Nat
      /\ Cardinality(InboundRows(s, 1)) \in Nat /\ replies[s] \in Nat
  BY OwingFinite, FS_CardinalityType
<1>2. Cardinality(InboundRows(s, 1)') = Cardinality(InboundRows(s, 1)) + 1
  BY OwingFinite, FS_AddElement
<1>3. \/ /\ Cardinality(ConnsOwing(s)') <= Cardinality(ConnsOwing(s)) + 1
         /\ Cardinality(HooksOwing(s)') <= Cardinality(HooksOwing(s))
      \/ /\ Cardinality(HooksOwing(s)') <= Cardinality(HooksOwing(s)) + 1
         /\ Cardinality(ConnsOwing(s)') <= Cardinality(ConnsOwing(s))
  BY OwingFinite, Counts
<1>4. Cardinality(ConnsOwing(s)') \in Nat /\ Cardinality(HooksOwing(s)') \in Nat
  BY OwingFinite, Counts
<1> QED BY <1>1, <1>2, <1>3, <1>4 DEF Counted

LEMMA CountReplied ==
  ASSUME NEW s \in Sender, Counted(s), log \in Seq(Event), replies \in [Sender -> Nat],
         replies'[s] = replies[s] + 1, InboundRows(s, 1)' = InboundRows(s, 1),
         \/ /\ \E c \in ConnsOwing(s) : ConnsOwing(s)' \subseteq ConnsOwing(s) \ {c}
            /\ HooksOwing(s)' \subseteq HooksOwing(s)
         \/ /\ \E h \in HooksOwing(s) : HooksOwing(s)' \subseteq HooksOwing(s) \ {h}
            /\ ConnsOwing(s)' \subseteq ConnsOwing(s)
  PROVE  Counted(s)'
<1>1. /\ Cardinality(ConnsOwing(s)) \in Nat /\ Cardinality(HooksOwing(s)) \in Nat
      /\ Cardinality(InboundRows(s, 1)) \in Nat /\ replies[s] \in Nat
  BY OwingFinite, FS_CardinalityType
<1>2. \/ /\ Cardinality(ConnsOwing(s)') + 1 <= Cardinality(ConnsOwing(s))
         /\ Cardinality(HooksOwing(s)') <= Cardinality(HooksOwing(s))
      \/ /\ Cardinality(HooksOwing(s)') + 1 <= Cardinality(HooksOwing(s))
         /\ Cardinality(ConnsOwing(s)') <= Cardinality(ConnsOwing(s))
  BY OwingFinite, Counts
<1>3. Cardinality(ConnsOwing(s)') \in Nat /\ Cardinality(HooksOwing(s)') \in Nat
  <2>1. ConnsOwing(s)' \subseteq ConnsOwing(s) /\ HooksOwing(s)' \subseteq HooksOwing(s)
    OBVIOUS
  <2> QED BY <2>1, OwingFinite, Counts
<1> QED BY <1>1, <1>2, <1>3 DEF Counted

(* What a change of one connection, or of one request, changes.            *)
LEMMA ConnChanges ==
  ASSUME RoutesTyped, FreshOwners, owners' = owners, NEW c \in Conns, NEW v \in Conn \union {Closed},
         conns' = [conns EXCEPT ![c] = v],
         \/ v = Closed
         \/ v.owners = OwnersOf(v.channel)
         \/ conns[c] # Closed /\ v.owners = conns[c].owners /\ v.channel = conns[c].channel
              /\ v.fresh = conns[c].fresh
  PROVE  /\ conns' \in [Conns -> Conn \union {Closed}]
         /\ FreshOwners'
         /\ \A s : ConnsOwing(s)' \subseteq ConnsOwing(s) \union {c}
         /\ \A s : v = Closed \/ v.reply # EchoTo(s) => ConnsOwing(s)' \subseteq ConnsOwing(s) \ {c}
<1>1. conns \in [Conns -> Conn \union {Closed}]
  BY DEF RoutesTyped
<1>2. conns'[c] = v /\ \A d \in Conns : d # c => conns'[d] = conns[d]
  BY <1>1
<1>3. \A ch : OwnersOf(ch)' = OwnersOf(ch)
  BY DEF OwnersOf
<1>4. ASSUME NEW d \in Conns, conns'[d] # Closed, conns'[d].fresh
      PROVE  conns'[d].owners = OwnersOf(conns'[d].channel)
  BY <1>2, <1>4 DEF FreshOwners
<1>5. FreshOwners'
  BY <1>3, <1>4 DEF FreshOwners
<1>6. \A s : EchoTo(s)' = EchoTo(s)
  BY DEF EchoTo
<1> QED BY <1>1, <1>2, <1>5, <1>6 DEF ConnsOwing

LEMMA HookChanges ==
  ASSUME DOMAIN hooks = Hooks, NEW h \in Hooks, NEW v, hooks' = [hooks EXCEPT ![h] = v]
  PROVE  /\ DOMAIN hooks' = Hooks /\ hooks'[h] = v
         /\ \A g \in Hooks : g # h => hooks'[g] = hooks[g]
         /\ \A s : HooksOwing(s)' \subseteq HooksOwing(s) \union {h}
         /\ \A s : v.step # "sending" \/ v.reply # EchoTo(s) =>
              HooksOwing(s)' \subseteq HooksOwing(s) \ {h}
<1>1. /\ DOMAIN hooks' = Hooks /\ hooks'[h] = v
      /\ \A g \in Hooks : g # h => hooks'[g] = hooks[g]
  OBVIOUS
<1>2. \A s : EchoTo(s)' = EchoTo(s)
  BY DEF EchoTo
<1> QED BY <1>1, <1>2 DEF HooksOwing

(* Rows and requests are as they were when they are not written.           *)
LEMMA RowsSame ==
  ASSUME log' = log PROVE \A s : InboundRows(s, 1)' = InboundRows(s, 1)
BY DEF InboundRows

LEMMA HooksSame ==
  ASSUME hooks' = hooks PROVE \A s : HooksOwing(s)' = HooksOwing(s)
BY DEF HooksOwing, EchoTo

LEMMA ConnsSame ==
  ASSUME conns' = conns PROVE \A s : ConnsOwing(s)' = ConnsOwing(s)
BY DEF ConnsOwing, EchoTo

HookTyped(v) == v \in {NoRequest} \union [step : {"parsing"}, channel : Channels]
                                  \union [step : {"sending"}, reply : Reply]

LEMMA EventReply ==
  ASSUME NEW e \in Event
  PROVE  /\ ReplyTo(e) \in Reply
         /\ \A s : ReplyTo(e) = EchoTo(s) => e.type = "inbound_message" /\ e.sender = s
BY DEF ReplyTo, Reply, Event, EchoTo

LEMMA ConnectRoutes ==
  ASSUME Routes, Audited, NEW c \in Conns, NEW ch \in Adapters, Connect(c, ch)
  PROVE  Routes'
<1> DEFINE v == [channel |-> ch, owners |-> OwnersOf(ch), reply |-> NoReply, fresh |-> TRUE]
<1>1. RoutesTyped /\ FreshOwners /\ \A s \in Sender : Counted(s)
  BY DEF Routes
<1>2. /\ conns[c] = Closed /\ conns' = [conns EXCEPT ![c] = v]
      /\ UNCHANGED <<log, yaml, owners, changes, hooks, replies, boot>>
  BY DEF Connect, store
<1>3. OwnersOf(ch) \subseteq Users
  BY <1>1 DEF RoutesTyped, OwnersOf, Sender
<1>4. ch \in Channels
  BY GatewayAssumption
<1>5. v \in Conn
  BY <1>3, <1>4 DEF Conn
<1>6. v.owners = OwnersOf(v.channel) /\ v.reply = NoReply
  OBVIOUS
<1> HIDE DEF v
<1>7. /\ conns' \in [Conns -> Conn \union {Closed}] /\ FreshOwners'
      /\ \A s : v = Closed \/ v.reply # EchoTo(s) => ConnsOwing(s)' \subseteq ConnsOwing(s) \ {c}
  BY <1>1, <1>2, <1>5, <1>6, ConnChanges
<1>8. \A s \in Sender : EchoTo(s) \in Reply
  BY DEF EchoTo, Reply, EventTypes
<1>9. \A s \in Sender : ConnsOwing(s)' \subseteq ConnsOwing(s)
  BY <1>6, <1>7, <1>8, GatewayAssumption
<1>10. ASSUME NEW s \in Sender PROVE Counted(s)'
  <2>1. replies \in [Sender -> Nat] /\ replies'[s] = replies[s] /\ log \in Seq(Event)
    BY <1>1, <1>2 DEF RoutesTyped, Audited
  <2> QED BY <1>1, <1>2, <1>9, <2>1, RowsSame, HooksSame, CountKept
<1>11. RoutesTyped'
  BY <1>1, <1>2, <1>7 DEF RoutesTyped
<1> QED BY <1>7, <1>10, <1>11 DEF Routes

LEMMA ReceiveRoutes ==
  ASSUME Routes, Audited, NEW c \in Conns, NEW m \in Envelope, Receive(c, m)
  PROVE  Routes'
<1> DEFINE conn == conns[c]
           v == IF log' = log THEN Closed ELSE [conn EXCEPT !.reply = ReplyTo(Last(log'))]
<1>1. RoutesTyped /\ FreshOwners /\ (\A s \in Sender : Counted(s)) /\ log \in Seq(Event)
  BY DEF Routes, Audited
<1>2. /\ conn # Closed /\ conns' = [conns EXCEPT ![c] = v]
      /\ UNCHANGED <<yaml, owners, changes, hooks, replies, boot>>
  BY DEF Receive, store
<1>3. log' = log \/ \E e \in Event : log' = Append(log, e)
  <2>1. CASE AppendAudit(EventOf("ws", "channel_spoof_attempt", m, ""))
    <3>1. EventOf("ws", "channel_spoof_attempt", m, "") \in Event
      BY EventIsEvent DEF EventTypes, Reasons
    <3> QED BY <2>1, <3>1 DEF AppendAudit, Audit!Record
  <2>2. CASE Judge(m, conn.owners, "ws")
    BY <2>2, JudgeDoes DEF Judged
  <2> QED BY <2>1, <2>2 DEF Receive
<1>4. conn \in Conn
  BY <1>1, <1>2 DEF RoutesTyped
<1>5. replies \in [Sender -> Nat]
  BY <1>1 DEF RoutesTyped
<1> HIDE DEF conn
<1>6. CASE log' = log
  <2>1. v = Closed
    BY <1>6
  <2> HIDE DEF v
  <2>2. /\ conns' \in [Conns -> Conn \union {Closed}] /\ FreshOwners'
        /\ \A s : ConnsOwing(s)' \subseteq ConnsOwing(s) \ {c}
    BY <1>1, <1>2, <2>1, ConnChanges
  <2>3. ASSUME NEW s \in Sender PROVE Counted(s)'
    <3>1. ConnsOwing(s)' \subseteq ConnsOwing(s)
      BY <2>2
    <3> QED BY <1>1, <1>2, <1>5, <1>6, <3>1, RowsSame, HooksSame, CountKept
  <2>4. RoutesTyped'
    BY <1>1, <1>2, <2>2 DEF RoutesTyped
  <2> QED BY <2>2, <2>3, <2>4 DEF Routes
<1>7. ASSUME NEW e \in Event, log' = Append(log, e) PROVE Routes'
  <2>1. Last(log') = e /\ log' # log
    BY <1>1, <1>7, Appended DEF Last
  <2>2. v = [conn EXCEPT !.reply = ReplyTo(e)]
    BY <2>1
  <2> HIDE DEF v
  <2>3. ReplyTo(e) \in Reply
    BY EventReply
  <2>4. v \in Conn /\ v.reply = ReplyTo(e) /\ v.owners = conn.owners /\ v.channel = conn.channel
        /\ v.fresh = conn.fresh
    BY <1>4, <2>2, <2>3 DEF Conn
  <2>5. /\ conns' \in [Conns -> Conn \union {Closed}] /\ FreshOwners'
        /\ \A s : ConnsOwing(s)' \subseteq ConnsOwing(s) \union {c}
        /\ \A s : v.reply # EchoTo(s) => ConnsOwing(s)' \subseteq ConnsOwing(s) \ {c}
    <3>1. conns[c] # Closed /\ v.owners = conns[c].owners /\ v.channel = conns[c].channel
          /\ v.fresh = conns[c].fresh
      BY <1>2, <2>4 DEF conn
    <3> QED BY <1>1, <1>2, <2>4, <3>1, ConnChanges
  <2>6. ASSUME NEW s \in Sender PROVE Counted(s)'
    <3>1. /\ InboundRows(s, 1)' = IF e.type = "inbound_message" /\ e.sender = s
                                  THEN InboundRows(s, 1) \union {Len(log) + 1} ELSE InboundRows(s, 1)
          /\ Len(log) + 1 \notin InboundRows(s, 1)
      <4>1. 1 \in 1..(Len(log) + 1)
        BY <1>1, Appended
      <4> QED BY <4>1, <1>1, <1>7, RowsGrow
    <3>2. HooksOwing(s)' \subseteq HooksOwing(s) /\ replies'[s] = replies[s]
      BY <1>2, HooksSame
    <3>3. CASE e.type = "inbound_message" /\ e.sender = s
      BY <1>1, <1>5, <2>5, <3>1, <3>2, <3>3, CountRow
    <3>4. CASE ~(e.type = "inbound_message" /\ e.sender = s)
      <4>1. ConnsOwing(s)' \subseteq ConnsOwing(s)
        BY <2>4, <2>5, <3>4, EventReply
      <4> QED BY <4>1, <1>1, <1>5, <3>1, <3>2, <3>4, CountKept
    <3> QED BY <3>3, <3>4
  <2>7. RoutesTyped'
    BY <1>1, <1>2, <2>5 DEF RoutesTyped
  <2> QED BY <2>5, <2>6, <2>7 DEF Routes
<1> QED BY <1>3, <1>6, <1>7

(* A reply that leaves is counted for its sender, if it is an echo.        *)
LEMMA CountReplyDoes ==
  ASSUME replies \in [Sender -> Nat], NEW r \in Reply, CountReply(r)
  PROVE  /\ replies' \in [Sender -> Nat]
         /\ \A s \in Sender :
              replies'[s] = IF r = EchoTo(s) THEN replies[s] + 1 ELSE replies[s]
<1>1. r.sender \in Sender /\ \A s : r = EchoTo(s) <=> r.type = "inbound_message" /\ r.sender = s
  BY DEF Reply, EchoTo
<1> QED BY <1>1 DEF CountReply

LEMMA SendRoutes ==
  ASSUME Routes, Audited, NEW c \in Conns, Send(c)
  PROVE  Routes'
<1> DEFINE conn == conns[c]
           v == IF conn.reply.type = "channel_spoof_attempt" THEN Closed
                ELSE [conn EXCEPT !.reply = NoReply]
<1>1. /\ RoutesTyped /\ FreshOwners /\ (\A s \in Sender : Counted(s)) /\ log \in Seq(Event)
      /\ replies \in [Sender -> Nat]
  BY DEF Routes, Audited, RoutesTyped
<1>2. /\ conn # Closed /\ conn.reply # NoReply /\ conns' = [conns EXCEPT ![c] = v]
      /\ CountReply(conn.reply)
      /\ UNCHANGED <<log, yaml, owners, changes, hooks, boot>>
  BY DEF Send, store
<1>3. conn \in Conn /\ conn.reply \in Reply
  BY <1>1, <1>2 DEF RoutesTyped, Conn
<1>4. v = Closed \/ v.reply = NoReply
  BY <1>3 DEF Conn
<1>5. /\ v \in Conn \union {Closed}
      /\ v = Closed \/ /\ conns[c] # Closed /\ v.owners = conns[c].owners
                       /\ v.channel = conns[c].channel /\ v.fresh = conns[c].fresh
  BY <1>2, <1>3 DEF Conn
<1> HIDE DEF v
<1>6. \A s \in Sender : v = Closed \/ v.reply # EchoTo(s)
  <2>1. \A s \in Sender : EchoTo(s) \in Reply
    BY DEF EchoTo, Reply, EventTypes
  <2> QED BY <1>4, <2>1, GatewayAssumption
<1>7. /\ conns' \in [Conns -> Conn \union {Closed}] /\ FreshOwners'
      /\ \A s \in Sender : ConnsOwing(s)' \subseteq ConnsOwing(s) \ {c}
  BY <1>1, <1>2, <1>5, <1>6, ConnChanges
<1>8. /\ replies' \in [Sender -> Nat]
      /\ \A s \in Sender :
           replies'[s] = IF conn.reply = EchoTo(s) THEN replies[s] + 1 ELSE replies[s]
  BY <1>1, <1>2, <1>3, CountReplyDoes
<1>9. ASSUME NEW s \in Sender PROVE Counted(s)'
  <2>1. CASE conn.reply = EchoTo(s)
    <3>1. c \in ConnsOwing(s)
      BY <1>2, <2>1 DEF ConnsOwing
    <3>2. HooksOwing(s)' \subseteq HooksOwing(s) /\ InboundRows(s, 1)' = InboundRows(s, 1)
      BY <1>2, HooksSame, RowsSame
    <3>3. replies'[s] = replies[s] + 1
      BY <1>8, <2>1
    <3> QED BY <1>1, <1>7, <3>1, <3>2, <3>3, CountReplied
  <2>2. CASE conn.reply # EchoTo(s)
    <3>1. replies'[s] = replies[s] /\ ConnsOwing(s)' \subseteq ConnsOwing(s)
      BY <1>7, <1>8, <2>2
    <3> QED BY <1>1, <1>2, <3>1, HooksSame, RowsSame, CountKept
  <2> QED BY <2>1, <2>2
<1>10. RoutesTyped'
  BY <1>1, <1>2, <1>7, <1>8 DEF RoutesTyped
<1> QED BY <1>7, <1>9, <1>10 DEF Routes

LEMMA DisconnectRoutes ==
  ASSUME Routes, Audited, NEW c \in Conns, Disconnect(c)
  PROVE  Routes'
<1>1. /\ RoutesTyped /\ FreshOwners /\ (\A s \in Sender : Counted(s)) /\ log \in Seq(Event)
      /\ replies \in [Sender -> Nat]
  BY DEF Routes, Audited, RoutesTyped
<1>2. /\ conns' = [conns EXCEPT ![c] = Closed]
      /\ UNCHANGED <<log, yaml, owners, changes, hooks, boot, replies>>
  BY DEF Disconnect, store
<1>3. /\ conns' \in [Conns -> Conn \union {Closed}] /\ FreshOwners'
      /\ \A s : ConnsOwing(s)' \subseteq ConnsOwing(s) \ {c}
  BY <1>1, <1>2, ConnChanges
<1>4. ASSUME NEW s \in Sender PROVE Counted(s)'
  <2>1. ConnsOwing(s)' \subseteq ConnsOwing(s)
    BY <1>3
  <2> QED BY <1>1, <1>2, <2>1, HooksSame, RowsSame, CountKept
<1>5. RoutesTyped'
  BY <1>1, <1>2, <1>3 DEF RoutesTyped
<1> QED BY <1>3, <1>4, <1>5 DEF Routes

(* The requests: what one step may write of them.                          *)
LEMMA HookTypes ==
  ASSUME RoutesTyped, NEW h \in Hooks, NEW v, HookTyped(v), hooks' = [hooks EXCEPT ![h] = v]
  PROVE  /\ \A g \in Hooks : HookTyped(hooks'[g])
         /\ DOMAIN hooks' = Hooks
BY HookChanges DEF RoutesTyped, HookTyped

LEMMA RequestRoutes ==
  ASSUME Routes, Audited, NEW h \in Hooks,
         NoMessage(h) \/ Answer(h) \/ \E ch \in Adapters : Request(h, ch)
  PROVE  Routes'
<1>1. /\ RoutesTyped /\ FreshOwners /\ (\A s \in Sender : Counted(s)) /\ log \in Seq(Event)
      /\ replies \in [Sender -> Nat] /\ DOMAIN hooks = Hooks
  BY DEF Routes, Audited, RoutesTyped
<1>2. UNCHANGED <<log, yaml, owners, changes, boot, conns>>
  BY DEF NoMessage, Answer, Request, store
<1>3. PICK v : /\ HookTyped(v) /\ v.step # "sending" /\ hooks' = [hooks EXCEPT ![h] = v]
  <2>1. ASSUME NEW ch \in Adapters
        PROVE  HookTyped([step |-> "parsing", channel |-> ch])
                 /\ [step |-> "parsing", channel |-> ch].step # "sending"
    BY GatewayAssumption DEF HookTyped
  <2>2. HookTyped(NoRequest) /\ NoRequest.step # "sending"
    BY DEF HookTyped, NoRequest
  <2> QED BY <2>1, <2>2 DEF NoMessage, Answer, Request
<1>4. \A s : HooksOwing(s)' \subseteq HooksOwing(s) \ {h}
  BY <1>1, <1>3, HookChanges
<1>5. \/ replies' = replies
      \/ hooks[h].step = "sending" /\ CountReply(hooks[h].reply)
  BY DEF NoMessage, Answer, Request
<1>6. FreshOwners'
  BY <1>1, <1>2 DEF FreshOwners, OwnersOf
<1>7. CASE replies' = replies
  <2>1. ASSUME NEW s \in Sender PROVE Counted(s)'
    <3>1. HooksOwing(s)' \subseteq HooksOwing(s) /\ replies'[s] = replies[s]
      BY <1>4, <1>7
    <3> QED BY <1>1, <1>2, <3>1, ConnsSame, RowsSame, CountKept
  <2>2. RoutesTyped'
    BY <1>1, <1>2, <1>3, <1>7, HookTypes DEF RoutesTyped, HookTyped
  <2> QED BY <1>6, <2>1, <2>2 DEF Routes
<1>8. CASE hooks[h].step = "sending" /\ CountReply(hooks[h].reply)
  <2> DEFINE r == hooks[h].reply
  <2>1. r \in Reply
    BY <1>1, <1>8 DEF RoutesTyped, NoRequest
  <2>2. /\ replies' \in [Sender -> Nat]
        /\ \A s \in Sender : replies'[s] = IF r = EchoTo(s) THEN replies[s] + 1 ELSE replies[s]
    BY <1>1, <1>8, <2>1, CountReplyDoes
  <2>3. ASSUME NEW s \in Sender PROVE Counted(s)'
    <3>1. CASE r = EchoTo(s)
      <4>1. h \in HooksOwing(s)
        BY <1>8, <3>1 DEF HooksOwing
      <4>2. ConnsOwing(s)' \subseteq ConnsOwing(s) /\ InboundRows(s, 1)' = InboundRows(s, 1)
        BY <1>2, ConnsSame, RowsSame
      <4>3. replies'[s] = replies[s] + 1
        BY <2>2, <3>1
      <4> QED BY <1>1, <1>4, <4>1, <4>2, <4>3, CountReplied
    <3>2. CASE r # EchoTo(s)
      <4>1. replies'[s] = replies[s] /\ HooksOwing(s)' \subseteq HooksOwing(s)
        BY <1>4, <2>2, <3>2
      <4> QED BY <1>1, <1>2, <4>1, ConnsSame, RowsSame, CountKept
    <3> QED BY <3>1, <3>2
  <2>4. RoutesTyped'
    BY <1>1, <1>2, <1>3, <2>2, HookTypes DEF RoutesTyped, HookTyped
  <2> QED BY <1>6, <2>3, <2>4 DEF Routes
<1> QED BY <1>5, <1>7, <1>8

LEMMA ProcessRoutes ==
  ASSUME Routes, Audited, NEW h \in Hooks, NEW m \in Envelope, Process(h, m)
  PROVE  Routes'
<1>1. /\ RoutesTyped /\ FreshOwners /\ (\A s \in Sender : Counted(s)) /\ log \in Seq(Event)
      /\ replies \in [Sender -> Nat] /\ DOMAIN hooks = Hooks
  BY DEF Routes, Audited, RoutesTyped
<1> DEFINE v == IF log' # log /\ Last(log').type = "inbound_message"
                THEN [step |-> "sending", reply |-> ReplyTo(Last(log'))] ELSE NoRequest
<1>2. /\ hooks' = [hooks EXCEPT ![h] = v]
      /\ UNCHANGED <<yaml, owners, changes, boot, conns, replies>>
  BY DEF Process, store
<1>3. log' = log \/ \E e \in Event : log' = Append(log, e)
  <2>1. Judge(m, OwnersOf(m.channel), "webhook")
    BY DEF Process
  <2> QED BY <2>1, JudgeDoes DEF Judged
<1>4. FreshOwners'
  BY <1>1, <1>2 DEF FreshOwners, OwnersOf
<1>5. ASSUME HookTyped(v), \A s \in Sender : Counted(s)' PROVE Routes'
  <2> HIDE DEF v
  <2>1. RoutesTyped'
    BY <1>1, <1>2, <1>5, HookTypes DEF RoutesTyped, HookTyped
  <2> QED BY <1>4, <1>5, <2>1 DEF Routes
<1>6. CASE log' = log
  <2>1. v = NoRequest
    BY <1>6
  <2>2. HookTyped(v) /\ v.step # "sending"
    BY <2>1 DEF HookTyped, NoRequest
  <2> HIDE DEF v
  <2>3. ASSUME NEW s \in Sender PROVE Counted(s)'
    <3>1. HooksOwing(s)' \subseteq HooksOwing(s)
      BY <1>1, <1>2, <2>2, HookChanges
    <3> QED BY <1>1, <1>2, <1>6, <3>1, ConnsSame, RowsSame, CountKept
  <2> QED BY <1>5, <2>2, <2>3
<1>7. ASSUME NEW e \in Event, log' = Append(log, e) PROVE Routes'
  <2>1. Last(log') = e /\ log' # log
    BY <1>1, <1>7, Appended DEF Last
  <2>2. v = IF e.type = "inbound_message" THEN [step |-> "sending", reply |-> ReplyTo(e)]
            ELSE NoRequest
    BY <2>1
  <2>3. ReplyTo(e) \in Reply
    BY EventReply
  <2>4. HookTyped(v)
    BY <2>2, <2>3 DEF HookTyped
  <2>5. \A s : ~(e.type = "inbound_message" /\ e.sender = s) =>
                 v.step # "sending" \/ v.reply # EchoTo(s)
    BY <2>2, EventReply DEF NoRequest
  <2> HIDE DEF v
  <2>6. ASSUME NEW s \in Sender PROVE Counted(s)'
    <3>1. /\ InboundRows(s, 1)' = IF e.type = "inbound_message" /\ e.sender = s
                                  THEN InboundRows(s, 1) \union {Len(log) + 1} ELSE InboundRows(s, 1)
          /\ Len(log) + 1 \notin InboundRows(s, 1)
      <4>1. 1 \in 1..(Len(log) + 1)
        BY <1>1, Appended
      <4> QED BY <4>1, <1>1, <1>7, RowsGrow
    <3>2. ConnsOwing(s)' \subseteq ConnsOwing(s) /\ replies'[s] = replies[s]
      BY <1>2, ConnsSame
    <3>3. CASE e.type = "inbound_message" /\ e.sender = s
      <4>1. HooksOwing(s)' \subseteq HooksOwing(s) \union {h}
        BY <1>1, <1>2, HookChanges
      <4> QED BY <4>1, <1>1, <3>1, <3>2, <3>3, CountRow
    <3>4. CASE ~(e.type = "inbound_message" /\ e.sender = s)
      <4>1. HooksOwing(s)' \subseteq HooksOwing(s)
        BY <1>1, <1>2, <2>5, <3>4, HookChanges
      <4> QED BY <4>1, <1>1, <3>1, <3>2, <3>4, CountKept
    <3> QED BY <3>3, <3>4
  <2> QED BY <1>5, <2>4, <2>6
<1> QED BY <1>3, <1>6, <1>7

LEMMA ChangeOwnerRoutes ==
  ASSUME Routes, Audited, NEW s0 \in Sender, ChangeOwner(s0)
  PROVE  Routes'
<1>1. /\ RoutesTyped /\ FreshOwners /\ (\A s \in Sender : Counted(s)) /\ log \in Seq(Event)
      /\ replies \in [Sender -> Nat]
  BY DEF Routes, Audited, RoutesTyped
<1>2. /\ owners' = IF s0 \in owners THEN owners \ {s0} ELSE owners \union {s0}
      /\ conns' = [c \in Conns |->
           IF conns[c] # Closed /\ conns[c].channel = s0.channel
           THEN [conns[c] EXCEPT !.fresh = FALSE] ELSE conns[c]]
      /\ changes' = changes + 1
      /\ UNCHANGED <<log, yaml, hooks, replies, boot>>
  BY DEF ChangeOwner
<1>3. ASSUME NEW c \in Conns
      PROVE  /\ conns'[c] \in Conn \union {Closed}
             /\ conns'[c] # Closed =>
                  /\ conns[c] # Closed /\ conns'[c].reply = conns[c].reply
                  /\ conns'[c].fresh => /\ conns[c].fresh /\ conns'[c].owners = conns[c].owners
                                        /\ conns'[c].channel = conns[c].channel
                                        /\ conns[c].channel # s0.channel
  <2>1. conns[c] \in Conn \union {Closed}
    BY <1>1 DEF RoutesTyped
  <2>2. CASE conns[c] # Closed /\ conns[c].channel = s0.channel
    <3>1. conns'[c] = [conns[c] EXCEPT !.fresh = FALSE] /\ conns[c] \in Conn
      BY <1>2, <2>1, <2>2
    <3>2. conns'[c] \in Conn /\ conns'[c].reply = conns[c].reply /\ conns'[c].fresh = FALSE
      BY <3>1 DEF Conn
    <3> QED BY <2>2, <3>2
  <2>3. CASE ~(conns[c] # Closed /\ conns[c].channel = s0.channel)
    <3>1. conns'[c] = conns[c]
      BY <1>2, <2>3
    <3> QED BY <2>1, <2>3, <3>1
  <2> QED BY <2>2, <2>3
<1>4. \A ch : ch # s0.channel => OwnersOf(ch)' = OwnersOf(ch)
  BY <1>2 DEF OwnersOf
<1>5. FreshOwners'
  BY <1>1, <1>3, <1>4 DEF FreshOwners
<1>6. \A s : ConnsOwing(s)' \subseteq ConnsOwing(s)
  BY <1>3 DEF ConnsOwing, EchoTo
<1>7. ASSUME NEW s \in Sender PROVE Counted(s)'
  <2>1. replies'[s] = replies[s]
    BY <1>2
  <2> QED BY <1>1, <1>2, <1>6, <2>1, HooksSame, RowsSame, CountKept
<1>8. conns' \in [Conns -> Conn \union {Closed}]
  BY <1>2, <1>3
<1>9. owners' \subseteq Sender /\ changes' \in Nat
  BY <1>1, <1>2 DEF RoutesTyped
<1>10. RoutesTyped'
  BY <1>1, <1>2, <1>8, <1>9 DEF RoutesTyped
<1> QED BY <1>5, <1>7, <1>10 DEF Routes

LEMMA RestartRoutes ==
  ASSUME Routes, Audited, Restart
  PROVE  Routes' /\ Embedded'
<1>1. /\ RoutesTyped /\ (\A s \in Sender : Counted(s)) /\ log \in Seq(Event)
      /\ replies \in [Sender -> Nat]
  BY DEF Routes, Audited, RoutesTyped
<1>2. /\ conns' = [c \in Conns |-> Closed] /\ hooks' = [h \in Hooks |-> NoRequest]
      /\ boot' = Len(log)
      /\ UNCHANGED <<log, yaml, owners, changes, replies>>
  BY DEF Restart, store
<1>3. /\ \A s : ConnsOwing(s)' \subseteq ConnsOwing(s)
      /\ \A s : HooksOwing(s)' \subseteq HooksOwing(s)
  BY <1>2 DEF ConnsOwing, HooksOwing, NoRequest
<1>4. ASSUME NEW s \in Sender PROVE Counted(s)'
  <2>1. replies'[s] = replies[s]
    BY <1>2
  <2> QED BY <1>1, <1>2, <1>3, <2>1, RowsSame, CountKept
<1>5. RoutesTyped' /\ FreshOwners'
  <2>1. FreshOwners'
    BY <1>2 DEF FreshOwners
  <2>2. Len(log) \in Nat
    BY <1>1
  <2> QED BY <1>1, <1>2, <2>1, <2>2 DEF RoutesTyped
<1>6. ASSUME NEW s \in Sender PROVE Follows(s)'
  <2>1. InboundRows(s, boot + 1)' = {}
    BY <1>1, <1>2 DEF InboundRows
  <2>2. [i \in {} |-> i] \in [{} -> 1..Len(accepted'[KeyOf(s)])]
    OBVIOUS
  <2> QED BY <2>1, <2>2 DEF Follows, Placed
<1>7. boot' <= Len(log')
  BY <1>1, <1>2
<1> QED BY <1>4, <1>5, <1>6, <1>7 DEF Routes, Embedded

(* Neither the clock nor an edit of the file is a step of the routes.      *)
LEMMA OtherRoutes ==
  ASSUME Routes, Audited, EditYaml \/ Tick \/ UNCHANGED vars
  PROVE  Routes' /\ Grows
<1>1. /\ RoutesTyped /\ FreshOwners /\ (\A s \in Sender : Counted(s)) /\ log \in Seq(Event)
      /\ replies \in [Sender -> Nat]
  BY DEF Routes, Audited, RoutesTyped
<1>2. /\ UNCHANGED <<accepted, log, owners, conns, hooks, replies, boot>>
      /\ changes' = changes \/ changes' = changes + 1
  BY DEF EditYaml, Tick, vars, limiter, store, Limiter!Tick
<1>3. ASSUME NEW s \in Sender PROVE Counted(s)'
  BY <1>1, <1>2, ConnsSame, HooksSame, RowsSame, CountKept
<1>4. RoutesTyped'
  BY <1>1, <1>2 DEF RoutesTyped
<1>5. FreshOwners'
  BY <1>1, <1>2 DEF FreshOwners, OwnersOf
<1>6. Grows
  BY <1>2 DEF Grows
<1> QED BY <1>3, <1>4, <1>5, <1>6 DEF Routes

(* Every other step accepts at most what it judges.                        *)
LEMMA ServeGrows ==
  ASSUME Audited, LimiterProofs!IInv, Serve \/ \E s \in Sender : ChangeOwner(s)
  PROVE  Grows
<1>1. CASE UNCHANGED <<accepted, log, boot>>
  BY <1>1 DEF Grows
<1>2. ASSUME NEW c \in Conns, NEW m \in Envelope, Receive(c, m) PROVE Grows
  <2>1. boot' = boot
    BY <1>2 DEF Receive
  <2>2. CASE AppendAudit(EventOf("ws", "channel_spoof_attempt", m, "")) /\ UNCHANGED limiter
    <3> DEFINE e == EventOf("ws", "channel_spoof_attempt", m, "")
    <3>1. e \in Event
      BY EventIsEvent DEF EventTypes, Reasons
    <3>2. e.type = "channel_spoof_attempt" /\ e.at = now
      BY DEF EventOf
    <3> HIDE DEF e
    <3>3. log' = log \/ log' = Append(log, e)
      BY <2>2 DEF AppendAudit, Audit!Record, e
    <3> QED BY <2>1, <2>2, <3>1, <3>2, <3>3 DEF Grows, limiter
  <2>3. CASE Judge(m, conns[c].owners, "ws")
    BY <2>1, <2>3, JudgeGrows
  <2> QED BY <1>2, <2>2, <2>3 DEF Receive
<1>3. ASSUME NEW h \in Hooks, NEW m \in Envelope, Process(h, m) PROVE Grows
  BY <1>3, JudgeGrows DEF Process
<1>4. ASSUME NEW c \in Conns,
             Send(c) \/ Disconnect(c) \/ \E ch \in Adapters : Connect(c, ch)
      PROVE Grows
  BY <1>1, <1>4 DEF Send, Disconnect, Connect, limiter, Limiter!Load
<1>5. ASSUME NEW h \in Hooks,
             NoMessage(h) \/ Answer(h) \/ \E ch \in Adapters : Request(h, ch)
      PROVE Grows
  BY <1>1, <1>5 DEF NoMessage, Answer, Request, limiter
<1>6. ASSUME NEW s \in Sender, ChangeOwner(s) PROVE Grows
  BY <1>1, <1>6 DEF ChangeOwner, limiter
<1> QED BY <1>2, <1>3, <1>4, <1>5, <1>6 DEF Serve

LEMMA NextRoutes ==
  ASSUME Routes, Embedded, Audited, LimiterProofs!IInv, [Next]_vars
  PROVE  Routes' /\ Embedded'
<1>1. ASSUME Grows PROVE Embedded'
  <2>1. \A s \in Sender : accepted[KeyOf(s)] \in Seq(Nat)
    BY LimiterFacts
  <2>2. log \in Seq(Event) /\ now \in Nat /\ boot \in Nat
    BY DEF Audited, Routes, RoutesTyped
  <2> QED BY <1>1, <2>1, <2>2, GrowsKeeps
<1>2. CASE Serve
  <2>1. Routes'
    BY <1>2, ConnectRoutes, ReceiveRoutes, SendRoutes, DisconnectRoutes, RequestRoutes,
       ProcessRoutes DEF Serve
  <2> QED BY <1>1, <1>2, <2>1, ServeGrows
<1>3. ASSUME NEW s \in Sender, ChangeOwner(s) PROVE Routes' /\ Embedded'
  BY <1>1, <1>3, ServeGrows, ChangeOwnerRoutes
<1>4. CASE EditYaml \/ Tick \/ UNCHANGED vars
  BY <1>1, <1>4, OtherRoutes
<1>5. CASE Restart
  BY <1>5, RestartRoutes
<1> QED BY <1>2, <1>3, <1>4, <1>5 DEF Next

(* The audit log explains every reply and shows the limits of every sender *)
(* respected, for any number of connections, requests, restarts, failed    *)
(* audit writes and edits (channel_ws and channel_webhook).                *)
THEOREM AuditLogExplains == Spec => []AuditExplains
<1> DEFINE Inv == Routes /\ Embedded
<1>1. Init => Inv
  BY InitRoutes
<1>2. Inv /\ Audited /\ LimiterProofs!IInv /\ [Next]_vars => Inv'
  BY NextRoutes
<1>3. Inv /\ Audited /\ LimiterProofs!IInv => AuditExplains
  <2> SUFFICES ASSUME Routes, Embedded, Audited, LimiterProofs!IInv PROVE AuditExplains
    OBVIOUS
  <2>1. RoutesTyped /\ log \in Seq(Event) /\ boot \in Nat /\ \A s \in Sender : Counted(s)
    BY DEF Routes, RoutesTyped, Audited
  <2>2. Limiter!TypeOK
    BY DEF LimiterProofs!IInv, LimiterProofs!TypeOK, Limiter!TypeOK, LimiterProofs!Key,
           Limiter!Key, LimiterProofs!Limits, Limiter!Limits
  <2>3. TypeOK
    BY <2>1, <2>2 DEF TypeOK, RoutesTyped, Audited
  <2>4. InboundWithinLimit
    BY <2>1, RowsWithinLimit
  <2>5. ASSUME NEW s \in Sender PROVE replies[s] <= Cardinality(InboundRows(s, 1))
    <3>1. /\ Cardinality(ConnsOwing(s)) \in Nat /\ Cardinality(HooksOwing(s)) \in Nat
          /\ Cardinality(InboundRows(s, 1)) \in Nat /\ replies[s] \in Nat
      BY <2>1, OwingFinite, FS_CardinalityType DEF RoutesTyped
    <3> QED BY <2>1, <3>1 DEF Counted
  <2> QED BY <2>3, <2>4, <2>5 DEF AuditExplains, RepliesAudited
<1> QED BY <1>1, <1>2, <1>3, AuditedInvariant, LimiterInside, PTL DEF Spec

(* What is judged on pairings is judged on those of the moment, by every   *)
(* webhook and by every connection since whose opening nothing changed.    *)
LEMMA JudgedStep ==
  ASSUME Routes, Audited, [Next]_vars, log' # log
  PROVE  \/ Last(log').route = "ws" /\ \E c \in Conns : conns'[c] # conns[c] /\ ~conns[c].fresh
         \/ OnCurrentOwners(Last(log'))
<1>1. RoutesTyped /\ FreshOwners /\ log \in Seq(Event)
  BY DEF Routes, Audited
<1>2. ASSUME NEW e \in Event, log' = Append(log, e) PROVE Last(log') = e
  BY <1>1, <1>2, Appended DEF Last
<1>3. ASSUME NEW m \in Envelope, NEW route, NEW e \in Event, Judged(m, OwnersOf(m.channel), route, e)
      PROVE  OnCurrentOwners(e)
  <2>1. m.user \in OwnersOf(m.channel) <=> SenderOf(m) \in owners
    BY <1>1 DEF OwnersOf, SenderOf, RoutesTyped, Sender, Envelope
  <2>2. e.sender = SenderOf(m) /\ SenderOf(m).user = m.user /\ SenderOf(m).channel = m.channel
    BY <1>3 DEF Judged, SenderOf
  <2> QED BY <1>3, <2>1, <2>2 DEF Judged, OnCurrentOwners, JudgedAsOwner, Admissible
<1>4. ASSUME NEW h \in Hooks, NEW m \in Envelope, Process(h, m) PROVE OnCurrentOwners(Last(log'))
  <2>1. PICK e \in Event : Judged(m, OwnersOf(m.channel), "webhook", e)
    BY <1>4, JudgeDoes DEF Process
  <2> QED BY <2>1, <1>2, <1>3 DEF Judged
<1>5. ASSUME NEW c \in Conns, NEW m \in Envelope, Receive(c, m)
      PROVE  \/ Last(log').route = "ws" /\ \E d \in Conns : conns'[d] # conns[d] /\ ~conns[d].fresh
             \/ OnCurrentOwners(Last(log'))
  <2>1. CASE AppendAudit(EventOf("ws", "channel_spoof_attempt", m, ""))
    <3> DEFINE e == EventOf("ws", "channel_spoof_attempt", m, "")
    <3>1. e \in Event
      BY EventIsEvent DEF EventTypes, Reasons
    <3>2. e.type = "channel_spoof_attempt"
      BY DEF EventOf
    <3>3. log' = Append(log, e)
      BY <2>1 DEF AppendAudit, Audit!Record
    <3> HIDE DEF e
    <3>4. Last(log') = e
      BY <1>2, <3>1, <3>3
    <3>5. OnCurrentOwners(e)
      BY <3>2 DEF OnCurrentOwners, JudgedAsOwner
    <3> QED BY <3>4, <3>5
  <2>2. CASE m.channel = conns[c].channel /\ Judge(m, conns[c].owners, "ws")
    <3>1. PICK e \in Event : Judged(m, conns[c].owners, "ws", e)
      BY <2>2, JudgeDoes
    <3>2. Last(log') = e /\ e.route = "ws"
      BY <1>2, <3>1 DEF Judged
    <3>3. conns[c] \in Conn /\ conns[c].reply = NoReply
      BY <1>1, <1>5 DEF Receive, RoutesTyped
    <3>4. CASE conns[c].fresh
      <4>1. conns[c].owners = OwnersOf(m.channel)
        BY <1>1, <2>2, <1>5, <3>4 DEF FreshOwners, Receive
      <4> QED BY <1>3, <3>1, <3>2, <4>1
    <3>5. CASE ~conns[c].fresh
      <4>1. conns'[c] = [conns[c] EXCEPT !.reply = ReplyTo(e)]
        BY <1>1, <1>5, <3>2 DEF Receive, RoutesTyped
      <4>2. conns'[c].reply \in Reply
        BY <4>1, <3>3, EventReply DEF Conn
      <4>3. conns'[c] # conns[c]
        BY <4>2, <3>3, GatewayAssumption
      <4> QED BY <3>2, <3>5, <4>3
    <3> QED BY <3>4, <3>5
  <2> QED BY <1>5, <2>1, <2>2 DEF Receive
<1>6. Serve
  BY DEF Next, ChangeOwner, EditYaml, Tick, Restart, vars
<1>7. ASSUME NEW c \in Conns, Send(c) \/ Disconnect(c) \/ \E ch \in Adapters : Connect(c, ch)
      PROVE FALSE
  BY <1>7 DEF Send, Disconnect, Connect
<1>8. ASSUME NEW h \in Hooks, NoMessage(h) \/ Answer(h) \/ \E ch \in Adapters : Request(h, ch)
      PROVE FALSE
  BY <1>8 DEF NoMessage, Answer, Request
<1> QED BY <1>4, <1>5, <1>6, <1>7, <1>8 DEF Serve

(* However long an adapter parses, and whatever processes write to the     *)
(* pairings meanwhile, a webhook envelope is judged on the owners of that  *)
(* moment; and a WebSocket envelope at least until the first change after  *)
(* its connect.                                                            *)
THEOREM OwnersAreFresh == Spec => JudgedOnFreshOwners
<1> DEFINE Inv == Routes /\ Embedded
<1>1. Init => Inv
  BY InitRoutes
<1>2. Inv /\ Audited /\ LimiterProofs!IInv /\ [Next]_vars => Inv'
  BY NextRoutes
<1>3. Routes /\ Audited /\ [Next]_vars =>
        [log' # log =>
          \/ Last(log').route = "ws" /\ \E c \in Conns : conns'[c] # conns[c] /\ ~conns[c].fresh
          \/ OnCurrentOwners(Last(log'))]_vars
  BY JudgedStep
<1> QED BY <1>1, <1>2, <1>3, AuditedInvariant, LimiterInside, PTL DEF Spec, JudgedOnFreshOwners
=============================================================================
