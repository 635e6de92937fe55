-------------------------- MODULE ProviderRouting --------------------------
(***************************************************************************)
(* Who answers a chat: the rate bookkeeping per provider (RateState and    *)
(* Router of glc/routing.py) under the failover loop of chat() in          *)
(* glc/routes/chat.py.  Requests run concurrently on one event loop, so a  *)
(* step below is what happens between two awaits; the provider may answer, *)
(* fail, or be called once more (a retry, a repair) at each of them.       *)
(***************************************************************************)
EXTENDS Integers, Sequences, FiniteSets, SequencesExt

CONSTANTS
  Providers, Order,   \* the providers and the failover order, a sequence of them
  Limits,             \* LIMITS: rpm, rpd, tpm, tokens_per_day, cooldown, max_ctx of each
  Capabilities,       \* what each provider can do, a set
  Requests, Asks,     \* request ids; what a request may ask for
  Backoff,            \* the seconds of _backoff_for() per kind of error
  Minute, Day,        \* the two windows of the bookkeeping
  MaxWait, MaxSleep,  \* a pinned request waits MaxWait (30 s), MaxSleep (5 s) at a time
  Start, LastArrival, MaxTime,   \* bounds: the clock at first, for the last arrival, at last
  MaxLogErrors,       \* bound: how many requests find the ledger locked
  Tokens              \* what an answer may cost

None == "none"        \* no provider
Kinds == DOMAIN Backoff

ASSUME TimesAssumption ==
  /\ {Minute, Day, MaxWait, MaxSleep, Start, LastArrival, MaxTime} \subseteq Nat \ {0}
  /\ MaxLogErrors \in Nat /\ Start <= MaxTime
ASSUME LimitsAssumption ==
  /\ \A p \in Providers : /\ {Limits[p].rpm, Limits[p].rpd, Limits[p].cooldown} \subseteq Nat
                          /\ Limits[p].cooldown <= Start
  /\ Tokens \subseteq Nat /\ \A kind \in Kinds : Backoff[kind] \in Nat
ASSUME OrderAssumption == Order \in Seq(Providers) /\ IsInjective(Order)
ASSUME RequestsAssumption ==
  /\ IsFiniteSet(Requests) /\ None \notin Providers
  /\ \A ask \in Asks : ask.tiers \in Seq(ToSet(ask.tiers))

(* 5xx, 408 and timeouts are tried again at once; 400 and 401 are not the  *)
(* provider's fault to fail over from; any other exception is.             *)
Transient(kind) == kind \in {"upstream", "timeout"}
Final(kind) == kind \in {"bad_request", "unauthorized"}
BackoffFor(kind, ask) ==
  IF ask.model /\ kind \in {"unauthorized", "forbidden"} THEN 0 ELSE Backoff[kind]
-----------------------------------------------------------------------------
VARIABLES
  now,       \* time.time()
  rate,      \* rate[p]: the RateState of provider p
  req,       \* req[r]: the locals of chat() for request r
  ledger,    \* ledger[p]: the rows of log_call() for provider p
  log_errors,  \* requests for which log_call() has raised
  attempts   \* history: attempts[p], when attempts at p started

vars == <<now, rate, req, ledger, log_errors, attempts>>

(* [x for x in s if ...], where the places of those that stay are kept.    *)
Filtered(s, kept) ==
  [k \in 1..Cardinality(kept) |->
    s[CHOOSE i \in kept : Cardinality({j \in kept : j <= i}) = k]]

(* A deque without what is old at its left end.                            *)
WithoutOld(dq, old) ==
  LET young == DOMAIN dq \ old
  IN  IF young = {} THEN << >>
      ELSE SubSeq(dq, CHOOSE i \in young : \A j \in young : i <= j, Len(dq))

(* gc(): forget what left the minute before the cutoff...                  *)
Swept(s, cutoff) ==
  [s EXCEPT !.calls = WithoutOld(@, {i \in DOMAIN @ : @[i] < cutoff}),
            !.tokens = WithoutOld(@, {i \in DOMAIN @ : @[i].at < cutoff})]

(* ... and the totals of another day.                                      *)
NewDay(s) ==
  IF now - s.day >= Day
  THEN [s EXCEPT !.calls_today = 0, !.tokens_today = 0, !.day = now - (now % Day)] ELSE s

(* Mutant: the minute ends a second early.                                 *)
GcShort(s) == NewDay(Swept(s, now - Minute + 1))

Gc(s) == NewDay(Swept(s, now - Minute))

SumTokens(tokens) == FoldLeft(LAMBDA total, t : total + t.n, 0, tokens)

CooldownLeft(p) == Limits[p].cooldown - (now - rate[p].last_call)

(* Mutant: a backoff is not looked at.                                     *)
CanUseInBackoff(s, limits, est) ==
  /\ limits.cooldown <= now - s.last_call
  /\ Len(s.calls) < limits.rpm
  /\ s.calls_today < limits.rpd
  /\ SumTokens(s.tokens) + est <= limits.tpm
  /\ s.tokens_today + est <= limits.tokens_per_day

(* can_use(), of a state that gc() has visited.                            *)
CanUse(s, limits, est) ==
  /\ now >= s.until
  /\ limits.cooldown <= now - s.last_call
  /\ Len(s.calls) < limits.rpm
  /\ s.calls_today < limits.rpd
  /\ SumTokens(s.tokens) + est <= limits.tpm
  /\ s.tokens_today + est <= limits.tokens_per_day

(* record(0) at the start of an attempt.                                   *)
Record(s) ==
  [s EXCEPT !.calls = Append(@, now), !.calls_today = @ + 1, !.last_call = now]

(* The cost of an answer, added when it is there.                          *)
Spend(s, n) ==
  [s EXCEPT !.tokens = Append(@, [at |-> now, n |-> n]), !.tokens_today = @ + n]

(* mark_unavailable(), if the error calls for it; marked: history.         *)
Mark(s, seconds) ==
  IF seconds = 0 THEN s ELSE [s EXCEPT !.until = now + seconds, !.marked = now]
-----------------------------------------------------------------------------
(* pick(): the candidates that can serve the request at all, up to the     *)
(* first that can be used, are looked at (and gc'd); that one is taken.    *)
Suits(p, ask) == ask.caps \subseteq Capabilities[p] /\ ask.est <= Limits[p].max_ctx
Usable(p, ask, rates) == Suits(p, ask) /\ CanUse(Gc(rates[p]), Limits[p], ask.est)

Pick(ask, candidates, rates) ==
  LET usable == {i \in 1..Len(candidates) : Usable(candidates[i], ask, rates)}
      first == IF usable = {} THEN Len(candidates) + 1
               ELSE CHOOSE i \in usable : \A j \in usable : i <= j
      looked == {p \in Providers : Suits(p, ask) /\ \E i \in 1..Len(candidates) :
                                     i <= first /\ candidates[i] = p}
  IN  [name |-> IF usable = {} THEN None ELSE candidates[first],
       rates |-> [p \in Providers |-> IF p \in looked THEN Gc(rates[p]) ELSE rates[p]]]

(* The locals of chat() are gone when it returns; who was tried: history.  *)
Done(q, answer) ==
  [pc |-> "done", answer |-> answer, ask |-> q.ask, name |-> q.name, tried |-> q.tried]

(* One turn of the loop in chat(), with the request q and the bookkeeping  *)
(* as the code before it left them: pick, record, call; or give up.        *)
Turn(r, q, rates) ==
  LET pick == Pick(q.ask, q.candidates, rates)
  IN  IF q.turns = 0 \/ pick.name = None
      THEN /\ req' = [req EXCEPT ![r] = Done(q, "unavailable")]
           /\ rate' = IF q.turns = 0 THEN rates ELSE pick.rates
           /\ UNCHANGED attempts
      ELSE /\ req' = [req EXCEPT ![r] =
                [q EXCEPT !.pc = IF q.ask.stream THEN "streaming" ELSE "calling",
                          !.name = pick.name, !.turns = @ - 1, !.since = now,
                          !.tried = Append(@, pick.name)]]
           /\ rate' = [pick.rates EXCEPT ![pick.name] = Record(@)]
           /\ attempts' = [attempts EXCEPT ![pick.name] = Append(@, now)]

Idle == [pc |-> "idle"]
RateStates ==
  [calls : Seq(Nat), tokens : Seq([at : Nat, n : Nat]), calls_today : Nat, tokens_today : Nat,
   day : Nat, last_call : Nat, until : Nat, marked : Nat]
FreshRate == [calls |-> << >>, tokens |-> << >>, calls_today |-> 0, tokens_today |-> 0,
              day |-> Start - (Start % Day), last_call |-> 0, until |-> 0, marked |-> 0]

Init ==
  /\ now = Start
  /\ rate = [p \in Providers |-> FreshRate]
  /\ req = [r \in Requests |-> Idle]
  /\ ledger = [p \in Providers |-> 0]
  /\ log_errors = 0
  /\ attempts = [p \in Providers |-> << >>]

(* An explicit provider, or the one agent_routing.yaml pins the agent to,  *)
(* is the only candidate; else the order of the tier, or of the gateway.   *)
Override(ask) ==
  IF ask.provider # None THEN ask.provider
  ELSE IF ask.pin \in Providers THEN ask.pin ELSE None
Candidates(ask) ==
  IF Override(ask) # None THEN << Override(ask) >>
  ELSE Filtered(ask.tiers, {i \in 1..Len(ask.tiers) : ask.tiers[i] \in Providers})

(* Mutant: it waits until the provider can be used.                        *)
MustWaitOn(q) == q.override /\ ~Usable(q.candidates[1], q.ask, rate)

(* A pinned request waits while its provider cannot be used and cools down.*)
MustWait(q) ==
  LET p == q.candidates[1]
  IN  /\ q.override /\ now < q.deadline
      /\ ~Usable(p, q.ask, rate)
      /\ CooldownLeft(p) \in 1..MaxWait /\ rate[p].last_call # 0

(* The wait goes to sleep: pick() and snapshot() have swept the provider.  *)
GoToSleep(r, q) ==
  LET p == q.candidates[1]
      nap == IF CooldownLeft(p) < MaxSleep THEN CooldownLeft(p) ELSE MaxSleep
  IN  /\ req' = [req EXCEPT ![r] = [q EXCEPT !.pc = "waiting", !.wake = now + nap]]
      /\ rate' = [rate EXCEPT ![p] = Gc(@)]
      /\ UNCHANGED attempts

WaitOrTurn(r, q) ==
  \/ MustWait(q) /\ GoToSleep(r, q)
  \/ ~MustWait(q) /\ Turn(r, q, rate)

(* Mutant: the loop ends a turn early.                                     *)
FreshShort(ask) ==
  [pc |-> "idle", ask |-> ask, override |-> Override(ask) # None,
   candidates |-> Candidates(ask), turns |-> Len(Candidates(ask)) - 1,
   deadline |-> now + MaxWait, wake |-> now, since |-> now,
   name |-> None, tried |-> << >>, answer |-> None]

(* The locals of chat() before the wait and the loop.                      *)
Fresh(ask) ==
  [pc |-> "idle", ask |-> ask, override |-> Override(ask) # None,
   candidates |-> Candidates(ask), turns |-> Len(Candidates(ask)) + 1,
   deadline |-> now + MaxWait, wake |-> now, since |-> now,
   name |-> None, tried |-> << >>, answer |-> None]

(* chat() up to its first await in the wait or in the loop; a provider     *)
(* that does not exist is refused (400).                                   *)
Begin(r, ask) ==
  /\ req[r] = Idle
  /\ now <= LastArrival
  /\ IF Override(ask) \in Providers \union {None}
     THEN WaitOrTurn(r, Fresh(ask))
     ELSE /\ req' = [req EXCEPT ![r] = Done(Fresh(ask), "unknown")]
          /\ UNCHANGED <<rate, attempts>>
  /\ UNCHANGED <<now, ledger, log_errors>>

(* The sleep of a pinned request is over.                                  *)
Wake(r) ==
  /\ req[r].pc = "waiting"
  /\ now >= req[r].wake
  /\ WaitOrTurn(r, req[r])
  /\ UNCHANGED <<now, ledger, log_errors>>
-----------------------------------------------------------------------------
InCall(r) == req[r].pc \in {"calling", "retrying", "repairing"}
Log(p) == ledger' = [ledger EXCEPT ![p] = @ + 1]

(* The provider answers and the answer will do.                            *)
Answer(r, n) ==
  /\ InCall(r)
  /\ rate' = [rate EXCEPT ![req[r].name] = Spend(@, n)]
  /\ req' = [req EXCEPT ![r] = Done(@, "ok")]
  /\ Log(req[r].name)
  /\ UNCHANGED <<now, log_errors, attempts>>

(* The answer does not match the schema: the provider is asked to repair   *)
(* it, a call the bookkeeping does not see.                                *)
Mismatch(r) ==
  /\ req[r].pc \in {"calling", "retrying"}
  /\ req[r].ask.schema
  /\ req' = [req EXCEPT ![r].pc = "repairing"]
  /\ UNCHANGED <<now, rate, ledger, log_errors, attempts>>

(* The repaired answer does not match either: 503, and no row.             *)
MismatchAgain(r) ==
  /\ req[r].pc = "repairing"
  /\ req' = [req EXCEPT ![r] = Done(@, "invalid")]
  /\ UNCHANGED <<now, rate, ledger, log_errors, attempts>>

(* A transient error of the first call: a pause of up to 2 s...            *)
Pause(r, kind) ==
  /\ req[r].pc = "calling"
  /\ Transient(kind)
  /\ req' = [req EXCEPT ![r].pc = "pausing"]
  /\ UNCHANGED <<now, rate, ledger, log_errors, attempts>>

(* ... and the same call again, unseen by the bookkeeping too.             *)
Retry(r) ==
  /\ req[r].pc = "pausing"
  /\ req' = [req EXCEPT ![r].pc = "retrying"]
  /\ UNCHANGED <<now, rate, ledger, log_errors, attempts>>

Remaining(q) == Filtered(q.candidates, {i \in 1..Len(q.candidates) : q.candidates[i] # q.name})

Marked(q, kind) == [rate EXCEPT ![q.name] = Mark(@, BackoffFor(kind, q.ask))]

(* After the error row of r's attempt: the next candidate has its turn in  *)
(* the same step, or it is 502.                                            *)
GoOn(r, rates, final) ==
  LET q == req[r]
  IN  IF final
      THEN /\ req' = [req EXCEPT ![r] = Done(@, "bad_gateway")]
           /\ rate' = rates
           /\ UNCHANGED attempts
      ELSE Turn(r, [q EXCEPT !.candidates = Remaining(q)], rates)

(* The error row cannot be written either: log_call() raises out of the    *)
(* handler, past the other candidates.                                     *)
Unwritten(r, rates) ==
  /\ log_errors < MaxLogErrors
  /\ log_errors' = log_errors + 1
  /\ req' = [req EXCEPT ![r] = Done(@, "crashed")]
  /\ rate' = rates
  /\ UNCHANGED <<ledger, attempts>>

(* Mutant: a failed call is not logged.                                    *)
FailUnlogged(r, kind) ==
  LET q == req[r]
  IN  /\ InCall(r)
      /\ q.pc = "calling" => ~Transient(kind)
      /\ GoOn(r, Marked(q, kind), q.override \/ Final(kind))
      /\ UNCHANGED <<now, ledger, log_errors>>

(* The call failed for good: the provider backs off and the failure is     *)
(* logged.                                                                 *)
Fail(r, kind) ==
  LET q == req[r]
  IN  /\ InCall(r)
      /\ q.pc = "calling" => ~Transient(kind)
      /\ \/ /\ GoOn(r, Marked(q, kind), q.override \/ Final(kind))
            /\ Log(q.name)
            /\ UNCHANGED log_errors
         \/ Unwritten(r, Marked(q, kind))
      /\ UNCHANGED now

(* The answer will do but its row cannot be written: the exception is      *)
(* taken for the provider's, the answer is thrown away and the next        *)
(* candidate is asked for another.  No backoff, the tokens are spent.      *)
AnswerUnnoted(r, n) ==
  LET q == req[r]
      spent == [rate EXCEPT ![q.name] = Spend(@, n)]
  IN  /\ InCall(r)
      /\ log_errors < MaxLogErrors
      /\ \/ /\ GoOn(r, spent, q.override)
            /\ Log(q.name)
            /\ log_errors' = log_errors + 1
         \/ Unwritten(r, spent)
      /\ UNCHANGED now

(* A stream ends, well or not: one row, no backoff, no tokens.             *)
StreamEnds(r) ==
  /\ req[r].pc = "streaming"
  /\ req' = [req EXCEPT ![r] = Done(@, "streamed")]
  /\ Log(req[r].name)
  /\ UNCHANGED <<now, rate, log_errors, attempts>>

(* The client of a stream goes away: the generator is cancelled where it   *)
(* waits, which no handler of an Exception sees, and nothing is logged; as *)
(* when log_call() raises for the error row too.                           *)
StreamDropped(r) ==
  /\ req[r].pc = "streaming"
  /\ req' = [req EXCEPT ![r] = Done(@, "dropped")]
  /\ UNCHANGED <<now, rate, ledger, log_errors, attempts>>

Tick ==
  /\ now < MaxTime
  /\ now' = now + 1
  /\ UNCHANGED <<rate, req, ledger, log_errors, attempts>>

Steps(r) ==
  \/ Wake(r)
  \/ \E n \in Tokens : Answer(r, n) \/ AnswerUnnoted(r, n)
  \/ Mismatch(r)
  \/ MismatchAgain(r)
  \/ \E kind \in Kinds : Pause(r, kind) \/ Fail(r, kind)
  \/ Retry(r)
  \/ StreamEnds(r)
  \/ StreamDropped(r)

Next ==
  \/ \E r \in Requests : Steps(r) \/ \E ask \in Asks : Begin(r, ask)
  \/ Tick

(* A provider answers or the client times out, a sleeper is woken.         *)
Fairness == WF_vars(Tick) /\ \A r \in Requests : WF_vars(Steps(r))

Spec == Init /\ [][Next]_vars /\ Fairness
-----------------------------------------------------------------------------
TypeOK ==
  /\ now \in Start..MaxTime
  /\ rate \in [Providers -> RateStates] /\ attempts \in [Providers -> Seq(Nat)]
  /\ ledger \in [Providers -> Nat] /\ log_errors \in 0..MaxLogErrors
  /\ \A r \in Requests :
       \/ req[r] = Idle
       \/ /\ req[r].pc \in {"waiting", "calling", "pausing", "retrying", "repairing",
                            "streaming", "done"}
          /\ req[r].answer \in {None, "ok", "unavailable", "unknown", "bad_gateway",
                                "invalid", "streamed", "dropped", "crashed"}
          /\ req[r].pc # "done" => req[r].turns \in 0..Len(Candidates(req[r].ask)) + 1
          /\ req[r].name \in Providers \union {None}

(* However many requests share a provider, and whenever its window was     *)
(* swept: of rpm + 1 attempts in a row that start there, the last starts   *)
(* more than a minute after the first.                                     *)
RpmRespected ==
  \A p \in Providers : \A i \in 1..Len(attempts[p]) :
    i + Limits[p].rpm <= Len(attempts[p])
      => attempts[p][i + Limits[p].rpm] > attempts[p][i] + Minute

(* Of rpd + 1 attempts in a row, the last is on a later day.               *)
RpdRespected ==
  \A p \in Providers : \A i \in 1..Len(attempts[p]) :
    i + Limits[p].rpd <= Len(attempts[p])
      => attempts[p][i + Limits[p].rpd] \div Day > attempts[p][i] \div Day

(* Two attempts at one provider, of any requests, start a cooldown apart.  *)
CooldownRespected ==
  \A p \in Providers : \A i \in 2..Len(attempts[p]) :
    attempts[p][i] - attempts[p][i - 1] >= Limits[p].cooldown

(* The limits of routing.py are kept by all requests together.             *)
LimitsKept == RpmRespected /\ RpdRespected /\ CooldownRespected

(* A request never starts a second attempt at a provider that failed it.   *)
TriedOnce == \A r \in Requests : req[r] # Idle => IsInjective(req[r].tried)

(* Every attempt is in the ledger when it is over, whatever came of it,    *)
(* but for the answers that did not match the schema twice, the streams    *)
(* that nobody read to the end, and the rows that could not be written.    *)
LedgerAccounts ==
  \A p \in Providers :
    LET unlogged == {r \in Requests : /\ req[r] # Idle /\ req[r].name = p
                                      /\ req[r].pc # "done" \/ req[r].answer \in {"invalid", "dropped", "crashed"}}
    IN  Len(attempts[p]) = ledger[p] + Cardinality(unlogged)

(* What a request attempted: each provider once, each attempt on record.   *)
AttemptsAccounted == TypeOK /\ TriedOnce /\ LedgerAccounts

Ends(r, answer) == req[r] # req'[r] /\ req'[r].pc = "done" /\ req'[r].answer = answer

(* Every provider of the order has failed the request, or cannot be used.  *)
NobodyLeft(q, order) ==
  \A i \in 1..Len(order) : order[i] \in ToSet(q.tried) \/ ~Usable(order[i], q.ask, rate)

(* "All upstream providers are currently unavailable" is said only when    *)
(* every candidate has failed this request or cannot be used at that time. *)
UnavailableOnlyWhenSo ==
  [][\A r \in Requests : Ends(r, "unavailable") =>
        NobodyLeft(req'[r], Candidates(req'[r].ask))]_vars

(* The end of a backoff comes nearer only through a request whose attempt  *)
(* had started when the backoff was set: nobody starts one during it.      *)
BackoffCutOnlyByOverlap ==
  [][\A p \in Providers : rate'[p].until < rate[p].until =>
        \E r \in Requests : /\ InCall(r) /\ req[r] # req'[r]
                            /\ req[r].name = p /\ req[r].since <= rate[p].marked]_vars

(* Every request is answered: the failover loop, the wait of a pinned      *)
(* request and the retries all end.                                        *)
EveryRequestAnswered ==
  \A r \in Requests : (req[r] # Idle) ~> (req[r].pc = "done")

(* agent_routing.yaml: "The pin is a preference, not a hard binding" and,  *)
(* after a short wait, "the gateway falls back through the normal failover *)
(* ladder".  It does not hold: a pinned request that has waited in vain    *)
(* has no other candidate.                                                 *)
PinIsPreference ==
  [][\A r \in Requests :
        Ends(r, "unavailable") /\ req[r].pc = "waiting" /\ req'[r].ask.provider = None
          => NobodyLeft(req'[r], Order)]_vars
=============================================================================
