------------------------------- MODULE TierRing -------------------------------
(***************************************************************************)
(* _classify_tier() of glc/routes/chat.py with its RouterPool: a request   *)
(* with auto_route asks small models how hard its prompt is, one after the *)
(* other until one gives a tier, and takes the tier of the token count     *)
(* when none does.  Requests interleave where they await a model.  Unlike  *)
(* the workers' ring this one backs nobody off after an error.  The rate   *)
(* state is that of ProviderRouting; here it is the calls of the last      *)
(* minute.                                                                 *)
(***************************************************************************)
EXTENDS Integers, Sequences, FiniteSets, SequencesExt, Clock

CONSTANTS
  TierOrder,       \* the routers in the order of ROUTER_ORDER, each once
  TierRpm,         \* TierRpm[n]: LIMITS[n]["rpm"]
  TierMinute,      \* the window of RateState.gc()
  TierTasks,       \* requests at a time
  TierMaxPosts,    \* bound: calls of routers
  NoRouter

ASSUME TierAssumption ==
  /\ TierOrder \in Seq(ToSet(TierOrder)) /\ IsInjective(TierOrder)
  /\ NoRouter \notin ToSet(TierOrder) /\ TierMinute \in Nat \ {0}
  /\ TierRpm \in [ToSet(TierOrder) -> Nat \ {0}] /\ TierMaxPosts \in Nat
  /\ IsFiniteSet(TierTasks)

Routers == ToSet(TierOrder)
Sizes == {"below 1000", "to 8000", "above 8000"}     \* of _estimate_tokens(prompt)

VARIABLES
  router_calls,    \* router_calls[n]: the recorded times
  classify,        \* classify[t]: the locals of _classify_tier() in request t
  tier_rows,       \* tier_rows[n]: ledger rows of router n
  tier_posts,      \* history: the calls, each with its router and time
  died             \* history: calls whose request died before their row was written

tier_vars == <<router_calls, classify, tier_rows, tier_posts, died>>

TierIdle == [pc |-> "idle"]

TierInit ==
  /\ router_calls = [n \in Routers |-> << >>]
  /\ classify = [t \in TierTasks |-> TierIdle]
  /\ tier_rows = [n \in Routers |-> 0]
  /\ tier_posts = << >> /\ died = [n \in Routers |-> 0]

TierFromCount(size) ==
  CASE size = "below 1000" -> "TINY" [] size = "to 8000" -> "LARGE" [] size = "above 8000" -> "HUGE"

(* Mutant: what the model says stands.                                     *)
TierAsSaid(said) == said

(* _parse_tier(); HUGE is what only the count can say.                     *)
TierSaid(said) == IF said = "HUGE" THEN "LARGE" ELSE said

RecentCalls(n) == NotBefore(router_calls[n], now - TierMinute)
RouterUsable(n) == Len(RecentCalls(n)) < TierRpm[n]

Decided(t, c, tier, by) ==
  classify' = [classify EXCEPT ![t] = [pc |-> "decided", size |-> c.size, tier |-> tier,
                                       by |-> by, asked |-> c.asked]]

(* The loop up to the next await: routers that cannot be used are passed   *)
(* over; the next is recorded and called; or the count decides.            *)
AskNext(t, c, left) ==
  LET usable == {i \in 1..Len(left) : RouterUsable(left[i])}
      first == CHOOSE i \in usable : \A j \in usable : i <= j
      n == left[first]
  IN  IF usable = {}
      THEN /\ Decided(t, c, TierFromCount(c.size), NoRouter)
           /\ UNCHANGED <<router_calls, tier_posts>>
      ELSE /\ Len(tier_posts) < TierMaxPosts
           /\ classify' = [classify EXCEPT ![t] = [pc |-> "asked", size |-> c.size, by |-> n,
                                                   left |-> SubSeq(left, first + 1, Len(left)),
                                                   asked |-> Append(c.asked, n)]]
           /\ router_calls' = [router_calls EXCEPT ![n] = Append(RecentCalls(n), now)]
           /\ tier_posts' = Append(tier_posts, [router |-> n, at |-> now])

(* A prompt above 8000 tokens is shown to nobody.                          *)
ClassifyBegins(t, size) ==
  LET c == [size |-> size, asked |-> << >>]
  IN  /\ classify[t] = TierIdle
      /\ IF size = "above 8000"
         THEN Decided(t, c, "HUGE", NoRouter) /\ UNCHANGED <<router_calls, tier_posts>>
         ELSE AskNext(t, c, TierOrder)
      /\ UNCHANGED <<now, tier_rows, died>>

LogRow(n) == tier_rows' = [tier_rows EXCEPT ![n] = @ + 1]

(* An answer with a tier in it.                                            *)
RouterSays(t, said) ==
  /\ classify[t].pc = "asked"
  /\ Decided(t, classify[t], TierSaid(said), classify[t].by)
  /\ LogRow(classify[t].by)
  /\ UNCHANGED <<now, router_calls, tier_posts, died>>

(* No tier in it, or an error, also one of the ledger's while it notes an  *)
(* answer: a row, and the next router.                                     *)
RouterFails(t) ==
  /\ classify[t].pc = "asked"
  /\ LogRow(classify[t].by)
  /\ AskNext(t, classify[t], classify[t].left)
  /\ UNCHANGED <<now, died>>

(* The row of the error cannot be written either, or the client leaves.    *)
ClassifyDies(t) ==
  /\ classify[t].pc = "asked"
  /\ died' = [died EXCEPT ![classify[t].by] = @ + 1]
  /\ classify' = [classify EXCEPT ![t] = TierIdle]
  /\ UNCHANGED <<now, router_calls, tier_rows, tier_posts>>

(* chat() goes on: 503 for HUGE, else the order of providers of the tier.  *)
Routed(t) ==
  /\ classify[t].pc = "decided"
  /\ classify' = [classify EXCEPT ![t] = TierIdle]
  /\ UNCHANGED <<now, router_calls, tier_rows, tier_posts, died>>

TierNext ==
  \/ \E t \in TierTasks :
       \/ \E size \in Sizes : ClassifyBegins(t, size)
       \/ \E said \in {"TINY", "LARGE", "HUGE"} : RouterSays(t, said)
       \/ RouterFails(t) \/ ClassifyDies(t) \/ Routed(t)
  \/ Passes /\ UNCHANGED tier_vars

TierSpec == ClockInit /\ TierInit /\ [][TierNext]_<<now, tier_vars>>
-------------------------------------------------------------------------------
(* A request is refused as HUGE exactly if its prompt is, whatever a model *)
(* says; the tier is the count's unless the last router asked gave it; no  *)
(* router is asked twice for one request, nor oftener in a minute than its *)
(* limit by all requests together; and each call has its ledger row, but   *)
(* for those under way and those whose request died.                       *)
TierHonest ==
  /\ \A t \in TierTasks : classify[t].pc = "decided" =>
       LET d == classify[t] IN
       /\ d.tier = "HUGE" <=> d.size = "above 8000"
       /\ IF d.by = NoRouter THEN d.tier = TierFromCount(d.size) ELSE d.by = Last(d.asked)
       /\ IsInjective(d.asked)
  /\ \A i \in DOMAIN tier_posts :
       LET p == tier_posts[i] IN
       Cardinality({j \in 1..i : /\ tier_posts[j].router = p.router
                                 /\ tier_posts[j].at >= p.at - TierMinute}) <= TierRpm[p.router]
  /\ \A n \in Routers :
       tier_rows[n] + died[n]
         + Cardinality({t \in TierTasks : classify[t].pc = "asked" /\ classify[t].by = n})
       = Cardinality({i \in DOMAIN tier_posts : tier_posts[i].router = n})
===============================================================================
