------------------------------ MODULE EmbedRing ------------------------------
(***************************************************************************)
(* The ring of embedders of glc/embedders.py behind POST /v1/embed: the    *)
(* rate state of each (EmbedRateState) and embed_with_failover(), run by   *)
(* several requests on one event loop.  What lies between two awaits is    *)
(* one step: from a position in the ring, past the embedders that cannot   *)
(* be used, to the next call.  Unlike Router.record(), a call is recorded  *)
(* when it has succeeded, after the await.                                 *)
(***************************************************************************)
EXTENDS Clock, Integers, Sequences, FiniteSets, SequencesExt, Functions

CONSTANTS
  EmbedOrder,              \* EMBED_ORDER: the embedders that are there, in order
  EmbedRpm, EmbedCooldown, \* of each; 0 turns the check off
  EmbedSteps,              \* BACKOFF_STEPS, 5, 10 and 15 s
  EmbedMinute,             \* the window of 60 s
  EmbedTasks,              \* how many requests there are at a time
  EmbedMaxCalls,           \* bound: calls
  NoEmbedder               \* the request names none

Embedders == ToSet(EmbedOrder)

ASSUME EmbedAssumption ==
  /\ EmbedOrder \in Seq(Embedders) /\ IsInjective(EmbedOrder) /\ NoEmbedder \notin Embedders
  /\ EmbedSteps \in Seq(Nat) /\ EmbedSteps # << >> /\ EmbedMinute \in Nat
  /\ IsFiniteSet(EmbedTasks)
  /\ \A e \in Embedders : EmbedRpm[e] \in Nat /\ EmbedCooldown[e] \in 0..EmbedMinute

VARIABLES
  embedder,     \* embedder[e]: the EmbedRateState of e
  embed,        \* embed[r]: the locals of embed_with_failover() for request r
  embed_past    \* history: embed_past[e], its calls, its successes of the last minute,
                \*   and its failures since the last success

embed_vars == <<embedder, embed, embed_past>>

(* Mutant: the backoff starts over after its last step.                    *)
EmbedFailedWrapping(s) ==
  [s EXCEPT !.step = @ + 1, !.until = now + EmbedSteps[1 + (s.step % Len(EmbedSteps))]]

(* mark_failure(): the last step of the backoff is kept.                   *)
EmbedFailed(s) ==
  LET last == Len(EmbedSteps)
  IN  [s EXCEPT !.step = @ + 1,
                !.until = now + EmbedSteps[IF s.step < last THEN s.step + 1 ELSE last]]

(* record(), of a success: it ends a backoff, whoever caused that.         *)
EmbedRecord(s) ==
  [s EXCEPT !.calls = Append(@, now), !.last_call = now, !.step = 0, !.until = 0]

EmbedGc(s) == [s EXCEPT !.calls = NotBefore(@, now - EmbedMinute)]

(* Mutant: the window is full when it holds one call more.                 *)
EmbedCanUseOneMore(e) ==
  LET s == EmbedGc(embedder[e])
  IN  /\ now >= s.until
      /\ now - s.last_call >= EmbedCooldown[e]
      /\ EmbedRpm[e] > 0 => Len(s.calls) <= EmbedRpm[e]

(* can_use(): no backoff, no cooldown, room in the window.                 *)
EmbedCanUse(e) ==
  LET s == EmbedGc(embedder[e])
  IN  /\ now >= s.until
      /\ now - s.last_call >= EmbedCooldown[e]
      /\ EmbedRpm[e] > 0 => Len(s.calls) < EmbedRpm[e]

EmbedIdle == [pc |-> "idle", left |-> << >>, pinned |-> FALSE]
EmbedFresh == [calls |-> << >>, last_call |-> -EmbedMinute, step |-> 0, until |-> 0]
NoPast == [calls |-> 0, oks |-> << >>, failures |-> << >>]

EmbedInit ==
  /\ embedder = [e \in Embedders |-> EmbedFresh]
  /\ embed = [r \in EmbedTasks |-> EmbedIdle]
  /\ embed_past = [e \in Embedders |-> NoPast]

(* The loop with what is left of its candidates: the first that can be     *)
(* used is called; without one the request ends (503, or 429 if it named   *)
(* one).  can_use() sweeps the window of those it looks at.                *)
EmbedGoOn(r, left, pinned, states, past) ==
  LET usable == {i \in 1..Len(left) : EmbedCanUse(left[i])}
      first == CHOOSE i \in usable : \A j \in usable : i <= j
      looked == IF usable = {} THEN ToSet(left) ELSE {left[i] : i \in 1..first}
  IN  /\ embedder' = [e \in Embedders |-> IF e \in looked THEN EmbedGc(states[e])
                                                          ELSE states[e]]
      /\ IF usable = {}
         THEN embed' = [embed EXCEPT ![r] = EmbedIdle] /\ embed_past' = past
         ELSE /\ embed' = [embed EXCEPT ![r] =
                   [pc |-> "calling", left |-> SubSeq(left, first, Len(left)),
                    pinned |-> pinned]]
              /\ embed_past' = [past EXCEPT ![left[first]].calls = @ + 1]

EmbedCallsMade == FoldFunction(LAMBDA past, n : n + past.calls, 0, embed_past)

(* POST /v1/embed: any embedder, or the one that is named.                 *)
EmbedBegin(r, name) ==
  /\ embed[r] = EmbedIdle
  /\ EmbedCallsMade < EmbedMaxCalls
  /\ EmbedGoOn(r, IF name = NoEmbedder THEN EmbedOrder ELSE <<name>>,
               name # NoEmbedder, embedder, embed_past)
  /\ UNCHANGED now

EmbedAnswers(r) ==
  LET e == embed[r].left[1]
  IN  /\ embed[r].pc = "calling"
      /\ embedder' = [embedder EXCEPT ![e] = EmbedRecord(@)]
      /\ embed' = [embed EXCEPT ![r] = EmbedIdle]
      /\ embed_past' = [embed_past EXCEPT ![e].failures = << >>,
           ![e].oks = Append(NotBefore(@, now - EmbedMinute), now)]
      /\ UNCHANGED now

(* The call fails: the embedder backs off, and the loop goes on, unless    *)
(* the request named this embedder.                                        *)
EmbedFails(r) ==
  LET e == embed[r].left[1]
      states == [embedder EXCEPT ![e] = EmbedFailed(@)]
      past == [embed_past EXCEPT ![e].failures = Append(@, now)]
  IN  /\ embed[r].pc = "calling"
      /\ IF embed[r].pinned
         THEN /\ embedder' = states /\ embed_past' = past
              /\ embed' = [embed EXCEPT ![r] = EmbedIdle]
         ELSE EmbedGoOn(r, Tail(embed[r].left), FALSE, states, past)
      /\ UNCHANGED now

EmbedNext ==
  \/ \E r \in EmbedTasks : \/ EmbedAnswers(r) \/ EmbedFails(r)
                           \/ \E name \in Embedders \union {NoEmbedder} : EmbedBegin(r, name)
  \/ Passes /\ UNCHANGED embed_vars

EmbedSpec == ClockInit /\ EmbedInit /\ [][EmbedNext]_<<now, embed_vars>>
------------------------------------------------------------------------------
(* A call starts only when the backoff of all failures in a row before it  *)
(* is over: 5 s after the first, 10 s after the second, 15 s from then on, *)
(* counted from the latest, whichever of the concurrent requests saw them  *)
(* and in whatever order their answers came; one success ends it.          *)
EmbedCallsWhenDue ==
  [][\A r \in EmbedTasks :
       embed'[r].pc = "calling" /\ embed'[r] # embed[r] =>
         LET failures == embed_past[embed'[r].left[1]].failures
             n == Len(failures)
         IN  n > 0 => now >= failures[n] + EmbedSteps[IF n < Len(EmbedSteps) THEN n
                                                      ELSE Len(EmbedSteps)]]_embed

(* As a call is recorded only when it has succeeded, concurrent requests   *)
(* overrun the limit of a minute; but by no more than the other requests   *)
(* there are: successes of a minute and calls under way together stay      *)
(* below rpm and one for each request.                                     *)
EmbedOverrunBounded ==
  \A e \in Embedders :
    LET oks == embed_past[e].oks
        recent == {i \in 1..Len(oks) : oks[i] >= now - EmbedMinute}
        under_way == {r \in EmbedTasks : embed[r].pc = "calling" /\ embed[r].left[1] = e}
    IN  EmbedRpm[e] > 0 =>
          Cardinality(recent) + Cardinality(under_way) < EmbedRpm[e] + Cardinality(EmbedTasks)
==============================================================================
