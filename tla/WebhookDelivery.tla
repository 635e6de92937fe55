---------------------------- MODULE WebhookDelivery ----------------------------
(***************************************************************************)
(* Webhooks and the vendors' redeliveries: the gateway's route             *)
(* /v1/channels/{name}/webhook, the receiver of the SMS channel and the    *)
(* LINE bridge.  Each answers 200 after all is done, the replies included, *)
(* an exception becomes a 500, and a vendor without a 200 in time delivers *)
(* again, perhaps while the first delivery is still being handled.         *)
(* Nothing here knows a delivery that was handled before.                  *)
(***************************************************************************)
EXTENDS Naturals, FiniteSets

CONSTANTS
  Deliveries,      \* what vendors deliver
  HookTasks,       \* requests that are handled at a time
  LineBatch,       \* bound: events of a LINE delivery; elsewhere it is one message
  MaxAttempts      \* how often a vendor delivers the same

ASSUME DeliveryAssumption == LineBatch \in Nat \ {0} /\ MaxAttempts \in Nat

VARIABLES
  route,           \* route[d]: where d goes
  attempts,        \* attempts[d]: deliveries of d so far
  acked,           \* the deliveries whose vendor has its 200
  hook,            \* hook[t]: the request in t: its delivery, the event at hand, the step
  rows,            \* rows[d]: inbound_message rows the gateway's route wrote for d
  answers,         \* answers[d][i]: replies to event i that went out
  dismissed        \* events left without a reply on purpose: not for the agent, refused,
                   \*   the gateway unreachable, the vendor's limit reached

delivery_vars == <<route, attempts, acked, hook, rows, answers, dismissed>>

NoHook == [step |-> "none"]
Events(d) == 1..(IF route[d] = "line" THEN LineBatch ELSE 1)

DeliveryInit ==
  /\ route \in [Deliveries -> {"gateway", "sms", "line"}]
  /\ attempts = [d \in Deliveries |-> 0] /\ acked = {}
  /\ hook = [t \in HookTasks |-> NoHook]
  /\ rows = [d \in Deliveries |-> 0]
  /\ answers = [d \in Deliveries |-> [i \in 1..LineBatch |-> 0]]
  /\ dismissed = {}

Deliver(t, d) ==
  /\ hook[t] = NoHook /\ d \notin acked /\ attempts[d] < MaxAttempts
  /\ attempts' = [attempts EXCEPT ![d] = @ + 1]
  /\ hook' = [hook EXCEPT ![t] = [step |-> "begin", delivery |-> d, event |-> 1]]
  /\ UNCHANGED <<route, acked, rows, answers, dismissed>>

Goes(t, step) == hook' = [hook EXCEPT ![t].step = step]

(* The next event of the batch; after the last the 200 goes out.           *)
Proceeds(t) ==
  LET h == hook[t] IN
  hook' = [hook EXCEPT ![t] = IF h.event + 1 \in Events(h.delivery)
                              THEN [h EXCEPT !.event = @ + 1, !.step = "begin"]
                              ELSE [h EXCEPT !.step = "200"]]

(* Mutant: an exception is logged and the batch goes on.                   *)
RaisesLogged(t) == Proceeds(t)

(* An exception leaves the handler: 500, and the rest of the batch waits.  *)
Raises(t) == hook' = [hook EXCEPT ![t] = NoHook]

Replied(d, i) == answers' = [answers EXCEPT ![d][i] = @ + 1]
Dismiss(d, i) == dismissed' = dismissed \union {<<d, i>>}

(* on_message() and the judgement, up to the first message sent to the     *)
(* vendor.  On the gateway's route what passes is written to the audit     *)
(* log first; 429 is not a 200.                                            *)
HandleBegins(t) ==
  LET d == hook[t].delivery
      i == hook[t].event
  IN  /\ hook[t].step = "begin"
      /\ \/ /\ Dismiss(d, i) /\ Proceeds(t) /\ UNCHANGED rows
         \/ /\ Goes(t, IF route[d] = "line" THEN "acknowledge" ELSE "send") /\ UNCHANGED dismissed
            /\ rows' = IF route[d] = "gateway" THEN [rows EXCEPT ![d] = @ + 1] ELSE rows
         \/ /\ route[d] = "line" /\ Goes(t, "send") /\ UNCHANGED <<rows, dismissed>>
         \/ Raises(t) /\ UNCHANGED <<rows, dismissed>>
         \/ /\ route[d] = "gateway" /\ hook' = [hook EXCEPT ![t] = NoHook]
            /\ UNCHANGED <<rows, dismissed>>
      /\ UNCHANGED <<route, attempts, acked, answers>>

(* LINE: a paired sender is told that the agent works.                     *)
Acknowledge(t) ==
  LET d == hook[t].delivery
      i == hook[t].event
  IN  /\ hook[t].step = "acknowledge"
      /\ \/ Goes(t, "agent") /\ UNCHANGED dismissed
         \/ Dismiss(d, i) /\ Proceeds(t)
         \/ Raises(t) /\ UNCHANGED dismissed
      /\ UNCHANGED <<route, attempts, acked, rows, answers>>

(* LINE: the agent answers, or fails, and then the answer says so.         *)
AgentAnswers(t) ==
  /\ hook[t].step = "agent"
  /\ Goes(t, "send")
  /\ UNCHANGED <<route, attempts, acked, rows, answers, dismissed>>

(* send(): it works; the vendor refuses (429 and the like, as a value); or *)
(* it raises, with the message sent or not.                                *)
SendEnds(t) ==
  LET d == hook[t].delivery
      i == hook[t].event
  IN  /\ hook[t].step = "send"
      /\ \/ Replied(d, i) /\ Proceeds(t) /\ UNCHANGED dismissed
         \/ Dismiss(d, i) /\ Proceeds(t) /\ UNCHANGED answers
         \/ Replied(d, i) /\ Raises(t) /\ UNCHANGED dismissed
         \/ Raises(t) /\ UNCHANGED <<answers, dismissed>>
      /\ UNCHANGED <<route, attempts, acked, rows>>

(* The 200, which the vendor gets or does not wait for.                    *)
Finish(t) ==
  /\ hook[t].step = "200"
  /\ \/ acked' = acked \union {hook[t].delivery}
     \/ UNCHANGED acked
  /\ hook' = [hook EXCEPT ![t] = NoHook]
  /\ UNCHANGED <<route, attempts, rows, answers, dismissed>>

ReceiversDie ==
  /\ \E t \in HookTasks : hook[t] # NoHook
  /\ hook' = [t \in HookTasks |-> NoHook]
  /\ UNCHANGED <<route, attempts, acked, rows, answers, dismissed>>

DeliveryNext ==
  \/ \E t \in HookTasks :
       \/ \E d \in Deliveries : Deliver(t, d)
       \/ HandleBegins(t) \/ Acknowledge(t) \/ AgentAnswers(t) \/ SendEnds(t) \/ Finish(t)
  \/ ReceiversDie

DeliverySpec == DeliveryInit /\ [][DeliveryNext]_delivery_vars
-------------------------------------------------------------------------------
(* The values of the variables.                                            *)
Hooks == [step : {"begin", "acknowledge", "agent", "send", "200"}, delivery : Deliveries,
          event : 1..LineBatch]

DeliveryTypes ==
  /\ route \in [Deliveries -> {"gateway", "sms", "line"}]
  /\ attempts \in [Deliveries -> Nat] /\ rows \in [Deliveries -> Nat]
  /\ answers \in [Deliveries -> [1..LineBatch -> Nat]]
  /\ hook \in [HookTasks -> Hooks \union {NoHook}]

Settled(d, i) == answers[d][i] > 0 \/ <<d, i>> \in dismissed

(* Exceptions, crashes, lost 200s and overlapping redeliveries cost no     *)
(* message: a delivery the vendor will not repeat has been settled in      *)
(* full; a batch is settled from its front; and no delivery is answered,   *)
(* or audited, oftener than it was made, nor answered without its row.     *)
AckedIsSettled ==
  \A d \in Deliveries :
    /\ d \in acked => \A i \in Events(d) : Settled(d, i)
    /\ \A i, j \in Events(d) : i < j /\ Settled(d, j) => Settled(d, i)
    /\ \A i \in Events(d) : answers[d][i] <= IF route[d] = "gateway" THEN rows[d] ELSE attempts[d]
    /\ rows[d] <= attempts[d]

(* Over exceptions within a batch, overlapping redeliveries, lost 200s and *)
(* crashes: a vendor stops to deliver only what was settled in full.       *)
WebhookAtLeastOnce ==
  INSTANCE AtLeastOnce WITH
    settled <- {d \in Deliveries : \A i \in Events(d) : Settled(d, i)},
    forgotten <- acked
WebhookImplementsAtLeastOnce == WebhookAtLeastOnce!Spec

(* With the types: what the receivers promise a vendor, in each state and in each step.*)
WebhookPromiseKept == [](DeliveryTypes /\ AckedIsSettled) /\ WebhookImplementsAtLeastOnce
===============================================================================
