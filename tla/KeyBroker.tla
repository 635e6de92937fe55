------------------------------ MODULE KeyBroker ------------------------------
(***************************************************************************)
(* HybridBroker of glc/security/broker.py: a chat call mints a capability  *)
(* token (capabilities.py), then a thread of the executor looks for the    *)
(* sandbox of its provider, makes one if there is none that runs, and has  *)
(* broker_entrypoint.py verify the token and make the call there.  The     *)
(* other calls (embed, stt, tts) go to one function that Modal keeps, with *)
(* a token for the kind instead of a provider.  Threads share the table of *)
(* sandboxes without a lock, so each step below is one access to it or one *)
(* call to Modal.                                                          *)
(***************************************************************************)
EXTENDS Clock, Integers, FiniteSets

CONSTANTS
  BoxProviders,     \* LLM_PROVIDERS
  SharedKinds,      \* the kinds that broker_exec_shared serves
  Boxes, NoBox,     \* sandboxes
  BrokerTasks,      \* the threads of the executor
  CapabilityTtl,    \* 30 s
  BrokerMaxCalls    \* bound: calls

NoToken == -1
Scopes == BoxProviders \union SharedKinds    \* what a token is for

ASSUME BrokerAssumption ==
  /\ NoBox \notin Boxes \union BoxProviders
  /\ BoxProviders \cap SharedKinds = {} /\ BrokerTasks \cap Boxes = {}
  /\ CapabilityTtl \in Nat /\ BrokerMaxCalls \in Nat

VARIABLES
  sandboxes,   \* sandboxes[p]: the _sandboxes of the broker, or NoBox
  box,         \* box[b]: the provider whose key sandbox b holds; whether it runs
  task,        \* task[t]: the locals of call() and _exec() in thread t
  calls_made,  \* history: how many calls there were
  raced,       \* history: threads and sandboxes that were not alone, see LookUpBox
  executed     \* history: what was executed for which token, where and when

broker_vars == <<sandboxes, box, task, calls_made, raced, executed>>

BrokerIdle == [pc |-> "idle"]
Unmade == [provider |-> NoBox, running |-> FALSE]

BrokerInit ==
  /\ sandboxes = [p \in BoxProviders |-> NoBox]
  /\ box = [b \in Boxes |-> Unmade]
  /\ task = [t \in BrokerTasks |-> BrokerIdle]
  /\ calls_made = 0 /\ raced = {} /\ executed = {}

Handed(t, s, exp) ==
  /\ task[t] = BrokerIdle
  /\ calls_made < BrokerMaxCalls
  /\ calls_made' = calls_made + 1
  /\ task' = [task EXCEPT ![t] = [pc |-> IF s \in BoxProviders THEN "lookup" ELSE "exec",
                                  scope |-> s, exp |-> exp, box |-> NoBox]]
  /\ UNCHANGED <<sandboxes, box, raced, executed>>

(* mint() comes first, then the executor or Modal runs the call some time. *)
MintToken(t, s) == Handed(t, s, now + CapabilityTtl)

(* enabled() asks every sandbox for its descriptors, without a token.      *)
AskEnabled(t, p) == Handed(t, p, NoToken)

(* The threads between the look-up for p and the table.                    *)
MakingBox(p) ==
  {t \in BrokerTasks : /\ task[t] # BrokerIdle /\ task[t].scope = p
                       /\ task[t].pc \in {"poll", "create", "store"}}

(* _sandbox_for() reads the table (and, for the history, all who are at it *)
(* for this provider have raced, with the sandboxes they have made)...     *)
LookUpBox(t) ==
  LET b == sandboxes[task[t].scope]
      others == MakingBox(task[t].scope)
      made == {task[u].box : u \in {u \in others : task[u].pc = "store"}}
  IN  /\ task[t].pc = "lookup"
      /\ task' = [task EXCEPT ![t].pc = IF b = NoBox THEN "create" ELSE "poll",
                              ![t].box = b]
      /\ raced' = IF others = {} THEN raced \ {t} ELSE raced \union {t} \union others \union made
      /\ UNCHANGED <<sandboxes, box, calls_made, executed>>

(* ... and asks Modal whether that sandbox runs; a poll that fails counts  *)
(* as no.                                                                  *)
PollBox(t) ==
  /\ task[t].pc = "poll"
  /\ \/ /\ task' = [task EXCEPT ![t].pc = IF box[task[t].box].running THEN "exec" ELSE "create"]
        /\ UNCHANGED raced
     \/ /\ task' = [task EXCEPT ![t].pc = "create"]
        /\ raced' = raced \union {t, task[t].box}
  /\ UNCHANGED <<sandboxes, box, calls_made, executed>>

(* Sandbox.create() gives the new sandbox the key of its provider only.    *)
CreateBox(t, b) ==
  /\ task[t].pc = "create"
  /\ box[b].provider = NoBox
  /\ box' = [box EXCEPT ![b] = [provider |-> task[t].scope, running |-> TRUE]]
  /\ task' = [task EXCEPT ![t].pc = "store", ![t].box = b]
  /\ raced' = IF t \in raced THEN raced \union {b} ELSE raced
  /\ UNCHANGED <<sandboxes, calls_made, executed>>

CreateFails(t) ==
  /\ task[t].pc = "create"
  /\ task' = [task EXCEPT ![t] = BrokerIdle]
  /\ UNCHANGED <<sandboxes, box, calls_made, raced, executed>>

StoreBox(t) ==
  /\ task[t].pc = "store"
  /\ sandboxes' = [sandboxes EXCEPT ![task[t].scope] = task[t].box]
  /\ task' = [task EXCEPT ![t].pc = "exec"]
  /\ UNCHANGED <<box, calls_made, raced, executed>>

(* Mutant: a token is taken for a second Ttl after its end.                *)
VerifyTokenLate(c) == c.exp = NoToken \/ now <= c.exp + CapabilityTtl

(* verify(): not expired; that the token is for this call holds, as both   *)
(* come from the same arguments.                                           *)
VerifyToken(c) == c.exp = NoToken \/ now <= c.exp

(* sb.exec(): the process starts in the sandbox, verifies, and calls the   *)
(* provider; or the sandbox is gone, or the token has expired.             *)
ExecInBox(t) ==
  LET c == task[t]
      runs == c.scope \in BoxProviders => box[c.box].running
  IN  /\ c.pc = "exec"
      /\ IF runs /\ VerifyToken(c)
         THEN /\ task' = [task EXCEPT ![t].pc = "running"]
              /\ executed' = IF c.exp = NoToken THEN executed ELSE executed \union
                   {[scope |-> c.scope, at |-> now, minted |-> c.exp - CapabilityTtl,
                     key |-> IF c.box = NoBox THEN c.scope ELSE box[c.box].provider]}
         ELSE /\ task' = [task EXCEPT ![t] = BrokerIdle]
              /\ UNCHANGED executed
      /\ UNCHANGED <<sandboxes, box, calls_made, raced>>

(* The result is back, or the 60 s of the process are over, or it was cut. *)
CallReturns(t) ==
  /\ task[t].pc = "running"
  /\ task' = [task EXCEPT ![t] = BrokerIdle]
  /\ UNCHANGED <<sandboxes, box, calls_made, raced, executed>>

(* Modal ends a sandbox: after 5 minutes of idleness, an hour at most.     *)
BoxEnds(b) ==
  /\ box[b].running
  /\ box' = [box EXCEPT ![b].running = FALSE]
  /\ UNCHANGED <<sandboxes, task, calls_made, raced, executed>>

BrokerSteps(t) ==
  \/ LookUpBox(t) \/ PollBox(t) \/ CreateFails(t) \/ StoreBox(t) \/ ExecInBox(t) \/ CallReturns(t)
  \/ \E b \in Boxes : CreateBox(t, b)

BrokerNext ==
  \/ \E t \in BrokerTasks : BrokerSteps(t) \/ \E s \in Scopes : MintToken(t, s)
                              \/ \E p \in BoxProviders : AskEnabled(t, p)
  \/ \E b \in Boxes : BoxEnds(b)
BrokerStep == (BrokerNext /\ UNCHANGED now) \/ (Passes /\ UNCHANGED broker_vars)

BrokerSpec == ClockInit /\ BrokerInit /\ [][BrokerStep]_<<now, broker_vars>>
------------------------------------------------------------------------------
BrokerTask ==
  [pc : {"lookup", "poll", "create", "store", "exec", "running"}, scope : Scopes,
   exp : Nat \union {NoToken}, box : Boxes \union {NoBox}]

BrokerTypeOK ==
  /\ now \in Nat /\ calls_made \in Nat
  /\ sandboxes \in [BoxProviders -> Boxes \union {NoBox}]
  /\ box \in [Boxes -> [provider : BoxProviders \union {NoBox}, running : BOOLEAN]]
  /\ raced \subseteq BrokerTasks \union Boxes
  /\ task \in [BrokerTasks -> BrokerTask \union {BrokerIdle}]
  /\ executed \subseteq [scope : Scopes, at : Nat, minted : Int, key : Scopes \union {NoBox}]

(* "One Sandbox per provider, lazily created and reused" (SandboxBroker):  *)
(* two sandboxes of a provider run at once only if two threads were        *)
(* between look-up and table at once, or a poll failed; through sandboxes  *)
(* that end at any time, and calls and creations that fail.                *)
OneBoxUnlessRaced ==
  \A b, c \in Boxes :
    b # c /\ box[b].running /\ box[c].running /\ box[b].provider = box[c].provider
      => {b, c} \cap raced # {}

(* A call is made with the key of the provider it was asked for and within *)
(* the 30 s of its token, however long the executor and the start of the   *)
(* sandbox took, and whatever sandboxes were replaced meanwhile.           *)
ExecutedInTime ==
  \A e \in executed : e.key = e.scope /\ e.at - e.minted \in 0..CapabilityTtl

(* Few sandboxes, each with its key, and no call with a stale token.       *)
BrokerSound == BrokerTypeOK /\ OneBoxUnlessRaced /\ ExecutedInTime
==============================================================================
