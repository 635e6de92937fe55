--------------------------- MODULE ChannelGateway ---------------------------
(***************************************************************************)
(* The channel routes of glc/routes/channels.py with what they consult:    *)
(* the owners in the pairing store, channels.yaml through the allowlist    *)
(* (glc/security/allowlists.py), the rate limiter and the audit log.       *)
(*                                                                         *)
(* One asyncio loop runs every handler.  A handler is interrupted only at  *)
(* an await, so what lies between two awaits is one step: the whole        *)
(* judgement of an envelope, from the read of the allowlist to the audit   *)
(* row.  What the handlers consult is fresh to different degrees:          *)
(*   - channels.yaml is read for every envelope by the allowlist, and once *)
(*     per process by the rate limiter;                                    *)
(*   - the owners are read for every webhook request, and once per         *)
(*     connection by the WebSocket route;                                  *)
(*   - the pairing store is also written by other processes.               *)
(***************************************************************************)
EXTENDS Integers, Sequences, FiniteSets, SequencesExt

CONSTANTS
  Channels, Users,
  Adapters,       \* the channels with an adapter running, a subset of Channels
  Conns,          \* WebSocket connections that may be open at a time
  Hooks,          \* webhook requests that may be under way at a time
  ChannelYamls,   \* contents channels.yaml may have
  NotLoaded,      \* the limiter before its first use
  Closed,         \* a connection that is not open
  NoReply,        \* nothing to be sent
  Window,         \* the limiter's window
  MaxTime, MaxMessages,        \* bounds: the clock, envelopes judged,
  MaxUnaudited, MaxChanges     \* failed audit writes, changes of owners or yaml

VARIABLES
  now, limits, window, accepted,   \* see RateLimiter
  log,         \* the audit log, see AppendOnlyLog
  yaml,        \* channels.yaml
  owners,      \* the pairings with trust_level owner_paired
  conns,       \* conns[c]: an adapter's connection, or Closed
  hooks,       \* hooks[h]: a webhook request
  messages,    \* history: envelopes judged
  unaudited,   \* history: envelopes whose audit row could not be written
  replies,     \* history: echo replies sent, per sender
  changes,     \* history: changes to owners and yaml
  boot         \* history: length of the audit log when the process started

limiter == <<now, limits, window, accepted>>
store   == <<yaml, owners, changes>>
vars == <<limiter, log, store, conns, hooks, messages, unaudited, replies, boot>>

Kinds == {"messages", "tool_calls"}
Sender == [channel : Channels, user : Users]

Reasons == {"", "disabled", "notAllowed", "notMentioned"}
EventTypes == {"channel_spoof_attempt", "allowlist_drop", "rate_limit", "inbound_message"}
Event == [route : {"ws", "webhook"}, type : EventTypes, sender : Sender,
          reason : Reasons, at : Nat]

Limiter == INSTANCE RateLimiter WITH Yamls <- {y.limits : y \in ChannelYamls}
Audit == INSTANCE AppendOnlyLog WITH Payloads <- Event

Reply == [type : EventTypes, sender : Sender]   \* what the last event is answered with

Conn == [channel : Channels, owners : SUBSET Users, reply : Reply \union {NoReply},
         fresh : BOOLEAN]   \* fresh: history, no pairing changed since the connect
NoRequest == [step |-> "none"]

ASSUME GatewayAssumption ==
  /\ Window \in Nat /\ Adapters \subseteq Channels
  /\ \A y \in ChannelYamls : Limiter!ConfigureFromYaml(y.limits) \in Limiter!Limits
  /\ NotLoaded \notin Limiter!Limits /\ Closed \notin Conn /\ NoReply \notin Reply
  /\ IsFiniteSet(Conns) /\ IsFiniteSet(Hooks)
-----------------------------------------------------------------------------
(* _entry(): a channel's own setting where it has one, else the default.   *)
Entry(ch) ==
  [enabled |-> ch \notin yaml.disabled,
   allowed_senders |-> IF ch \in DOMAIN yaml.allowed THEN yaml.allowed[ch]
                       ELSE yaml.default_allowed,
   mention_only |-> yaml.mention_only]

(* allowed(): why the envelope m is dropped, "" if it is not, given the    *)
(* owners the caller passes.                                               *)
Refusal(m, ows) ==
  LET cfg == Entry(m.channel)
      known == m.user \in ows \/ m.user \in cfg.allowed_senders
  IN  CASE ~cfg.enabled -> "disabled"
        [] cfg.enabled /\ ~known -> "notAllowed"
        [] cfg.enabled /\ known /\ cfg.mention_only /\ m.unmentioned -> "notMentioned"
        [] OTHER -> ""

(* unmentioned: sent in a public channel without mentioning the agent.     *)
Envelope == [channel : Channels, user : Users, unmentioned : BOOLEAN]

EventOf(route, type, m, why) ==
  [route |-> route, type |-> type, sender |-> [channel |-> m.channel, user |-> m.user],
   reason |-> why, at |-> now]

ReplyTo(e) == [type |-> e.type, sender |-> e.sender]

MessageKey(m) == [channel |-> m.channel, user |-> m.user, kind |-> "messages"]

(* Mutant: an envelope over the limit is refused without an audit row.     *)
AppendAuditQuietly(e) ==
  /\ messages < MaxMessages
  /\ messages' = messages + 1
  /\ \/ e.type # "rate_limit" /\ Audit!Record(e) /\ UNCHANGED unaudited
     \/ e.type = "rate_limit" /\ UNCHANGED <<log, unaudited>>
     \/ UNCHANGED log /\ unaudited < MaxUnaudited /\ unaudited' = unaudited + 1

(* audit_append() records the event, or raises and takes the handler with  *)
(* it.                                                                     *)
AppendAudit(e) ==
  /\ messages < MaxMessages
  /\ messages' = messages + 1
  /\ \/ Audit!Record(e) /\ UNCHANGED unaudited
     \/ UNCHANGED log /\ unaudited < MaxUnaudited /\ unaudited' = unaudited + 1

(* Mutant: what the limiter answers is not looked at.                      *)
JudgeUnlimited(m, ows, route) ==
  LET why == Refusal(m, ows) IN
  \/ /\ why # ""
     /\ Limiter!Load(yaml.limits)
     /\ AppendAudit(EventOf(route, "allowlist_drop", m, why))
  \/ /\ why = ""
     /\ \/ Limiter!Refuse(MessageKey(m), yaml.limits)
        \/ Limiter!Accept(MessageKey(m), yaml.limits)
     /\ AppendAudit(EventOf(route, "inbound_message", m, ""))

(* The judgement both routes make of an envelope, and its audit event:     *)
(* first the allowlist, then the limiter, which only counts what passed.   *)
Judge(m, ows, route) ==
  LET why == Refusal(m, ows) IN
  \/ /\ why # ""
     /\ Limiter!Load(yaml.limits)
     /\ AppendAudit(EventOf(route, "allowlist_drop", m, why))
  \/ /\ why = ""
     /\ Limiter!Refuse(MessageKey(m), yaml.limits)
     /\ AppendAudit(EventOf(route, "rate_limit", m, ""))
  \/ /\ why = ""
     /\ Limiter!Accept(MessageKey(m), yaml.limits)
     /\ AppendAudit(EventOf(route, "inbound_message", m, ""))
-----------------------------------------------------------------------------
Init ==
  /\ Limiter!Init
  /\ Audit!Init
  /\ yaml \in ChannelYamls
  /\ owners = {}
  /\ conns = [c \in Conns |-> Closed]
  /\ hooks = [h \in Hooks |-> NoRequest]
  /\ messages = 0 /\ unaudited = 0 /\ changes = 0 /\ boot = 0
  /\ replies = [s \in Sender |-> 0]

(* Mutant: the owners of all channels.                                     *)
OwnersAnywhere(ch) == {s.user : s \in owners}

(* owners(channel=name), the ids handed to allowed().                      *)
OwnersOf(ch) == {s.user : s \in {o \in owners : o.channel = ch}}

(* channel_ws: the token is right, the connection is accepted, the limiter *)
(* and the channel's owners are fetched.                                   *)
Connect(c, ch) ==
  /\ conns[c] = Closed
  /\ Limiter!Load(yaml.limits)
  /\ conns' = [conns EXCEPT ![c] = [channel |-> ch, owners |-> OwnersOf(ch),
                                     reply |-> NoReply, fresh |-> TRUE]]
  /\ UNCHANGED <<log, store, hooks, messages, unaudited, replies, boot>>

(* channel_ws: one turn of the loop, up to the await of the reply.  When   *)
(* the audit row cannot be written the exception ends the connection.      *)
Receive(c, m) ==
  LET conn == conns[c] IN
  /\ conn # Closed
  /\ conn.reply = NoReply
  /\ \/ /\ m.channel # conn.channel
        /\ AppendAudit(EventOf("ws", "channel_spoof_attempt", m, ""))
        /\ UNCHANGED limiter
     \/ /\ m.channel = conn.channel
        /\ Judge(m, conn.owners, "ws")
  /\ conns' = [conns EXCEPT ![c] = IF log' = log THEN Closed
                                   ELSE [conn EXCEPT !.reply = ReplyTo(Last(log'))]]
  /\ UNCHANGED <<store, hooks, replies, boot>>

(* An echo reply has left.                                                 *)
CountReply(r) ==
  replies' = IF r.type = "inbound_message"
             THEN [replies EXCEPT ![r.sender] = @ + 1] ELSE replies

(* channel_ws: the reply or the error is sent; a spoofed envelope closes.  *)
Send(c) ==
  LET conn == conns[c] IN
  /\ conn # Closed
  /\ conn.reply # NoReply
  /\ CountReply(conn.reply)
  /\ conns' = [conns EXCEPT ![c] = IF conn.reply.type = "channel_spoof_attempt" THEN Closed
                                   ELSE [conn EXCEPT !.reply = NoReply]]
  /\ UNCHANGED <<limiter, log, store, hooks, messages, unaudited, boot>>

(* WebSocketDisconnect, in either await.                                   *)
Disconnect(c) ==
  /\ conns[c] # Closed
  /\ conns' = [conns EXCEPT ![c] = Closed]
  /\ UNCHANGED <<limiter, log, store, hooks, messages, unaudited, replies, boot>>
-----------------------------------------------------------------------------
(* channel_webhook: the adapter is built and its on_message awaited.       *)
Request(h, ch) ==
  /\ hooks[h] = NoRequest
  /\ hooks' = [hooks EXCEPT ![h] = [step |-> "parsing", channel |-> ch]]
  /\ UNCHANGED <<limiter, log, store, conns, messages, unaudited, replies, boot>>

(* The adapter finds no message in the request, or raises.                 *)
NoMessage(h) ==
  /\ hooks[h].step = "parsing"
  /\ hooks' = [hooks EXCEPT ![h] = NoRequest]
  /\ UNCHANGED <<limiter, log, store, conns, messages, unaudited, replies, boot>>

(* channel_webhook: from on_message's answer to the await of adapter.send. *)
(* Only an admitted message gets a reply.                                  *)
Process(h, m) ==
  /\ hooks[h].step = "parsing"
  /\ m.channel = hooks[h].channel
  /\ Judge(m, OwnersOf(m.channel), "webhook")
  /\ hooks' = [hooks EXCEPT ![h] =
       IF log' # log /\ Last(log').type = "inbound_message"
       THEN [step |-> "sending", reply |-> ReplyTo(Last(log'))] ELSE NoRequest]
  /\ UNCHANGED <<store, conns, replies, boot>>

(* channel_webhook: adapter.send succeeds, or raises.                      *)
Answer(h) ==
  /\ hooks[h].step = "sending"
  /\ \/ CountReply(hooks[h].reply)
     \/ UNCHANGED replies
  /\ hooks' = [hooks EXCEPT ![h] = NoRequest]
  /\ UNCHANGED <<limiter, log, store, conns, messages, unaudited, boot>>
-----------------------------------------------------------------------------
(* A sender becomes an owner of its channel, or is one no more: the        *)
(* pairing store is written, by this process or another.                   *)
ChangeOwner(s) ==
  /\ changes < MaxChanges
  /\ changes' = changes + 1
  /\ owners' = IF s \in owners THEN owners \ {s} ELSE owners \union {s}
  /\ conns' = [c \in Conns |->
       IF conns[c] # Closed /\ conns[c].channel = s.channel
       THEN [conns[c] EXCEPT !.fresh = FALSE] ELSE conns[c]]
  /\ UNCHANGED <<limiter, log, yaml, hooks, messages, unaudited, replies, boot>>

(* Mutant: an edit of the file reaches the limiter at once.                *)
EditYamlReloading ==
  /\ changes < MaxChanges
  /\ changes' = changes + 1
  /\ yaml' \in ChannelYamls \ {yaml}
  /\ limits' = Limiter!ConfigureFromYaml(yaml'.limits)
  /\ UNCHANGED <<now, window, accepted, log, owners, conns, hooks,
                 messages, unaudited, replies, boot>>

(* The operator edits channels.yaml.                                       *)
EditYaml ==
  /\ changes < MaxChanges
  /\ changes' = changes + 1
  /\ yaml' \in ChannelYamls \ {yaml}
  /\ UNCHANGED <<limiter, log, owners, conns, hooks,
                 messages, unaudited, replies, boot>>

Tick ==
  /\ Limiter!Tick
  /\ UNCHANGED <<log, store, conns, hooks, messages, unaudited, replies, boot>>

(* /v1/control/kill, a deploy or a crash, and the next start: the pairing  *)
(* store, the audit log and the configuration survive.                     *)
Restart ==
  /\ Limiter!Restart
  /\ conns' = [c \in Conns |-> Closed]
  /\ hooks' = [h \in Hooks |-> NoRequest]
  /\ boot' = Len(log)
  /\ UNCHANGED <<log, store, messages, unaudited, replies>>

Serve ==
  \/ \E c \in Conns :
       \/ \E ch \in Adapters : Connect(c, ch)
       \/ \E m \in Envelope : Receive(c, m)
       \/ Send(c)
       \/ Disconnect(c)
  \/ \E h \in Hooks :
       \/ \E ch \in Adapters : Request(h, ch)
       \/ NoMessage(h)
       \/ \E m \in Envelope : Process(h, m)
       \/ Answer(h)

Next ==
  \/ Serve
  \/ \E s \in Sender : ChangeOwner(s)
  \/ EditYaml
  \/ Tick
  \/ Restart

Spec == Init /\ [][Next]_vars
-----------------------------------------------------------------------------
TypeOK ==
  /\ Limiter!TypeOK
  /\ log \in Seq(Event)
  /\ yaml \in ChannelYamls
  /\ owners \subseteq Sender
  /\ conns \in [Conns -> Conn \union {Closed}]
  /\ \A h \in Hooks :
       hooks[h] \in {NoRequest} \union [step : {"parsing"}, channel : Channels]
                              \union [step : {"sending"}, reply : Reply]
  /\ messages \in Nat /\ unaudited \in Nat /\ changes \in Nat /\ boot \in Nat
  /\ replies \in [Sender -> Nat]

(* The limiter inside the gateway, with its lazy start, its restarts and a *)
(* file edited under it, behaves as the limiter specified by itself: its   *)
(* limits are those of the first use, and only admitted envelopes count.   *)
LimiterSpec == Limiter!Spec

(* Each envelope that reaches the judgement leaves exactly one audit row,  *)
(* whichever way it goes, unless writing that row failed.                  *)
EveryMessageAudited == messages = Len(log) + unaudited

(* The rows of the echoed messages of s, from a place in the log on.       *)
InboundRows(s, from) ==
  {i \in from..Len(log) : log[i].type = "inbound_message" /\ log[i].sender = s}

(* No echo reply leaves without the inbound_message row that explains it:  *)
(* a sender never has more replies than rows, through disconnects, failed  *)
(* sends, failed audit writes and restarts.                                *)
RepliesAudited == \A s \in Sender : replies[s] <= Cardinality(InboundRows(s, 1))

(* The audit log shows the rate limit respected: of the inbound_message    *)
(* rows of a sender written since the process started, those from one to   *)
(* another that is not more than the window later are at most the limit.   *)
InboundWithinLimit ==
  limits # NotLoaded =>
    \A s \in Sender :
      LET rowsOf == InboundRows(s, boot + 1)
      IN  \A i, j \in rowsOf : log[j].at <= log[i].at + Window =>
            Cardinality(rowsOf \intersect i..j) <= limits[s.channel]["messages"]

(* The audit log explains all replies and shows the limits respected.      *)
AuditExplains == TypeOK /\ RepliesAudited /\ InboundWithinLimit

(* The step writes an audit row that judged e.sender on its pairing.       *)
JudgedAsOwner(e) == e.type # "channel_spoof_attempt" /\ e.reason # "disabled"
Admissible(e) == e.sender \in owners \/ e.sender.user \in Entry(e.sender.channel).allowed_senders

OnCurrentOwners(e) ==
  JudgedAsOwner(e) => (e.reason = "notAllowed" <=> ~Admissible(e))

(* A webhook message is judged on the owners as they are when it is judged,*)
(* however long the adapter took to parse it; a WebSocket envelope at      *)
(* least on a connection opened after the last change of the channel's     *)
(* owners.                                                                 *)
JudgedOnFreshOwners ==
  [][log' # log =>
       \/ Last(log').route = "ws" /\ \E c \in Conns : conns'[c] # conns[c] /\ ~conns[c].fresh
       \/ OnCurrentOwners(Last(log'))]_vars

(* allowlists.py:5: "The owner is whichever channel_user_id is currently   *)
(* in the pairings table with trust_level == owner_paired".  It does not   *)
(* hold on a connection that was open when the pairings changed.           *)
JudgedOnCurrentOwners == [][log' # log => OnCurrentOwners(Last(log'))]_vars
=============================================================================
