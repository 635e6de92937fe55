----------------------------- MODULE AdapterGates -----------------------------
(***************************************************************************)
(* Who gets through to the gateway's answer, channel by channel: the       *)
(* adapter's on_message() has a gate of its own for public channels, then  *)
(* the gateway asks allowed() again, with what the envelope's metadata     *)
(* says of the channel and of a mention, which most adapters leave out.    *)
(* Both read the pairings and channels.yaml, one after the other, and      *)
(* these change.                                                           *)
(***************************************************************************)
EXTENDS Naturals

CONSTANTS
  GateUsers,       \* senders
  MaxGateChanges   \* bound: changes of pairings and of channels.yaml

ASSUME GateAssumption == MaxGateChanges \in Nat

Kinds == {"discord", "slack", "signal", "matrix", "teams", "webhook", "webui", "local_mic", "line",
          "telegram", "whatsapp", "imap", "gmail", "twilio_sms", "twilio_voice"}

VARIABLES
  trust,           \* trust[u]: what classify() says
  gate_yaml,       \* the channel's entry in channels.yaml
  passage,         \* the message on its way
  gate_changes,    \* counts changes
  strict           \* history: mention_only_in_public since the message came

gate_vars == <<trust, gate_yaml, passage, gate_changes, strict>>

TrustLevels == {"owner_paired", "user_paired", "untrusted"}
Yamls == [enabled : BOOLEAN, allowed_senders : SUBSET GateUsers, mention_only : BOOLEAN]
NoPassage == [step |-> "none"]

GatesInit ==
  /\ trust \in [GateUsers -> TrustLevels] /\ gate_yaml \in Yamls
  /\ passage = NoPassage /\ gate_changes = 0 /\ strict = TRUE

(* allowed(), for a caller who passes the owners or does not.              *)
Admits(u, with_owners, unmentioned) ==
  /\ gate_yaml.enabled
  /\ u \in gate_yaml.allowed_senders \/ (with_owners /\ trust[u] = "owner_paired")
  /\ ~(gate_yaml.mention_only /\ unmentioned)

(* The envelope, as far as the gateway's gate reads it; metadata that says *)
(* nothing of channel or mention counts as private.  {} is None.           *)
Told(level, unmentioned) == {[trust |-> level, unmentioned |-> unmentioned]}
Envelope(m) == Told(trust[m.user], FALSE)

(* The gate most adapters have for public channels.                        *)
PublicGate(m, mentioned) == m.public => Admits(m.user, TRUE, ~mentioned)

(* Bots' messages are dropped, and direct ones gated, if so configured.    *)
DiscordGate(m) ==
  IF m.odd /\ m.flag THEN {}
  ELSE IF (m.public \/ m.flag) /\ ~Admits(m.user, TRUE, m.public /\ ~m.mentioned) THEN {}
  ELSE Envelope(m)

SlackGate(m) == IF m.public /\ trust[m.user] = "untrusted" THEN {} ELSE Envelope(m)

(* Here allowed() has no was_mentioned, which is FALSE then.               *)
SignalGate(m) == IF ~m.odd /\ PublicGate(m, FALSE) THEN Envelope(m) ELSE {}

MatrixGate(m) == IF ~m.odd /\ PublicGate(m, m.mentioned) THEN Envelope(m) ELSE {}

TeamsGate(m) == IF ~m.odd /\ PublicGate(m, m.mentioned) THEN Envelope(m) ELSE {}

WebhookGate(m) ==
  IF ~m.odd /\ PublicGate(m, m.flag)
  THEN Told(trust[m.user], m.public /\ ~m.flag) ELSE {}

TelegramGate(m) ==
  IF ~m.odd /\ PublicGate(m, m.flag)
  THEN Told(trust[m.user], m.public /\ ~m.flag) ELSE {}

(* odd: no audio; silence or no transcript are noticed after the gate.     *)
LocalMicGate(m) ==
  IF ~m.odd /\ PublicGate(m, m.mentioned)
  THEN Told(trust[m.user], m.public /\ ~m.mentioned) ELSE {}

(* No gate of its own: whatever is a user's message.                       *)
WebuiGate(m) == IF m.odd THEN {} ELSE Envelope(m)

(* Who is paired passes; allowed() is asked of strangers, without owners.  *)
LineGate(m) ==
  IF m.public /\ trust[m.user] = "untrusted" /\ ~Admits(m.user, FALSE, ~m.flag)
  THEN {} ELSE Envelope(m)

(* Mutant: whoever is paired passes.                                       *)
WhatsAppGateByTrust(m) ==
  IF ~m.odd /\ (PublicGate(m, FALSE) \/ trust[m.user] # "untrusted") THEN Envelope(m) ELSE {}

(* "This also closes the mention-gate for public channels regardless of    *)
(* trust level": nothing counts as a mention.                              *)
WhatsAppGate(m) == IF ~m.odd /\ PublicGate(m, FALSE) THEN Envelope(m) ELSE {}

ImapGate(m) ==
  IF m.odd \/ (m.public /\ trust[m.user] = "untrusted") THEN {} ELSE Envelope(m)

(* _check_allowlist(): a paired sender counts as one who mentions.         *)
GmailListed(m) == Admits(m.user, TRUE, trust[m.user] = "untrusted")

GmailGate(m) == IF m.odd \/ (m.public /\ ~GmailListed(m)) THEN {} ELSE Envelope(m)

(* "Return untrusted envelope rather than None": everybody passes, and whom*)
(* the list refuses is marked.                                             *)
TwilioSmsGate(m) ==
  IF PublicGate(m, m.mentioned) THEN Envelope(m) ELSE Told("untrusted", FALSE)

(* odd: a frame of a media stream, which has no gate.                      *)
TwilioVoiceGate(m) ==
  IF m.odd \/ PublicGate(m, FALSE) THEN Envelope(m) ELSE Told("untrusted", FALSE)

(* on_message() of the channel's adapter.                                  *)
OnMessage(m) ==
  CASE m.kind = "discord" -> DiscordGate(m)      [] m.kind = "slack" -> SlackGate(m)
    [] m.kind = "signal" -> SignalGate(m)        [] m.kind = "matrix" -> MatrixGate(m)
    [] m.kind = "teams" -> TeamsGate(m)          [] m.kind = "webhook" -> WebhookGate(m)
    [] m.kind = "telegram" -> TelegramGate(m)    [] m.kind = "local_mic" -> LocalMicGate(m)
    [] m.kind = "webui" -> WebuiGate(m)          [] m.kind = "line" -> LineGate(m)
    [] m.kind = "whatsapp" -> WhatsAppGate(m)    [] m.kind = "imap" -> ImapGate(m)
    [] m.kind = "gmail" -> GmailGate(m)          [] m.kind = "twilio_sms" -> TwilioSmsGate(m)
    [] m.kind = "twilio_voice" -> TwilioVoiceGate(m)

(* A message.  odd: a bot's, or not a user's message at all; flag: the     *)
(* configuration's was_mentioned, or what Discord has for direct messages  *)
(* and bots.                                                               *)
Comes(m) ==
  /\ passage = NoPassage
  /\ passage' = [step |-> "adapter", m |-> m]
  /\ strict' = gate_yaml.mention_only
  /\ UNCHANGED <<trust, gate_yaml, gate_changes>>

(* (was: history, for the property.)                                       *)
AdapterGate ==
  /\ passage.step = "adapter"
  /\ passage' \in IF OnMessage(passage.m) = {} THEN {NoPassage}
                  ELSE {[step |-> "gateway", m |-> passage.m, env |-> e,
                         was |-> trust[passage.m.user]] : e \in OnMessage(passage.m)}
  /\ UNCHANGED <<trust, gate_yaml, gate_changes, strict>>

(* The gateway asks again.                                                 *)
GatewayGate ==
  /\ passage.step = "gateway"
  /\ passage' = IF Admits(passage.m.user, TRUE, passage.env.unmentioned)
                THEN [passage EXCEPT !.step = "answered"] ELSE NoPassage
  /\ UNCHANGED <<trust, gate_yaml, gate_changes, strict>>

Answered ==
  /\ passage.step = "answered" /\ passage' = NoPassage
  /\ UNCHANGED <<trust, gate_yaml, gate_changes, strict>>

(* Somebody is paired or revoked, or channels.yaml is edited.              *)
GateChanges ==
  /\ gate_changes < MaxGateChanges /\ gate_changes' = gate_changes + 1
  /\ \/ \E u \in GateUsers, level \in TrustLevels : trust' = [trust EXCEPT ![u] = level]
        /\ UNCHANGED gate_yaml
     \/ gate_yaml' \in Yamls /\ UNCHANGED trust
  /\ strict' = (strict /\ gate_yaml'.mention_only)
  /\ UNCHANGED passage

Messages == [kind : Kinds, user : GateUsers, public : BOOLEAN, mentioned : BOOLEAN,
             flag : BOOLEAN, odd : BOOLEAN]

GatesNext ==
  (\E m \in Messages : Comes(m)) \/ AdapterGate \/ GatewayGate \/ Answered \/ GateChanges

GatesSpec == GatesInit /\ [][GatesNext]_gate_vars
-------------------------------------------------------------------------------
(* With mention_only_in_public, whatever changes between the two gates, a  *)
(* public message that mentions nobody is answered only where the adapter  *)
(* does not look for one: from paired senders of Slack, IMAP, LINE and     *)
(* Gmail; on the web interface; by SMS and voice, which only mark; and     *)
(* where the configuration says that all is mentioned.                     *)
(* And nobody is answered as more than the pairings said.                  *)
MentionRuleKept ==
  passage.step = "answered" =>
    /\ passage.m.public /\ ~passage.m.mentioned /\ strict =>
         \/ passage.m.kind \in {"twilio_sms", "twilio_voice", "webui"}
         \/ passage.m.kind \in {"slack", "imap", "line", "gmail"} /\ passage.was # "untrusted"
         \/ passage.m.kind \in {"telegram", "webhook", "line"} /\ passage.m.flag
    /\ passage.env.trust \in {"untrusted", passage.was}
===============================================================================
