--------------------------- MODULE MCChannelDelivery ---------------------------
(***************************************************************************)
(* The channels' own state between a vendor and the gateway, as one        *)
(* instance for TLC: a behaviour is one of the part chosen at its start.   *)
(***************************************************************************)
EXTENDS MailPoll, TelegramBridge, WhatsAppRoutes, VoiceStreams, ArtifactShelf, WebhookDelivery,
        AdapterGates, AdapterSends, SendTokens, ImapSession, TLC

(* The parts share model values, so that TLC permutes few.                 *)
CONSTANTS user1, user2, user3, task1, task2, item1, item2

VARIABLE part    \* which of them this behaviour is about

MCIdleYaml == CHOOSE y \in Yamls : TRUE

Init ==
  /\ part \in {"mail", "imap", "shelf", "telegram", "whatsapp", "voice", "delivery", "gates",
               "sends", "line tokens", "teams tokens"}
  /\ ClockInit /\ MailInit /\ ImapInit /\ ShelfInit
  /\ TelegramInit /\ WaInit /\ VoiceInit /\ DeliveryInit
  /\ GatesInit /\ SendInit /\ TokensInit
  /\ part # "voice" => ~buffer_audio
  /\ part # "delivery" => route = [d \in Deliveries |-> "line"]
  /\ part # "gates" => trust = [u \in GateUsers |-> "untrusted"] /\ gate_yaml = MCIdleYaml

(* A part's step, and the others at rest.                                  *)
MailsRest == UNCHANGED <<mail_vars, imap_vars, shelf_vars>>
BridgesRest == UNCHANGED <<telegram_vars, wa_vars, voice_vars, delivery_vars>>
AdaptersRest == UNCHANGED <<gate_vars, send_vars, token_vars>>

MailStep ==
  /\ BridgesRest /\ AdaptersRest
  /\ \/ part = "mail" /\ MailNext /\ UNCHANGED <<now, imap_vars, shelf_vars>>
     \/ part = "imap" /\ ImapNext /\ UNCHANGED <<now, mail_vars, shelf_vars>>
     \/ part = "shelf" /\ ShelfNext /\ UNCHANGED <<mail_vars, imap_vars>>

BridgeStep ==
  /\ MailsRest /\ AdaptersRest /\ UNCHANGED now
  /\ \/ part = "telegram" /\ TelegramNext /\ UNCHANGED <<wa_vars, voice_vars, delivery_vars>>
     \/ part = "whatsapp" /\ WaNext /\ UNCHANGED <<telegram_vars, voice_vars, delivery_vars>>
     \/ part = "voice" /\ VoiceNext /\ UNCHANGED <<telegram_vars, wa_vars, delivery_vars>>
     \/ part = "delivery" /\ DeliveryNext /\ UNCHANGED <<telegram_vars, wa_vars, voice_vars>>

(* The two kinds of tokens have only the clock in common.                  *)
AdapterStep ==
  /\ MailsRest /\ BridgesRest
  /\ \/ part = "gates" /\ GatesNext /\ UNCHANGED <<now, send_vars, token_vars>>
     \/ part = "sends" /\ SendNext /\ UNCHANGED <<now, gate_vars, token_vars>>
     \/ part = "line tokens" /\ UNCHANGED <<teams, gate_vars, send_vars>> /\ TokensNext
     \/ /\ part = "teams tokens" /\ UNCHANGED <<line_events, line_sends, gate_vars, send_vars>>
        /\ TokensNext

Next == UNCHANGED part /\ (MailStep \/ BridgeStep \/ AdapterStep)

Spec == Init /\ [][Next]_<<part, now, mail_vars, imap_vars, shelf_vars, telegram_vars, wa_vars,
                          voice_vars, delivery_vars, gate_vars, send_vars, token_vars>>

Symmetric ==
  Permutations({user1, user2, user3}) \union Permutations({task1, task2})
===============================================================================
