----------------------------- MODULE AdapterSends -----------------------------
(***************************************************************************)
(* send() of the adapters, for one reply: what it needs, whom it calls,    *)
(* and what it returns for the vendor's answer.  A transport is injected   *)
(* in the configuration (a bridge's client, a test's mock) or the adapter  *)
(* calls the vendor itself, or there is nobody to call and the payload is  *)
(* returned.  The gateway's route awaits send(), looks at nothing it       *)
(* returns, and answers 500 if it raises.                                  *)
(***************************************************************************)
EXTENDS Naturals

SendChannels == {"discord", "slack", "signal", "matrix", "teams", "webhook", "webui", "local_mic",
                 "line", "telegram", "whatsapp", "imap", "gmail", "twilio_sms", "twilio_voice"}

VARIABLES
  outgoing,        \* the reply, where send() stands, its result
  vendor_has       \* history: what came of the reply at the vendor

send_vars == <<outgoing, vendor_has>>

(* injected: a transport is; ready: the settings of the adapter's own are  *)
(* there (credentials, URL, number, the conversation of the sender).       *)
Replies == [ch : SendChannels, injected : BOOLEAN, ready : BOOLEAN, text : BOOLEAN]

(* A vendor's answer.  says: it accepts the message, limits, or refuses;   *)
(* json: the body is; tells: the body itself has a status 429.             *)
VendorAnswersOf == [says : {"accepts", "limits", "refuses"}, json : BOOLEAN, tells : BOOLEAN]
NoAnswer == [says |-> "nothing", json |-> FALSE, tells |-> FALSE]

SendInit == outgoing = [step |-> "none"] /\ vendor_has = NoAnswer

Passed(v) ==
  CASE v.says = "accepts" -> "done" [] v.says = "limits" -> "limited" [] v.says = "refuses" -> "refusal"

(* What a body says that is returned as it came.                           *)
Body(v) ==
  CASE v.says = "accepts" -> "done" [] v.says = "refuses" -> "refusal"
    [] v.says = "limits" -> IF v.tells THEN "limited" ELSE "refusal"

(* Mutant: the body as it came, "error_code" and all.                      *)
TelegramSendBody(v) == IF v.json THEN Body(v) ELSE "raised"

(* send() by channel, given the answer to its own call.  A status other    *)
(* than 429 is looked at by nobody here, nor by the next three; a body     *)
(* that is not JSON raises.                                                *)
TelegramSend(v) == IF v.json THEN Passed(v) ELSE "raised"

(* The target's or vendor's JSON as it came, or else the status.           *)
WebhookSend(v) == IF v.json THEN Body(v) ELSE Passed(v)
WhatsAppSend(v) == IF v.json THEN Body(v) ELSE Passed(v)

(* _parse_response() notes the status where the body does not.             *)
TwilioSmsSend(v) == Passed(v)

TeamsSend(v) ==
  IF v.says = "limits" THEN "limited"
  ELSE IF v.says = "refuses" \/ ~v.json THEN "raised" ELSE "done"

(* SMTP: 421 is told as 429.                                               *)
ImapSend(v) == IF v.says = "refuses" THEN "raised" ELSE Passed(v)

(* The client library raises for every error.                              *)
GmailSend(v) == IF v.says = "accepts" THEN "done" ELSE "raised"

ResultOf(r, v) ==
  CASE r.injected -> Passed(v)
    [] ~r.injected /\ r.ch = "telegram" -> TelegramSend(v)
    [] ~r.injected /\ r.ch = "webhook" -> WebhookSend(v)
    [] ~r.injected /\ r.ch = "whatsapp" -> WhatsAppSend(v)
    [] ~r.injected /\ r.ch = "twilio_sms" -> TwilioSmsSend(v)
    [] ~r.injected /\ r.ch = "teams" -> TeamsSend(v)
    [] ~r.injected /\ r.ch = "imap" -> ImapSend(v)
    [] ~r.injected /\ r.ch = "gmail" -> GmailSend(v)

Over(r, result) == outgoing' = [r |-> r, step |-> "over", result |-> result]
GoesTo(r, step) == outgoing' = [r |-> r, step |-> step]

(* Without a transport these return what they would send.                  *)
Voiceless == {"slack", "matrix", "signal", "twilio_voice"}

(* Up to the first call.                                                   *)
SendBegins(r) ==
  /\ outgoing.step = "none"
  /\ CASE r.ch = "signal" /\ ~r.text -> Over(r, "raised")
       [] r.ch = "webui" /\ ~r.text -> Over(r, "refusal")
       [] r.ch = "local_mic" -> GoesTo(r, "speech")
       [] r.ch = "webui" /\ r.text /\ r.injected -> GoesTo(r, "typing")
       [] r.ch = "webui" /\ r.text /\ ~r.injected -> Over(r, "done")
       [] r.ch \in {"discord", "line"} /\ ~r.injected -> Over(r, "raised")
       [] r.ch \in Voiceless /\ ~r.injected /\ (r.ch = "signal" => r.text) -> Over(r, "unsent")
       [] r.ch \in {"telegram", "webhook"} /\ ~r.injected /\ ~r.ready -> Over(r, "unsent")
       [] r.ch = "whatsapp" /\ ~r.injected /\ ~r.ready -> Over(r, "refusal")
       [] r.ch \in {"twilio_sms", "teams", "gmail", "imap"} /\ ~r.injected /\ ~r.ready -> Over(r, "raised")
       [] r.ch = "teams" /\ ~r.injected /\ r.ready -> GoesTo(r, "token")
       [] OTHER -> GoesTo(r, "call")
  /\ UNCHANGED vendor_has

(* local_mic speaks the reply, or its synthesis raises; an injected        *)
(* transport that is limited is called without speech.                     *)
Speaks ==
  LET r == outgoing.r IN
  /\ outgoing.step = "speech"
  /\ \/ r.injected /\ GoesTo(r, "call")
     \/ ~r.injected /\ Over(r, "unsent")
     \/ Over(r, "raised")
  /\ UNCHANGED vendor_has

(* teams: _fetch_token() from the cache, from the vendor, or not.          *)
TokenFetched ==
  /\ outgoing.step = "token"
  /\ GoesTo(outgoing.r, "call") \/ Over(outgoing.r, "raised")
  /\ UNCHANGED vendor_has

(* webui: the frame that says that the agent types.                        *)
TypingShown ==
  /\ outgoing.step = "typing"
  /\ GoesTo(outgoing.r, "call") \/ Over(outgoing.r, "limited") \/ Over(outgoing.r, "raised")
  /\ UNCHANGED vendor_has

CallAnswered(v) ==
  /\ outgoing.step = "call"
  /\ vendor_has' = v
  /\ Over(outgoing.r, ResultOf(outgoing.r, v))

(* A time-out or a lost connection, with the message accepted or not.      *)
CallBreaks ==
  /\ outgoing.step = "call"
  /\ vendor_has' \in {[NoAnswer EXCEPT !.says = "accepts, unheard"], NoAnswer}
  /\ Over(outgoing.r, "raised")

(* The gateway's route: the reply's own vendor is told of the inbound.     *)
RouteAnswers ==
  /\ outgoing.step = "over"
  /\ outgoing' = [r |-> outgoing.r, step |-> "answered", result |-> outgoing.result,
                  status |-> IF outgoing.result = "raised" THEN 500 ELSE 200]
  /\ UNCHANGED vendor_has

NextReply ==
  /\ outgoing.step = "answered"
  /\ outgoing' = [step |-> "none"] /\ vendor_has' = NoAnswer

SendNext ==
  \/ \E r \in Replies : SendBegins(r)
  \/ Speaks \/ TokenFetched \/ TypingShown
  \/ \E v \in VendorAnswersOf : CallAnswered(v)
  \/ CallBreaks \/ RouteAnswers \/ NextReply

SendSpec == SendInit /\ [][SendNext]_send_vars
-------------------------------------------------------------------------------
PassesJsonOn == {"webhook", "whatsapp"}      \* when they call their vendors themselves

(* "Rate-limit responses propagate to the caller as a 429" (each channel's *)
(* README), from whatever step they come, but for the two that pass JSON   *)
(* on and Gmail's, which raises; "done" is said of what the vendor has     *)
(* accepted, but by the web UI without a socket; and the 500 that makes a  *)
(* vendor deliver the inbound again follows an accepted reply only when    *)
(* the acceptance was not heard or not understood.                         *)
SendTells ==
  outgoing.step \in {"over", "answered"} =>
    LET r == outgoing.r
        own == ~r.injected
    IN  /\ vendor_has.says = "limits" =>
             \/ outgoing.result = "limited"
             \/ own /\ r.ch = "gmail" /\ outgoing.result = "raised"
             \/ own /\ r.ch \in PassesJsonOn /\ vendor_has.json /\ ~vendor_has.tells
             \/ own /\ r.ch = "telegram" /\ ~vendor_has.json /\ outgoing.result = "raised"
        /\ outgoing.result = "done" =>
             vendor_has.says = "accepts" \/ (own /\ r.ch = "webui")
        /\ outgoing.step = "answered" /\ outgoing.status = 500 =>
             \/ vendor_has.says # "accepts"
             \/ own /\ r.ch \in {"telegram", "teams"} /\ ~vendor_has.json
===============================================================================
