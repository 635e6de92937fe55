------------------------------ MODULE KeyedCalls ------------------------------
(***************************************************************************)
(* How a call that needs a provider's key ends for the client: the route   *)
(* (chat with one attempt, embed, speak, transcribe) calls the broker,     *)
(* which calls the provider in its own process, in another one (remote),   *)
(* or, for chat, in a sandbox; an error comes back the same way, and the   *)
(* route decides by its class, status and text what to log, whether the    *)
(* provider backs off, and what the client is told.                        *)
(***************************************************************************)
EXTENDS Naturals

VARIABLES
  deployed,        \* GLC_BROKER
  keyed            \* the call: what is asked, how far it is, the provider's error, the end

keyed_vars == <<deployed, keyed>>

(* pinned: the request names its provider, and for transcribe that it      *)
(* prefers "streaming".                                                    *)
KeyedAsks == [what : {"chat", "embed", "stt", "tts"}, pinned : BOOLEAN]

(* known: ProviderError, EmbedderError, STTError or TTSError, with a       *)
(* status or 0; stub: NotImplementedError of a voice provider; other:      *)
(* anything else, a lost connection or an answer that is no JSON.          *)
(* timeout: whether it is one by its text, by the name of its class only,  *)
(* or not.                                                                 *)
KnownErrors == [class : {"known"}, status : {0, 400, 401, 403, 408, 429, 500, 501}, timeout : {"no", "text"}]
OtherErrors == [class : {"other"}, status : {0}, timeout : {"no", "name", "text"}]
Stub == [class |-> "stub", status |-> 0, timeout |-> "no"]
Known(status) == [class |-> "known", status |-> status, timeout |-> "no"]
NoError == [class |-> "none", status |-> 0, timeout |-> "no"]

KeyedInit ==
  /\ deployed \in {"in process", "remote", "sandbox"}
  /\ keyed = [step |-> "none"]

KeyedBegins(k) ==
  /\ keyed.step = "none"
  /\ keyed' = [step |-> "provider", k |-> k]
  /\ UNCHANGED deployed

(* transcribe() and synthesize() of the voice routers.                     *)
SttError(k, e) ==
  IF k.pinned THEN (IF e.class = "other" THEN e ELSE Known(0))
  ELSE IF e = Stub THEN Known(501) ELSE e
TtsError(e) == IF e = Stub THEN Known(501) ELSE e

(* What leaves the provider's side; the ring of embedders ends in a 503,   *)
(* unless one was named.                                                   *)
Raised(k, e) ==
  CASE k.what = "chat" -> e
    [] k.what = "embed" -> IF k.pinned THEN e ELSE Known(503)
    [] k.what = "stt" -> SttError(k, e)
    [] k.what = "tts" -> TtsError(e)

ProviderEnds(e) ==
  /\ keyed.step = "provider"
  /\ e = Stub => keyed.k.what \in {"stt", "tts"}
  /\ keyed' = [step |-> "back", k |-> keyed.k, first |-> e,
               error |-> IF e = NoError THEN e ELSE Raised(keyed.k, e)]
  /\ UNCHANGED deployed

(* The broker's entry point in a sandbox prints name and text of the       *)
(* error, and _exec() raises a RuntimeError with them.                     *)
AsText(e) ==
  [class |-> "other", status |-> 0, timeout |-> IF e.timeout = "no" THEN "no" ELSE "text"]

(* Mutant: the other process answers with the text of its error, too.      *)
CrossedAsText(k, e) == IF deployed # "in process" /\ e # NoError THEN AsText(e) ELSE e

(* The error as the route gets it; the remote's is pickled.  Only chat is  *)
(* called in sandboxes.                                                    *)
Crossed(k, e) ==
  IF deployed = "sandbox" /\ k.what = "chat" /\ e # NoError THEN AsText(e) ELSE e

(* The capability is refused, or the sandbox or the remote fails.          *)
BrokerFails ==
  /\ keyed.step = "provider" /\ deployed # "in process"
  /\ keyed' = [step |-> "back", k |-> keyed.k, first |-> NoError,
               error |-> [class |-> "other", status |-> 0, timeout |-> "no"]]
  /\ UNCHANGED deployed

Told(status, rows, backs_off) ==
  /\ keyed' = [step |-> "told", k |-> keyed.k, first |-> keyed.first, error |-> keyed.error,
               status |-> status, rows |-> rows, backs_off |-> backs_off]
  /\ UNCHANGED deployed

(* _backoff_for(), of a request that names no model.                       *)
BacksOff(e) == e.status \in {401, 403, 408, 429} \union 500..599 \/ e.timeout = "text"

(* chat(): a row, a backoff, and 502 or the next candidate.  For a client  *)
(* of OpenAI's or Gemini's family 400 and 401 are final.                   *)
ChatTold(e) ==
  \E final \in {FALSE, e.status \in {400, 401}} :
    Told(IF keyed.k.pinned \/ final THEN "502" ELSE "next", 1, BacksOff(e))

(* embed(): what is no EmbedderError passes, without a row.                *)
EmbedTold(e) ==
  IF e.class = "other" THEN Told("500", 0, FALSE)
  ELSE Told(CASE ~keyed.k.pinned -> "503"
              [] keyed.k.pinned /\ e.status = 429 -> "429"
              [] keyed.k.pinned /\ e.status = 400 -> "400"
              [] keyed.k.pinned /\ e.status \notin {400, 429} -> "502", 1, FALSE)

(* speak_route() and transcribe_route() give the status of the provider.   *)
VoiceTold(e) ==
  Told(CASE e.class = "other" -> "500"
         [] e.class = "known" /\ keyed.k.what = "stt" /\ keyed.k.pinned -> "400"
         [] e.class = "known" /\ ~(keyed.k.what = "stt" /\ keyed.k.pinned) ->
              IF e.status = 0 THEN "502" ELSE "upstream's", 0, FALSE)

RouteTells ==
  LET e == Crossed(keyed.k, keyed.error)
      what == keyed.k.what
  IN  /\ keyed.step = "back"
      /\ \/ e = NoError /\ Told("200", IF what \in {"chat", "embed"} THEN 1 ELSE 0, FALSE)
         \/ e # NoError /\ what = "chat" /\ ChatTold(e)
         \/ e # NoError /\ what = "embed" /\ EmbedTold(e)
         \/ e # NoError /\ what \in {"stt", "tts"} /\ VoiceTold(e)

KeyedReturns ==
  /\ keyed.step = "told"
  /\ keyed' = [step |-> "none"] /\ UNCHANGED deployed

KeyedNext ==
  \/ \E k \in KeyedAsks : KeyedBegins(k)
  \/ \E e \in KnownErrors \union OtherErrors \union {Stub, NoError} : ProviderEnds(e)
  \/ BrokerFails \/ RouteTells \/ KeyedReturns

KeyedSpec == KeyedInit /\ [][KeyedNext]_keyed_vars
-------------------------------------------------------------------------------
(* Success is told exactly of a success.  A keyed call leaves its row in   *)
(* the ledger, however it ends, but for an embedding that fails outside    *)
(* EmbedderError.  A provider of chat backs off when it limits or fails,   *)
(* wherever the broker runs it, except in a sandbox, where only timeouts   *)
(* are told apart.  A streaming transcription that the voice router        *)
(* refuses is the client's error; and no stub is taken for an upstream     *)
(* failure.                                                                *)
FailureTold ==
  keyed.step = "told" =>
    LET k == keyed.k
        e == keyed.first
        broker_failed == e = NoError /\ keyed.error # NoError
    IN  /\ keyed.status = "200" <=> e = NoError /\ ~broker_failed
        /\ k.what = "chat" => keyed.rows = 1
        /\ k.what = "embed" => keyed.rows = 1 \/ broker_failed \/ (k.pinned /\ e.class = "other")
        /\ k.what = "chat" /\ (e.status \in {429, 500} \/ e.timeout = "text") =>
             keyed.backs_off \/ (deployed = "sandbox" /\ e.timeout = "no")
        /\ k.what = "stt" /\ k.pinned /\ e.class \in {"known", "stub"} => keyed.status = "400"
        /\ e = Stub => keyed.status \in {"400", "upstream's"} /\ keyed.error.status \in {0, 501}
===============================================================================
