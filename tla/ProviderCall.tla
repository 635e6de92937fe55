---------------------------- MODULE ProviderCall ----------------------------
(***************************************************************************)
(* One recorded attempt of chat() at one provider, down to the requests    *)
(* that reach the vendor (glc/providers.py): the client puts the system    *)
(* text in place, for Gemini part of it in a cached content, and when the  *)
(* vendor refuses what was asked for it asks again for less.  chat() asks  *)
(* once more after a transient error, and once to repair an answer that    *)
(* does not match the schema.  ProviderRouting has these as Pause, Retry   *)
(* and Mismatch; its bookkeeping sees one call.  A stream is asked for     *)
(* once; only the OpenAI clients really stream, the others call chat() and *)
(* yield its text.                                                         *)
(***************************************************************************)
EXTENDS Integers, FiniteSets, Sequences, SequencesExt

CONSTANTS
  VendorAsks,    \* requests: family, reasoning, stream, format, what of the system text to cache
  Vendors        \* what a vendor accepts: reasoning, schema, object, and whether it keeps caches

SystemParts == {"fixed", "rest"}      \* of the system text; only "fixed" is marked for caching
Formats == {"none", "object", "schema"}
VendorProblems == {"reasoning", "schema", "json", "cache"}

ASSUME VendorAssumption ==
  /\ VendorAsks \subseteq [family : {"openai", "gemini", "ollama"}, reasoning : BOOLEAN,
                           stream : BOOLEAN, format : Formats, cache : {"no", "marked", "all"}]
  /\ Vendors \subseteq [reasoning : BOOLEAN, schema : BOOLEAN, keeps : BOOLEAN,
                        object : {"yes", "hint", "no"}]

VARIABLES
  ask, vendor,   \* the request and the vendor, chosen at the start
  stage,         \* where chat() and its client are
  turn,          \* which of the calls of client.chat() this is
  body,          \* the request that goes to the vendor
  rung,          \* how far down the ladder of lesser requests
  refusals,      \* history: what the responses of this call named, in order
  posts          \* history: requests that reached the vendor in all calls

vendor_vars == <<ask, vendor, stage, turn, body, rung, refusals, posts>>

(* "Strip cached part from system instruction to avoid double-billing."    *)
WithCache(b, parts) == [b EXCEPT !.cached = parts, !.inline = @ \ parts]

WithoutCache(b) == [b EXCEPT !.cached = {}, !.inline = SystemParts]

(* The body each client starts with.  The repair asks for no reasoning;    *)
(* Ollama has none.                                                        *)
FirstBody(t) ==
  [reasoning |-> ask.reasoning /\ t # "repair" /\ ask.family # "ollama",
   format |-> ask.format, hint |-> FALSE, inline |-> SystemParts, cached |-> {}]

ClientCalls(t) ==
  /\ turn' = t /\ rung' = 1 /\ refusals' = << >> /\ body' = FirstBody(t)
  /\ IF ask.family = "gemini" /\ ask.cache # "no"
     THEN stage' = "cache" /\ UNCHANGED posts
     ELSE stage' = "posted" /\ posts' = posts + 1

VendorInit ==
  /\ ask \in VendorAsks /\ vendor \in Vendors
  /\ turn = "first" /\ rung = 1 /\ refusals = << >> /\ body = FirstBody("first")
  /\ stage = "begin" /\ posts = 0

VendorBegin == stage = "begin" /\ ClientCalls("first") /\ UNCHANGED <<ask, vendor>>

(* The prompt cache returns a name, or None.                               *)
CacheAnswers ==
  /\ stage = "cache"
  /\ \/ body' = WithCache(body, IF ask.cache = "marked" THEN {"fixed"} ELSE SystemParts)
     \/ UNCHANGED body
  /\ stage' = "posted" /\ posts' = posts + 1
  /\ UNCHANGED <<ask, vendor, turn, rung, refusals>>

HintWanted(b) == IF b.hint THEN {} ELSE {"hint"}

(* What this vendor does not accept of this body; it names one of them.    *)
Refused(b) ==
  {p \in VendorProblems :
     \/ p = "reasoning" /\ b.reasoning /\ ~vendor.reasoning
     \/ p = "schema" /\ b.format = "schema" /\ ~vendor.schema
     \/ p = "json" /\ b.format = "object" /\ vendor.object \in {"no"} \union HintWanted(b)
     \/ p = "cache" /\ b.cached # {} /\ ~vendor.keeps}

(* Mutant: the third rung is an alternative to the second.                 *)
OpenAILadderShort(named) ==
  IF rung = 1 /\ body.reasoning /\ named = "reasoning"
    THEN {[b |-> [body EXCEPT !.reasoning = FALSE], rung |-> 2]}
  ELSE IF rung <= 2 /\ body.format = "schema"
    THEN {[b |-> [body EXCEPT !.format = "object"], rung |-> 3]}
  ELSE IF rung <= 2 /\ body.format = "object" /\ named = "json"
    THEN {[b |-> [body EXCEPT !.hint = TRUE], rung |-> 4]}
  ELSE {}

(* The ladder of OpenAICompatProvider.chat(): each rung is tried once, in  *)
(* this order.  The first needs the vendor's first response to name the    *)
(* effort; the second is tried after any error, the third after a 400 that *)
(* says "json".                                                            *)
OpenAILadder(named) ==
  IF rung = 1 /\ body.reasoning /\ named = "reasoning"
    THEN {[b |-> [body EXCEPT !.reasoning = FALSE], rung |-> 2]}
  ELSE IF rung <= 2 /\ body.format = "schema"
    THEN {[b |-> [body EXCEPT !.format = "object"], rung |-> 3]}
  ELSE IF rung <= 3 /\ body.format = "object" /\ named = "json"
    THEN {[b |-> [body EXCEPT !.hint = TRUE], rung |-> 4]}
  ELSE {}

(* GeminiProvider.chat() asks once more after a 400, without thinking, and *)
(* without the cache if that was named.                                    *)
GeminiLadder(named) ==
  LET plain == [body EXCEPT !.reasoning = FALSE]
  IN  IF rung = 1 /\ named \in VendorProblems
      THEN {[b |-> IF named = "cache" /\ body.cached # {} THEN WithoutCache(plain) ELSE plain,
             rung |-> 2]}
      ELSE {}

(* OpenAICompatProvider.stream() raises at once.                           *)
Ladder(named) ==
  CASE ask.family = "openai" /\ ask.stream -> {}
    [] ask.family = "openai" /\ ~ask.stream -> OpenAILadder(named)
    [] ask.family = "gemini" -> GeminiLadder(named)
    [] ask.family = "ollama" -> {}

(* chat() retries the first call after 5xx, 408 or a timeout.              *)
MayRetry(error) == turn = "first" /\ ~ask.stream /\ error \in {"upstream", "timeout"}

(* A response that is not 200, which names a problem or is some other      *)
(* error: the next rung, or the client raises and chat() pauses or gives up*)
(* on this provider.                                                       *)
Refuses(named) ==
  /\ stage = "posted"
  /\ named \in Refused(body) \union {"limited", "upstream"}
  /\ refusals' = Append(refusals, named)
  /\ IF Ladder(named) # {}
     THEN \E step \in Ladder(named) :
            /\ body' = step.b /\ rung' = step.rung
            /\ posts' = posts + 1 /\ UNCHANGED stage
     ELSE /\ stage' = IF MayRetry(named) THEN "pause" ELSE "failed"
          /\ UNCHANGED <<body, rung, posts>>
  /\ UNCHANGED <<ask, vendor, turn>>

(* No response at all raises past the ladder; chat() knows a timeout by    *)
(* its text, which may have none.                                          *)
TimesOut ==
  /\ stage = "posted"
  /\ refusals' = Append(refusals, "timeout")
  /\ stage' \in {"failed"} \union IF MayRetry("timeout") THEN {"pause"} ELSE {}
  /\ UNCHANGED <<ask, vendor, turn, body, rung, posts>>

RetryCalls == stage = "pause" /\ ClientCalls("retry") /\ UNCHANGED <<ask, vendor>>

(* 200: the answer will do, or it does not match the schema and is         *)
(* repaired once.                                                          *)
Accepts ==
  /\ stage = "posted" /\ Refused(body) = {}
  /\ \/ stage' = "answered" /\ UNCHANGED <<turn, body, rung, refusals, posts>>
     \/ /\ ask.format = "schema" /\ ~ask.stream
        /\ IF turn = "repair"
           THEN stage' = "invalid" /\ UNCHANGED <<turn, body, rung, refusals, posts>>
           ELSE ClientCalls("repair")
  /\ UNCHANGED <<ask, vendor>>

VendorNext ==
  \/ VendorBegin \/ CacheAnswers \/ TimesOut \/ RetryCalls \/ Accepts
  \/ \E named \in VendorProblems \union {"limited", "upstream"} : Refuses(named)

VendorSpec == VendorInit /\ [][VendorNext]_vendor_vars
-----------------------------------------------------------------------------
(* Whatever is cached, refused, retried or repaired, every request to the  *)
(* vendor holds each part of the system text exactly once.                 *)
SystemTextOnce ==
  stage = "posted" => body.inline \union body.cached = SystemParts
                      /\ body.inline \cap body.cached = {}

(* How far the requests that reach the vendor may exceed the one call that *)
(* Router.record() counted: three calls of the client, each with the rungs *)
(* of its family; one call for a stream, and one request if it really is.  *)
PostsBounded ==
  LET rungs == CASE ask.family = "openai" -> IF ask.stream THEN 1 ELSE 4
                 [] ask.family = "gemini" -> 2
                 [] ask.family = "ollama" -> 1
  IN  posts <= IF ask.stream THEN rungs ELSE 3 * rungs

(* The forms of the request without reasoning or cache that the family of  *)
(* clients knows.                                                          *)
Forms ==
  LET plain == [WithoutCache(body) EXCEPT !.reasoning = FALSE]
  IN  {[plain EXCEPT !.format = ask.format]} \union
      IF ask.family = "openai" /\ ask.format # "none"
      THEN {[plain EXCEPT !.format = "object", !.hint = TRUE]} ELSE {}

(* "Some providers reject reasoning_effort or strict json_schema — retry   *)
(* without them": a call fails for a refusal only if the vendor accepts no *)
(* form of the request at all; or it named the effort or the cache after   *)
(* something else had used that rung up; or an error that was no refusal   *)
(* had made the ladder drop the schema.                                    *)
FormFound ==
  LET first == refusals[1]  last == refusals[Len(refusals)]
  IN  stage = "failed" /\ last \in VendorProblems /\ ask.family # "ollama"
      /\ ~(ask.family = "openai" /\ ask.stream) =>
        \/ \A b \in Forms : Refused(b) # {}
        \/ last \in {"reasoning", "cache"} /\ first # last
        \/ ~(ToSet(refusals) \subseteq VendorProblems) /\ ask.format = "schema"

(* A call of a client is complete, bounded, and as good as its vendor lets *)
(* it be, through caches, ladder, retry and repair.                        *)
VendorCallSound == SystemTextOnce /\ PostsBounded /\ FormFound
=============================================================================
