------------------------- MODULE MCProviderRouting -------------------------
(* ProviderRouting with two providers: "gem" cools down, takes one call a  *)
(* day and can do more; "groq" takes one call a minute.                    *)
EXTENDS ProviderRouting, TLC

CONSTANTS r1, r2

MCProviders == {"gem", "groq"}
MCOrder == <<"gem", "groq">>
MCRequests == {r1, r2}
MCLimits ==
  [p \in MCProviders |->
    IF p = "gem"
    THEN [rpm |-> 2, rpd |-> 1, tpm |-> 2, tokens_per_day |-> 3, cooldown |-> 2, max_ctx |-> 2]
    ELSE [rpm |-> 1, rpd |-> 2, tpm |-> 2, tokens_per_day |-> 3, cooldown |-> 0, max_ctx |-> 1]]
MCCapabilities == [p \in MCProviders |-> IF p = "gem" THEN {"vision"} ELSE {}]

Plain == [provider |-> None, pin |-> None, tiers |-> MCOrder, caps |-> {}, est |-> 1,
          stream |-> FALSE, schema |-> FALSE, model |-> FALSE]
Pinned == [Plain EXCEPT !.pin = "gem"]
Schema == [Plain EXCEPT !.schema = TRUE, !.model = TRUE, !.tiers = <<"groq", "gem">>]
Stream == [Plain EXCEPT !.stream = TRUE, !.caps = {"vision"}]
Unknown == [Plain EXCEPT !.provider = "nobody"]
MCAsks == {Plain, Pinned, Schema, Stream, Unknown}

MCBackoff == [kind \in {"rate_limited", "upstream", "unauthorized"} |->
               CASE kind = "rate_limited" -> 2 [] kind = "upstream" -> 1 [] OTHER -> 5]
=============================================================================
