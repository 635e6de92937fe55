---------------------------- MODULE MCProviderSide ----------------------------
(***************************************************************************)
(* What lies between the chat worker and the vendors, as one instance for  *)
(* TLC: a behaviour is one of the part chosen at its start.                *)
(***************************************************************************)
EXTENDS EmbedRing, KeyBroker, PromptCache, VolumeCommit, ProviderCall, ToolDialogue, TierRing,
        ImageFetch, KeyedCalls, TLC

(* The parts share model values, so that TLC permutes few.                 *)
CONSTANTS embed1, embed2, task1, task2, box1, box2, box3, kind1, item1, item2, name1, name2

VARIABLE part    \* which of them this behaviour is about

MCEmbedOrder == <<embed1, embed2>>
MCEmbedRpm == (embed1 :> 0) @@ (embed2 :> 1)
MCEmbedCooldown == (embed1 :> 0) @@ (embed2 :> 1)
MCEmbedSteps == <<1, 2>>
MCVendorAsks == [family : {"openai", "gemini", "ollama"}, reasoning : BOOLEAN, stream : BOOLEAN,
                 format : Formats, cache : {"no", "marked", "all"}]
MCVendors == [reasoning : BOOLEAN, schema : BOOLEAN, keeps : BOOLEAN, object : {"yes", "hint", "no"}]

MCTierRpm == (embed1 :> 1) @@ (embed2 :> 2)
MCTierOrder == <<embed1, embed2>>

(* Bounds: these parts need no more ticks.                                 *)
MCBrokerTime == 2
MCTierTime == 3

MCIdleAsk == CHOOSE a \in VendorAsks : TRUE
MCIdleVendor == CHOOSE v \in Vendors : TRUE

Init ==
  /\ part \in {"embed", "broker", "cache", "volume", "vendor", "dialogue", "tier", "images", "keyed"}
  /\ ClockInit /\ EmbedInit /\ BrokerInit /\ CacheInit /\ VolumeInit
  /\ VendorInit /\ DialogueInit /\ TierInit /\ ImagesInit /\ KeyedInit
  /\ part # "vendor" => ask = MCIdleAsk /\ vendor = MCIdleVendor
  /\ part # "dialogue" => dialogue = << >> /\ ~client.blocks /\ ~client.names
  /\ part # "images" => dns = [h \in Hosts |-> {"public"}] /\ allowlist = {}
  /\ part # "keyed" => deployed = "in process"

(* A part's step, and the others at rest.                                  *)
RingsRest == UNCHANGED <<embed_vars, tier_vars>>
KeysRest == UNCHANGED <<broker_vars, cache_vars, volume_vars>>
CallsRest == UNCHANGED <<vendor_vars, dialogue_vars, image_vars, keyed_vars>>

RingStep ==
  /\ KeysRest /\ CallsRest
  /\ \/ part = "embed" /\ EmbedNext /\ UNCHANGED tier_vars
     \/ part = "tier" /\ TierNext /\ now' <= MCTierTime /\ UNCHANGED embed_vars

KeyStep ==
  /\ RingsRest /\ CallsRest
  /\ \/ part = "broker" /\ BrokerStep /\ now' <= MCBrokerTime /\ UNCHANGED <<cache_vars, volume_vars>>
     \/ part = "cache" /\ CacheNext /\ UNCHANGED <<broker_vars, volume_vars>>
     \/ part = "volume" /\ VolumeNext /\ UNCHANGED <<broker_vars, cache_vars>>

CallStep ==
  /\ RingsRest /\ KeysRest /\ UNCHANGED now
  /\ \/ part = "vendor" /\ VendorNext /\ UNCHANGED <<dialogue_vars, image_vars, keyed_vars>>
     \/ part = "dialogue" /\ DialogueNext /\ UNCHANGED <<vendor_vars, image_vars, keyed_vars>>
     \/ part = "images" /\ ImagesNext /\ UNCHANGED <<vendor_vars, dialogue_vars, keyed_vars>>
     \/ part = "keyed" /\ KeyedNext /\ UNCHANGED <<vendor_vars, dialogue_vars, image_vars>>

Next == UNCHANGED part /\ (RingStep \/ KeyStep \/ CallStep)

Spec == Init /\ [][Next]_<<part, now, embed_vars, tier_vars, broker_vars, cache_vars, volume_vars,
                          vendor_vars, dialogue_vars, image_vars, keyed_vars>>

Symmetric ==
  Permutations({task1, task2}) \union Permutations({box1, box2, box3})
  \union Permutations({item1, item2}) \union Permutations({name1, name2})
===============================================================================
