----------------------------- MODULE PromptCache -----------------------------
(***************************************************************************)
(* GeminiCache of glc/cache.py: the cached contents that Gemini keeps for  *)
(* the gateway, by prompt.  get_or_create() looks under the lock, asks the *)
(* vendor for a new one without it, and stores that under the lock again;  *)
(* the lock is never held across an await, so each of the three is a step. *)
(***************************************************************************)
EXTENDS Clock, FiniteSets

CONSTANTS
  Prompts,          \* the key: model and text
  CacheTasks,       \* concurrent calls
  CacheNames,       \* names of cached contents at the vendor
  CacheTtl,         \* 300 s, told to the vendor as well
  CacheMargin,      \* 5 s
  NoName            \* no cached content

ASSUME CacheAssumption ==
  /\ NoName \notin CacheNames \union Prompts
  /\ CacheTtl \in Nat /\ CacheMargin \in Nat /\ CacheMargin <= CacheTtl

VARIABLES
  cached,      \* cached[k]: name and expiry, the _store
  lookup,      \* lookup[t]: the locals of get_or_create() in t
  content      \* content[n]: what the vendor has; asked, overlap, lost: history

cache_vars == <<cached, lookup, content>>

CacheIdle == [pc |-> "idle", prompt |-> NoName, at |-> 0, name |-> NoName]
NoEntry == [name |-> NoName, exp |-> 0]
NoContent == [prompt |-> NoName, asked |-> 0, ends |-> 0, overlap |-> FALSE, lost |-> FALSE]

CacheInit ==
  /\ cached = [k \in Prompts |-> NoEntry]
  /\ lookup = [t \in CacheTasks |-> CacheIdle]
  /\ content = [n \in CacheNames |-> NoContent]

CacheUsable(entry) == entry.name # NoName /\ entry.exp > now + CacheMargin
MissedOn(k) == {t \in CacheTasks : lookup[t].prompt = k /\ lookup[t].pc \in {"mint", "store"}}

(* A hit returns the name; what is about to expire is dropped and made     *)
(* anew.                                                                   *)
CacheHit(t, k) ==
  /\ lookup[t].pc = "idle"
  /\ CacheUsable(cached[k])
  /\ lookup' = [lookup EXCEPT ![t] = [pc |-> "hit", prompt |-> k, at |-> now,
                                      name |-> cached[k].name]]
  /\ UNCHANGED <<now, cached, content>>

CacheMiss(t, k) ==
  /\ lookup[t].pc = "idle"
  /\ ~CacheUsable(cached[k])
  /\ cached' = [cached EXCEPT ![k] = NoEntry]
  /\ lookup' = [lookup EXCEPT ![t] = [pc |-> "mint", prompt |-> k, at |-> now, name |-> NoName]]
  /\ content' = [n \in CacheNames |->
       IF \E u \in MissedOn(k) : lookup[u].name = n
       THEN [content[n] EXCEPT !.overlap = TRUE] ELSE content[n]]
  /\ UNCHANGED now

(* The vendor makes a content that lives for CacheTtl.                     *)
VendorMints(t, n) ==
  LET k == lookup[t].prompt
  IN  /\ lookup[t].pc = "mint"
      /\ content[n] = NoContent
      /\ content' = [content EXCEPT ![n] =
           [prompt |-> k, asked |-> lookup[t].at, ends |-> now + CacheTtl,
            overlap |-> MissedOn(k) # {t}, lost |-> FALSE]]
      /\ lookup' = [lookup EXCEPT ![t].pc = "store", ![t].name = n]
      /\ UNCHANGED <<now, cached>>

(* An error, a timeout, or an answer without a name; the content may have  *)
(* been made all the same.                                                 *)
MintFails(t) ==
  LET n == lookup[t].name
  IN  /\ lookup[t].pc \in {"mint", "store"}
      /\ content' = [m \in CacheNames |->
           IF m = n THEN [content[m] EXCEPT !.lost = TRUE] ELSE content[m]]
      /\ lookup' = [lookup EXCEPT ![t] = CacheIdle]
      /\ UNCHANGED <<now, cached>>

(* Mutant: the expiry counts from the vendor's answer.                     *)
StoreNameNow(t) ==
  /\ lookup[t].pc = "store"
  /\ cached' = [cached EXCEPT ![lookup[t].prompt] =
                  [name |-> lookup[t].name, exp |-> now + CacheTtl]]
  /\ lookup' = [lookup EXCEPT ![t] = CacheIdle]
  /\ UNCHANGED <<now, content>>

(* The expiry counts from the look-up, which is no later than the vendor's *)
(* count.                                                                  *)
StoreName(t) ==
  /\ lookup[t].pc = "store"
  /\ cached' = [cached EXCEPT ![lookup[t].prompt] =
                  [name |-> lookup[t].name, exp |-> lookup[t].at + CacheTtl]]
  /\ lookup' = [lookup EXCEPT ![t] = CacheIdle]
  /\ UNCHANGED <<now, content>>

(* The chat request with the name goes out.                                *)
HitUsed(t) ==
  /\ lookup[t].pc = "hit"
  /\ lookup' = [lookup EXCEPT ![t] = CacheIdle]
  /\ UNCHANGED <<now, cached, content>>

CacheNext ==
  \/ \E t \in CacheTasks : \/ \E k \in Prompts : CacheHit(t, k) \/ CacheMiss(t, k)
                           \/ \E n \in CacheNames : VendorMints(t, n)
                           \/ MintFails(t) \/ StoreName(t) \/ HitUsed(t)
  \/ Passes /\ UNCHANGED cache_vars

CacheSpec == ClockInit /\ CacheInit /\ [][CacheNext]_<<now, cache_vars>>
------------------------------------------------------------------------------
CacheTypeOK ==
  /\ now \in Nat
  /\ cached \in [Prompts -> [name : CacheNames \union {NoName}, exp : Nat]]
  /\ lookup \in [CacheTasks -> [pc : {"idle", "hit", "mint", "store"}, at : Nat,
                                prompt : Prompts \union {NoName},
                                name : CacheNames \union {NoName}]]
  /\ content \in [CacheNames -> [prompt : Prompts \union {NoName}, asked : Nat,
                                 ends : Nat, overlap : BOOLEAN, lost : BOOLEAN]]

(* A name handed out by a hit belongs to this prompt and was to live for   *)
(* more than CacheMargin at the vendor when it was looked up, however the  *)
(* calls that made it and replaced it overlapped.                          *)
HitStillThere ==
  \A t \in CacheTasks : lookup[t].pc = "hit" =>
    LET c == content[lookup[t].name]
    IN  c.prompt = lookup[t].prompt /\ c.ends > lookup[t].at + CacheMargin

(* A prompt is paid for again before its content is about to expire only   *)
(* when calls overlapped between look-up and store, or when an answer of   *)
(* the vendor was lost.                                                    *)
MintedTwiceOnlyWhenRaced ==
  \A n, m \in CacheNames :
    LET first == content[n]  second == content[m]
    IN  /\ n # m /\ first.prompt = second.prompt /\ first.prompt # NoName
        /\ ~(first.overlap \/ first.lost \/ second.overlap \/ second.lost)
        /\ first.asked <= second.asked
        => second.asked + CacheMargin >= first.asked + CacheTtl

(* The cache's names are good and few, however its users overlap.          *)
CacheSound == CacheTypeOK /\ HitStillThere /\ MintedTwiceOnlyWhenRaced
==============================================================================
