-------------------------- MODULE ProviderSideProofs --------------------------
(***************************************************************************)
(* Proofs about the parts between the chat worker and the vendors: the     *)
(* prompt cache, the key broker, the calls of a provider, the calls behind *)
(* the broker, the fetch of images, the commits of the volume, the rings   *)
(* of embedders and of routers, and conversations with tools.  Each part   *)
(* has an inductive invariant of its own, and none of them reads another's *)
(* state, so that the theorems hold of each whatever the others do.        *)
(***************************************************************************)
EXTENDS PromptCache, KeyBroker, ProviderCall, KeyedCalls, ImageFetch, VolumeCommit, EmbedRing,
        TierRing, ToolDialogue, NatLemmas, TLAPS

-------------------------------------------------------------------------------
(***************************************************************************)
(* PromptCache: the cached contents, for any number of calls, prompts and  *)
(* cached contents, and whatever time to live and margin.                  *)
(*                                                                         *)
(* HitStillThere needs to know where names come from: each that a call     *)
(* holds or the cache keeps is that of a content of the same prompt, which *)
(* ends no earlier than the entry.  MintedTwiceOnlyWhenRaced needs the     *)
(* life of a content that was neither lost nor made while others looked:   *)
(* its maker holds it and is alone, or the cache keeps it and nobody makes *)
(* another, or it is about to expire (Followed); and whoever makes another *)
(* came when it was about to expire (Outlived).                            *)
(***************************************************************************)
HoldsNone(l) == l.pc = "mint" /\ l.name = NoName

HoldsNew(l) ==
  /\ l.pc = "store" /\ l.name \in CacheNames
  /\ content[l.name].prompt = l.prompt /\ content[l.name].asked = l.at
  /\ content[l.name].ends >= l.at + CacheTtl

HoldsHit(l) ==
  /\ l.pc = "hit" /\ l.name \in CacheNames
  /\ content[l.name].prompt = l.prompt /\ content[l.name].ends > l.at + CacheMargin

Lookups ==
  \A t \in CacheTasks :
    \/ lookup[t] = CacheIdle
    \/ /\ lookup[t].prompt \in Prompts /\ lookup[t].at <= now
       /\ HoldsNone(lookup[t]) \/ HoldsNew(lookup[t]) \/ HoldsHit(lookup[t])

Entries ==
  \A k \in Prompts : cached[k].name # NoName =>
    content[cached[k].name].prompt = k /\ content[cached[k].name].ends >= cached[k].exp

(* Made alone and told to the cache, so far.                               *)
Clean(n) == content[n].prompt # NoName /\ ~content[n].overlap /\ ~content[n].lost

ExpiresSoon(n) == now + CacheMargin >= content[n].asked + CacheTtl
Kept(n) ==
  /\ cached[content[n].prompt] = [name |-> n, exp |-> content[n].asked + CacheTtl]
  /\ MissedOn(content[n].prompt) = {}
Held(n) ==
  \E t \in CacheTasks : /\ lookup[t].pc = "store" /\ lookup[t].name = n
                        /\ MissedOn(content[n].prompt) = {t}

Followed == \A n \in CacheNames : Clean(n) => Held(n) \/ Kept(n) \/ ExpiresSoon(n)

Outlived ==
  \A n \in CacheNames : Clean(n) =>
    \A t \in MissedOn(content[n].prompt) :
      lookup[t].name # n => lookup[t].at + CacheMargin >= content[n].asked + CacheTtl

CacheInv ==
  /\ CacheTypeOK /\ Lookups /\ Entries
  /\ Followed /\ Outlived /\ MintedTwiceOnlyWhenRaced

USE CacheAssumption

LEMMA InitCache == ClockInit /\ CacheInit => CacheInv
<1> SUFFICES ASSUME ClockInit, CacheInit PROVE CacheInv
  OBVIOUS
<1> USE DEF ClockInit, CacheInit
<1>1. CacheTypeOK
  BY DEF CacheTypeOK, NoEntry, CacheIdle, NoContent
<1>2. Lookups /\ Entries
  BY DEF Lookups, Entries, NoEntry
<1>3. \A n \in CacheNames : ~Clean(n) /\ content[n].prompt = NoName
  BY DEF Clean, NoContent
<1>4. Followed /\ Outlived /\ MintedTwiceOnlyWhenRaced
  BY <1>3 DEF Followed, Outlived, MintedTwiceOnlyWhenRaced
<1> QED BY <1>1, <1>2, <1>4 DEF CacheInv

(* A content that the step leaves alone, or marks.                         *)
Marks(n) ==
  /\ content'[n].prompt = content[n].prompt /\ content'[n].asked = content[n].asked
  /\ content'[n].ends = content[n].ends
  /\ Clean(n)' => Clean(n)

(* Steps that make no content leave the pairs as they were.                *)
LEMMA PairsKept ==
  ASSUME CacheInv, \A n \in CacheNames : Marks(n)
  PROVE  MintedTwiceOnlyWhenRaced'
<1> SUFFICES ASSUME NEW n \in CacheNames, NEW m \in CacheNames, n # m,
                    content'[n].prompt = content'[m].prompt, content'[n].prompt # NoName,
                    ~(content'[n].overlap \/ content'[n].lost \/ content'[m].overlap
                      \/ content'[m].lost),
                    content'[n].asked <= content'[m].asked
             PROVE  content'[m].asked + CacheMargin >= content'[n].asked + CacheTtl
  BY DEF MintedTwiceOnlyWhenRaced
<1>1. Clean(n) /\ Clean(m)
  BY DEF Marks, Clean
<1> QED BY <1>1 DEF CacheInv, MintedTwiceOnlyWhenRaced, Marks, Clean

LEMMA HitKeeps ==
  ASSUME CacheInv, NEW t \in CacheTasks, NEW k \in Prompts, CacheHit(t, k)
  PROVE  CacheInv'
<1> USE DEF CacheInv, CacheHit, CacheUsable
<1>1. CacheTypeOK'
  BY DEF CacheTypeOK
<1>2. \A n \in CacheNames : Marks(n)
  BY DEF Marks, Clean
<1>3. cached[k].name \in CacheNames /\ cached[k].exp \in Nat /\ now \in Nat
  BY DEF CacheTypeOK
<1>4. content[cached[k].name].prompt = k /\ content[cached[k].name].ends > now + CacheMargin
  <2>1. content[cached[k].name].ends \in Nat
    BY <1>3 DEF CacheTypeOK
  <2> QED BY <1>3, <2>1 DEF Entries
<1>5. Lookups'
  BY <1>3, <1>4 DEF Lookups, CacheTypeOK, HoldsNone, HoldsNew, HoldsHit, CacheIdle
<1>6. Entries'
  BY DEF Entries
<1>7. \A q \in Prompts : MissedOn(q)' = MissedOn(q)
  BY DEF MissedOn, CacheTypeOK
<1>8. \A u \in CacheTasks : u # t => lookup'[u] = lookup[u]
  BY DEF CacheTypeOK
<1>9. \A n \in CacheNames : Clean(n)' => Clean(n) /\ content[n].prompt \in Prompts
  BY DEF Clean, CacheTypeOK
<1>10. Followed'
  BY <1>7, <1>8, <1>9 DEF Followed, Held, Kept, ExpiresSoon, MissedOn
<1>11. Outlived'
  BY <1>7, <1>8, <1>9 DEF Outlived, MissedOn
<1> QED BY <1>1, <1>2, <1>5, <1>6, <1>10, <1>11, PairsKept

LEMMA MissKeeps ==
  ASSUME CacheInv, NEW t \in CacheTasks, NEW k \in Prompts, CacheMiss(t, k)
  PROVE  CacheInv'
<1> USE DEF CacheInv, CacheMiss, CacheUsable
<1>1. CacheTypeOK'
  BY DEF CacheTypeOK, NoEntry
<1>2. \A n \in CacheNames : Marks(n)
  BY DEF Marks, Clean, CacheTypeOK
<1>3. now \in Nat /\ CacheMargin \in Nat /\ cached[k].exp \in Nat
  BY DEF CacheTypeOK
<1>4. Lookups'
  <2>1. ASSUME NEW u \in CacheTasks, u # t
        PROVE  \/ lookup'[u] = CacheIdle
               \/ /\ lookup'[u].prompt \in Prompts /\ lookup'[u].at <= now'
                  /\ HoldsNone(lookup[u])' \/ HoldsNew(lookup[u])' \/ HoldsHit(lookup[u])'
    <3>1. lookup'[u] = lookup[u] /\ now' = now
      BY <2>1 DEF CacheTypeOK
    <3> QED BY <1>2, <3>1 DEF Lookups, Marks, HoldsNone, HoldsNew, HoldsHit
  <2>2. HoldsNone(lookup[t])' /\ lookup'[t].prompt \in Prompts /\ lookup'[t].at <= now'
    BY <1>3 DEF HoldsNone, CacheTypeOK
  <2> QED BY <2>1, <2>2 DEF Lookups
<1>5. Entries'
  BY <1>2 DEF Entries, Marks, CacheTypeOK, NoEntry
<1>6. /\ MissedOn(k)' = MissedOn(k) \union {t}
      /\ \A q \in Prompts \ {k} : MissedOn(q)' = MissedOn(q)
  BY DEF MissedOn, CacheTypeOK, CacheIdle, Lookups, HoldsNone, HoldsNew, HoldsHit
<1>7. \A u \in CacheTasks : u # t => lookup'[u] = lookup[u]
  BY DEF CacheTypeOK
<1>8. \A n \in CacheNames : Clean(n)' => Clean(n) /\ content[n].prompt \in Prompts
                                         /\ content'[n].prompt = content[n].prompt
                                         /\ content'[n].asked = content[n].asked
  BY <1>2 DEF Clean, CacheTypeOK, Marks
<1>9. ASSUME NEW n \in CacheNames, Clean(n)', content[n].prompt = k PROVE ExpiresSoon(n)
  <2>1. ~ \E u \in MissedOn(k) : lookup[u].name = n
    BY <1>9 DEF Clean, CacheTypeOK
  <2>2. ~ Held(n)
    BY <1>9, <2>1 DEF Held, MissedOn
  <2>3. CASE Kept(n)
    <3>1. cached[k].name = n /\ cached[k].exp = content[n].asked + CacheTtl
      BY <1>9, <2>3 DEF Kept
    <3> QED BY <1>3, <3>1 DEF ExpiresSoon
  <2> QED BY <1>8, <1>9, <2>2, <2>3 DEF Followed
<1>10. Followed'
  <2> SUFFICES ASSUME NEW n \in CacheNames, Clean(n)' PROVE (Held(n) \/ Kept(n) \/ ExpiresSoon(n))'
    BY DEF Followed
  <2>1. CASE content[n].prompt = k
    BY <1>8, <1>9, <2>1 DEF ExpiresSoon
  <2>2. CASE content[n].prompt # k
    <3>1. CASE Held(n)
      BY <1>6, <1>7, <1>8, <2>2, <3>1 DEF Held, MissedOn, CacheIdle
    <3>2. CASE Kept(n)
      BY <1>6, <1>8, <2>2, <3>2 DEF Kept, CacheTypeOK
    <3>3. CASE ExpiresSoon(n)
      BY <1>8, <3>3 DEF ExpiresSoon
    <3> QED BY <1>8, <3>1, <3>2, <3>3 DEF Followed
  <2> QED BY <2>1, <2>2
<1>11. Outlived'
  <2> SUFFICES ASSUME NEW n \in CacheNames, Clean(n)', NEW u \in CacheTasks,
                      u \in MissedOn(content[n].prompt)', lookup'[u].name # n
               PROVE  lookup'[u].at + CacheMargin >= content'[n].asked + CacheTtl
    BY DEF Outlived, MissedOn
  <2>1. CASE u = t
    <3>1. content[n].prompt = k /\ lookup'[u].at = now
      BY <1>8, <2>1 DEF MissedOn, CacheTypeOK
    <3> QED BY <1>8, <1>9, <3>1 DEF ExpiresSoon
  <2>2. CASE u # t
    BY <1>7, <1>8, <2>2 DEF Outlived, MissedOn
  <2> QED BY <2>1, <2>2
<1> QED BY <1>1, <1>2, <1>4, <1>5, <1>10, <1>11, PairsKept

LEMMA MintKeeps ==
  ASSUME CacheInv, NEW t \in CacheTasks, NEW n \in CacheNames, VendorMints(t, n)
  PROVE  CacheInv'
<1> DEFINE k == lookup[t].prompt
           at == lookup[t].at
<1> USE DEF CacheInv, VendorMints
<1>1. CacheTypeOK'
  <2>1. content' \in [CacheNames -> [prompt : Prompts \union {NoName}, asked : Nat,
                                    ends : Nat, overlap : BOOLEAN, lost : BOOLEAN]]
    <3>1. lookup[t].prompt \in Prompts \union {NoName} /\ lookup[t].at \in Nat
          /\ now + CacheTtl \in Nat
      BY DEF CacheTypeOK
    <3> DEFINE made == [prompt |-> lookup[t].prompt, asked |-> lookup[t].at,
                        ends |-> now + CacheTtl, overlap |-> MissedOn(lookup[t].prompt) # {t},
                        lost |-> FALSE]
    <3>2. (MissedOn(lookup[t].prompt) # {t}) \in BOOLEAN
      OBVIOUS
    <3>3. made \in [prompt : Prompts \union {NoName}, asked : Nat,
                   ends : Nat, overlap : BOOLEAN, lost : BOOLEAN]
      BY <3>1, <3>2
    <3>4. content' = [content EXCEPT ![n] = made]
      OBVIOUS
    <3> HIDE DEF made
    <3> QED BY <3>3, <3>4 DEF CacheTypeOK
  <2>2. lookup' \in [CacheTasks -> [pc : {"idle", "hit", "mint", "store"}, at : Nat,
                                   prompt : Prompts \union {NoName},
                                   name : CacheNames \union {NoName}]]
    <3> DEFINE stores == [lookup[t] EXCEPT !.pc = "store", !.name = n]
    <3>1. stores \in [pc : {"idle", "hit", "mint", "store"}, at : Nat,
                     prompt : Prompts \union {NoName}, name : CacheNames \union {NoName}]
      BY DEF CacheTypeOK
    <3>2. lookup' = [lookup EXCEPT ![t] = stores]
      BY DEF CacheTypeOK
    <3> HIDE DEF stores
    <3> QED BY <3>1, <3>2 DEF CacheTypeOK
  <2> QED BY <2>1, <2>2 DEF CacheTypeOK
<1>2. /\ k \in Prompts /\ at \in Nat /\ now \in Nat /\ at <= now
      /\ lookup[t].name = NoName /\ lookup[t].pc = "mint" /\ t \in MissedOn(k)
  BY DEF CacheTypeOK, Lookups, CacheIdle, HoldsNone, HoldsNew, HoldsHit, MissedOn
<1>3. content[n].prompt = NoName /\ ~Clean(n)
  BY DEF NoContent, Clean
<1>4. /\ content'[n] = [prompt |-> k, asked |-> at, ends |-> now + CacheTtl,
                        overlap |-> MissedOn(k) # {t}, lost |-> FALSE]
      /\ \A m \in CacheNames : m # n => content'[m] = content[m]
  BY DEF CacheTypeOK
<1>5. ~content'[n].overlap => MissedOn(k) = {t}
  <2> SUFFICES ASSUME MissedOn(k) # {t} PROVE content'[n].overlap
    OBVIOUS
  <2>1. (MissedOn(k) # {t}) = TRUE
    OBVIOUS
  <2>2. content'[n].overlap = (MissedOn(k) # {t})
    BY <1>4
  <2> QED BY <2>1, <2>2
<1>6. /\ lookup'[t] = [lookup[t] EXCEPT !.pc = "store", !.name = n]
      /\ \A u \in CacheTasks : u # t => lookup'[u] = lookup[u]
  BY DEF CacheTypeOK
<1>7. \A q \in Prompts : MissedOn(q)' = MissedOn(q)
  BY DEF MissedOn, CacheTypeOK
<1>8. Lookups'
  <2>1. ASSUME NEW u \in CacheTasks, u # t
        PROVE  \/ lookup'[u] = CacheIdle
               \/ /\ lookup'[u].prompt \in Prompts /\ lookup'[u].at <= now'
                  /\ HoldsNone(lookup[u])' \/ HoldsNew(lookup[u])' \/ HoldsHit(lookup[u])'
    <3>1. CASE lookup[u] = CacheIdle
      BY <1>6, <2>1, <3>1
    <3>2. CASE lookup[u] # CacheIdle
      <4>1. lookup[u].prompt # NoName /\ (lookup[u].pc # "mint" => lookup[u].name # n)
        BY <1>3, <3>2 DEF Lookups, HoldsNone, HoldsNew, HoldsHit
      <4>2. /\ lookup'[u] = lookup[u] /\ now' = now
            /\ lookup[u].prompt \in Prompts /\ lookup[u].at <= now
        BY <1>6, <2>1, <3>2 DEF Lookups
      <4>3. CASE HoldsNone(lookup[u])
        BY <4>2, <4>3 DEF HoldsNone
      <4>4. CASE HoldsNew(lookup[u]) \/ HoldsHit(lookup[u])
        <5>1. lookup[u].name \in CacheNames /\ lookup[u].name # n
          BY <4>1, <4>4 DEF HoldsNew, HoldsHit
        <5>2. content'[lookup[u].name] = content[lookup[u].name]
          BY <1>4, <5>1
        <5> QED BY <4>2, <4>4, <5>1, <5>2 DEF HoldsNew, HoldsHit
      <4> QED BY <3>2, <4>3, <4>4 DEF Lookups
    <3> QED BY <3>1, <3>2
  <2>2. lookup'[t].prompt \in Prompts /\ lookup'[t].at <= now' /\ HoldsNew(lookup[t])'
    <3>1. /\ lookup'[t].pc = "store" /\ lookup'[t].name = n /\ lookup'[t].prompt = k
          /\ lookup'[t].at = at
      BY <1>6 DEF CacheTypeOK
    <3> QED BY <1>2, <1>4, <3>1 DEF HoldsNew
  <2> QED BY <2>1, <2>2 DEF Lookups
<1>9. Entries'
  BY <1>3, <1>4 DEF Entries, CacheTypeOK
<1>10. \A m \in CacheNames : m # n /\ Clean(m)' => /\ Clean(m) /\ content'[m] = content[m]
                                                 /\ content[m].prompt \in Prompts
  BY <1>4 DEF Clean, CacheTypeOK
<1>11. Followed'
  <2> SUFFICES ASSUME NEW m \in CacheNames, Clean(m)' PROVE (Held(m) \/ Kept(m) \/ ExpiresSoon(m))'
    BY DEF Followed
  <2>1. CASE m = n
    <3>1. content'[m].prompt = k /\ MissedOn(k) = {t}
      BY <1>4, <1>5, <2>1 DEF Clean
    <3>2. MissedOn(content[m].prompt)' = {t}
      BY <1>2, <1>7, <3>1
    <3>3. lookup'[t].pc = "store" /\ lookup'[t].name = m
      BY <1>6, <2>1 DEF CacheTypeOK
    <3> QED BY <3>2, <3>3 DEF Held
  <2>2. CASE m # n
    <3>1. CASE Held(m)
      <4>1. PICK u \in CacheTasks : lookup[u].pc = "store" /\ lookup[u].name = m
                                    /\ MissedOn(content[m].prompt) = {u}
        BY <3>1 DEF Held
      <4>2. u # t
        BY <1>2, <4>1
      <4>3. lookup'[u].pc = "store" /\ lookup'[u].name = m
        BY <1>6, <4>1, <4>2
      <4>4. MissedOn(content[m].prompt)' = {u}
        <5>1. content'[m].prompt = content[m].prompt /\ content[m].prompt \in Prompts
          BY <1>10, <2>2
        <5> QED BY <1>7, <4>1, <5>1
      <4> QED BY <4>3, <4>4 DEF Held
    <3>2. CASE Kept(m)
      BY <1>7, <1>10, <2>2, <3>2 DEF Kept
    <3>3. CASE ExpiresSoon(m)
      BY <1>10, <2>2, <3>3 DEF ExpiresSoon
    <3> QED BY <1>10, <2>2, <3>1, <3>2, <3>3 DEF Followed
  <2> QED BY <2>1, <2>2
<1>12. \A m \in CacheNames : m # n /\ Clean(m)' /\ content'[m].prompt = k
         => at + CacheMargin >= content[m].asked + CacheTtl
  BY <1>2, <1>10 DEF Outlived
<1>13. Outlived'
  <2> SUFFICES ASSUME NEW m \in CacheNames, Clean(m)', NEW u \in CacheTasks,
                      u \in MissedOn(content[m].prompt)', lookup'[u].name # m
               PROVE  lookup'[u].at + CacheMargin >= content'[m].asked + CacheTtl
    BY DEF Outlived, MissedOn
  <2>1. CASE m = n
    <3>1. MissedOn(k) = {t} /\ MissedOn(content[m].prompt)' = {t}
      BY <1>2, <1>4, <1>7, <1>5, <2>1 DEF Clean
    <3> QED BY <1>6, <2>1, <3>1 DEF CacheTypeOK
  <2>2. CASE m # n /\ u = t
    <3>1. lookup'[t].at = at /\ content'[m].prompt = k
      BY <1>6, <2>2 DEF CacheTypeOK, MissedOn
    <3> QED BY <1>10, <1>12, <2>2, <3>1
  <2>3. CASE m # n /\ u # t
    BY <1>6, <1>7, <1>10, <2>3 DEF Outlived, MissedOn
  <2> QED BY <2>1, <2>2, <2>3
<1>14. MintedTwiceOnlyWhenRaced'
  <2> SUFFICES ASSUME NEW a \in CacheNames, NEW b \in CacheNames, a # b,
                      content'[a].prompt = content'[b].prompt, Clean(a)', Clean(b)',
                      content'[a].asked <= content'[b].asked
               PROVE  content'[b].asked + CacheMargin >= content'[a].asked + CacheTtl
    BY DEF MintedTwiceOnlyWhenRaced, Clean
  <2>1. CASE b = n
    BY <1>4, <1>10, <1>12, <2>1
  <2>2. CASE a = n
    <3>1. content'[a].asked = at /\ content'[b] = content[b] /\ content[b].asked \in Nat
      BY <1>4, <2>2 DEF CacheTypeOK
    <3>2. at + CacheMargin >= content[b].asked + CacheTtl
      BY <1>4, <1>12, <2>2
    <3>3. at <= content[b].asked
      BY <3>1
    <3> QED BY <1>2, <3>1, <3>2, <3>3
  <2>3. CASE a # n /\ b # n
    BY <1>4, <1>10, <2>3 DEF MintedTwiceOnlyWhenRaced, Clean
  <2> QED BY <2>1, <2>2, <2>3
<1> QED BY <1>1, <1>8, <1>9, <1>11, <1>13, <1>14

(* The steps after which t is idle have this in common.                    *)
LEMMA LeaverKeeps ==
  ASSUME CacheInv, NEW t \in CacheTasks, lookup' = [lookup EXCEPT ![t] = CacheIdle], now' = now,
         \A n \in CacheNames : Marks(n)
  PROVE  /\ Lookups'
         /\ \A q \in Prompts : MissedOn(q)' = MissedOn(q) \ {t}
         /\ \A u \in CacheTasks : u # t => lookup'[u] = lookup[u]
         /\ \A n \in CacheNames : Clean(n)' => /\ Clean(n) /\ content[n].prompt \in Prompts
                                              /\ content'[n].prompt = content[n].prompt
                                              /\ content'[n].asked = content[n].asked
         /\ Outlived'
<1> USE DEF CacheInv
<1>1. lookup'[t] = CacheIdle /\ \A u \in CacheTasks : u # t => lookup'[u] = lookup[u]
  BY DEF CacheTypeOK
<1>2. Lookups'
  <2> SUFFICES ASSUME NEW u \in CacheTasks, u # t, lookup[u] # CacheIdle
               PROVE  /\ lookup'[u].prompt \in Prompts /\ lookup'[u].at <= now'
                      /\ HoldsNone(lookup[u])' \/ HoldsNew(lookup[u])' \/ HoldsHit(lookup[u])'
    BY <1>1 DEF Lookups
  <2> QED BY <1>1 DEF Lookups, Marks, HoldsNone, HoldsNew, HoldsHit
<1>3. \A q \in Prompts : MissedOn(q)' = MissedOn(q) \ {t}
  BY <1>1 DEF MissedOn, CacheIdle
<1>4. \A n \in CacheNames : Clean(n)' => /\ Clean(n) /\ content[n].prompt \in Prompts
                                       /\ content'[n].prompt = content[n].prompt
                                       /\ content'[n].asked = content[n].asked
  BY DEF Marks, Clean, CacheTypeOK
<1>5. Outlived'
  <2> SUFFICES ASSUME NEW n \in CacheNames, Clean(n)', NEW u \in CacheTasks,
                      u \in MissedOn(content[n].prompt)', lookup'[u].name # n
               PROVE  lookup'[u].at + CacheMargin >= content'[n].asked + CacheTtl
    BY DEF Outlived, MissedOn
  <2>1. u # t /\ u \in MissedOn(content[n].prompt)
    BY <1>3, <1>4
  <2> QED BY <1>1, <1>4, <2>1 DEF Outlived
<1> QED BY <1>1, <1>2, <1>3, <1>4, <1>5

LEMMA FailKeeps ==
  ASSUME CacheInv, NEW t \in CacheTasks, MintFails(t)
  PROVE  CacheInv'
<1> DEFINE n == lookup[t].name
<1> USE DEF CacheInv, MintFails
<1>1. CacheTypeOK'
  BY DEF CacheTypeOK, CacheIdle
<1>2. \A m \in CacheNames : Marks(m)
  BY DEF Marks, Clean, CacheTypeOK
<1>3. \A m \in CacheNames : m = n => ~Clean(m)'
  BY DEF Clean, CacheTypeOK
<1>4. /\ Lookups' /\ Outlived'
      /\ \A q \in Prompts : MissedOn(q)' = MissedOn(q) \ {t}
      /\ \A u \in CacheTasks : u # t => lookup'[u] = lookup[u]
      /\ \A m \in CacheNames : Clean(m)' => /\ Clean(m) /\ content[m].prompt \in Prompts
                                           /\ content'[m].prompt = content[m].prompt
                                           /\ content'[m].asked = content[m].asked
  BY <1>2, LeaverKeeps
<1>5. Entries'
  BY <1>2 DEF Entries, Marks, CacheTypeOK
<1>6. Followed'
  <2> SUFFICES ASSUME NEW m \in CacheNames, Clean(m)' PROVE (Held(m) \/ Kept(m) \/ ExpiresSoon(m))'
    BY DEF Followed
  <2>1. m # n
    BY <1>3
  <2>2. CASE Held(m)
    BY <1>4, <2>1, <2>2 DEF Held
  <2>3. CASE Kept(m)
    BY <1>4, <2>3 DEF Kept
  <2>4. CASE ExpiresSoon(m)
    BY <1>4, <2>4 DEF ExpiresSoon
  <2> QED BY <1>4, <2>2, <2>3, <2>4 DEF Followed
<1> QED BY <1>1, <1>2, <1>4, <1>5, <1>6, PairsKept

LEMMA NameStoreKeeps ==
  ASSUME CacheInv, NEW t \in CacheTasks, StoreName(t)
  PROVE  CacheInv'
<1> DEFINE n == lookup[t].name
           k == lookup[t].prompt
           exp == lookup[t].at + CacheTtl
<1> USE DEF CacheInv, StoreName
<1>1. /\ k \in Prompts /\ lookup[t].at \in Nat /\ exp \in Nat /\ n \in CacheNames
      /\ content[n].prompt = k /\ content[n].asked = lookup[t].at /\ content[n].ends >= exp
      /\ t \in MissedOn(k)
  BY DEF CacheTypeOK, Lookups, CacheIdle, HoldsNone, HoldsNew, HoldsHit, MissedOn
<1>2. /\ cached'[k] = [name |-> n, exp |-> exp]
      /\ \A q \in Prompts : q # k => cached'[q] = cached[q]
  BY <1>1 DEF CacheTypeOK
<1>3. CacheTypeOK'
  BY <1>1 DEF CacheTypeOK, CacheIdle
<1>4. \A m \in CacheNames : Marks(m)
  BY DEF Marks, Clean
<1>5. /\ Lookups' /\ Outlived'
      /\ \A q \in Prompts : MissedOn(q)' = MissedOn(q) \ {t}
      /\ \A u \in CacheTasks : u # t => lookup'[u] = lookup[u]
      /\ \A m \in CacheNames : Clean(m)' => Clean(m) /\ content[m].prompt \in Prompts
  BY <1>4, LeaverKeeps
<1>6. Entries'
  BY <1>1, <1>2 DEF Entries
<1>7. Followed'
  <2> SUFFICES ASSUME NEW m \in CacheNames, Clean(m)' PROVE (Held(m) \/ Kept(m) \/ ExpiresSoon(m))'
    BY DEF Followed
  <2>1. CASE Held(m)
    <3>1. PICK u \in CacheTasks : lookup[u].pc = "store" /\ lookup[u].name = m
                                  /\ MissedOn(content[m].prompt) = {u}
      BY <2>1 DEF Held
    <3>2. CASE u = t
      <4>1. m = n /\ MissedOn(k) = {t}
        BY <1>1, <3>1, <3>2
      <4>2. MissedOn(content[m].prompt)' = {}
        BY <1>1, <1>5, <4>1
      <4> QED BY <1>1, <1>2, <4>1, <4>2 DEF Kept
    <3>3. CASE u # t
      <4>1. content[m].prompt # k
        BY <1>1, <3>1, <3>3
      <4> QED BY <1>5, <3>1, <3>3 DEF Held
    <3> QED BY <3>2, <3>3
  <2>2. CASE Kept(m)
    <3>1. content[m].prompt # k
      BY <1>1, <2>2 DEF Kept
    <3> QED BY <1>2, <1>5, <2>2, <3>1 DEF Kept
  <2>3. CASE ExpiresSoon(m)
    BY <2>3 DEF ExpiresSoon
  <2> QED BY <1>5, <2>1, <2>2, <2>3 DEF Followed
<1> QED BY <1>3, <1>4, <1>5, <1>6, <1>7, PairsKept

LEMMA UsedKeeps ==
  ASSUME CacheInv, NEW t \in CacheTasks, HitUsed(t)
  PROVE  CacheInv'
<1> USE DEF CacheInv, HitUsed
<1>1. CacheTypeOK'
  BY DEF CacheTypeOK, CacheIdle
<1>2. \A m \in CacheNames : Marks(m)
  BY DEF Marks, Clean
<1>3. \A q \in Prompts : t \notin MissedOn(q)
  BY DEF MissedOn
<1>4. /\ Lookups' /\ Outlived'
      /\ \A q \in Prompts : MissedOn(q)' = MissedOn(q)
      /\ \A u \in CacheTasks : u # t => lookup'[u] = lookup[u]
      /\ \A m \in CacheNames : Clean(m)' => Clean(m) /\ content[m].prompt \in Prompts
  <2>1. lookup' = [lookup EXCEPT ![t] = CacheIdle] /\ now' = now
    OBVIOUS
  <2>2. /\ Lookups' /\ Outlived'
        /\ \A q \in Prompts : MissedOn(q)' = MissedOn(q) \ {t}
        /\ \A u \in CacheTasks : u # t => lookup'[u] = lookup[u]
        /\ \A m \in CacheNames : Clean(m)' => Clean(m) /\ content[m].prompt \in Prompts
    <3> HIDE DEF CacheInv, HitUsed
    <3> QED BY <1>2, <2>1, LeaverKeeps
  <2>3. \A q \in Prompts : MissedOn(q)' = MissedOn(q)
    <3>1. \A q \in Prompts : MissedOn(q) \ {t} = MissedOn(q)
      BY <1>3
    <3> QED BY <2>2, <3>1
  <2> QED BY <2>2, <2>3
<1>5. Entries'
  BY DEF Entries
<1>6. Followed'
  BY <1>3, <1>4 DEF Followed, Held, Kept, ExpiresSoon
<1> QED BY <1>1, <1>2, <1>4, <1>5, <1>6, PairsKept

LEMMA CachePassesKeeps ==
  ASSUME CacheInv, Passes, UNCHANGED cache_vars
  PROVE  CacheInv'
<1> USE DEF CacheInv, Passes, cache_vars
<1>1. CacheTypeOK'
  BY DEF CacheTypeOK
<1>2. Lookups'
  <2>1. \A t \in CacheTasks : lookup[t].at <= now => lookup[t].at <= now + 1
    BY DEF CacheTypeOK
  <2> QED BY <2>1 DEF Lookups, HoldsNone, HoldsNew, HoldsHit
<1>3. Entries'
  BY DEF Entries
<1>4. \A n \in CacheNames : Clean(n)' => Clean(n)
  BY DEF Clean
<1>5. \A n \in CacheNames : ExpiresSoon(n) => ExpiresSoon(n)'
  <2>1. \A n \in CacheNames : now \in Nat /\ content[n].asked \in Nat
    BY DEF CacheTypeOK
  <2> QED BY <2>1 DEF ExpiresSoon
<1>6. Followed'
  BY <1>4, <1>5 DEF Followed, Held, Kept, MissedOn
<1>7. Outlived' /\ MintedTwiceOnlyWhenRaced'
  BY <1>4 DEF Outlived, MissedOn, MintedTwiceOnlyWhenRaced
<1> QED BY <1>1, <1>2, <1>3, <1>6, <1>7

LEMMA NextCache == CacheInv /\ [CacheNext]_<<now, cache_vars>> => CacheInv'
<1> SUFFICES ASSUME CacheInv, [CacheNext]_<<now, cache_vars>> PROVE CacheInv'
  OBVIOUS
<1>1. ASSUME NEW t \in CacheTasks, NEW k \in Prompts, CacheHit(t, k) \/ CacheMiss(t, k) PROVE CacheInv'
  BY <1>1, HitKeeps, MissKeeps
<1>2. ASSUME NEW t \in CacheTasks, NEW n \in CacheNames, VendorMints(t, n) PROVE CacheInv'
  BY <1>2, MintKeeps
<1>3. ASSUME NEW t \in CacheTasks, MintFails(t) \/ StoreName(t) \/ HitUsed(t) PROVE CacheInv'
  BY <1>3, FailKeeps, NameStoreKeeps, UsedKeeps
<1>4. CASE Passes /\ UNCHANGED cache_vars
  BY <1>4, CachePassesKeeps
<1>5. CASE UNCHANGED <<now, cache_vars>>
  BY <1>5 DEF CacheInv, cache_vars, CacheTypeOK, Lookups, HoldsNone, HoldsNew, HoldsHit, Entries,
     Followed, Held, Kept, ExpiresSoon, Outlived, Clean, MissedOn, MintedTwiceOnlyWhenRaced
<1> QED BY <1>1, <1>2, <1>3, <1>4, <1>5 DEF CacheNext

(* However many calls look up, mint, lose answers and store at once: a hit *)
(* names a live content of its own prompt, and only a race or a lost       *)
(* answer makes a prompt be paid for twice within its life                 *)
(* (get_or_create of GeminiCache).                                         *)
THEOREM CacheIsSound == CacheSpec => []CacheSound
<1>1. CacheInv => HitStillThere
  BY DEF CacheInv, Lookups, HoldsNone, HoldsNew, HoldsHit, CacheIdle, HitStillThere
<1>2. CacheInv => CacheSound
  BY <1>1 DEF CacheInv, CacheSound
<1> QED BY <1>2, InitCache, NextCache, PTL DEF CacheSpec
HIDE CacheAssumption

-------------------------------------------------------------------------------
(***************************************************************************)
(* KeyBroker: the executor and its sandboxes, for any number of threads,   *)
(* providers and sandboxes.                                                *)
(*                                                                         *)
(* The argument for OneBoxUnlessRaced: a running sandbox that has not      *)
(* raced is in the table or its maker is about to put it there             *)
(* (KnownBoxes); whoever makes or polls one has seen that no other runs    *)
(* but those that raced (Creating, Storing, Polling); and two who are at   *)
(* it at once know they have raced (Alone), so what they make is marked.   *)
(* The argument for ExecutedInTime: a thread holds a sandbox of its own    *)
(* provider, and a token whose end is at most CapabilityTtl away (Tasks).  *)
(***************************************************************************)
SoundTask(c) ==
  /\ c \in BrokerTask
  /\ c.pc \in {"lookup", "poll", "create", "store"} => c.scope \in BoxProviders
  /\ c.pc \in {"poll", "store", "exec", "running"} /\ c.scope \in BoxProviders =>
       c.box \in Boxes /\ box[c.box].provider = c.scope
  /\ c.scope \in SharedKinds => c.box = NoBox
  /\ c.exp # NoToken => c.exp >= CapabilityTtl /\ c.exp <= now + CapabilityTtl

Tasks == \A t \in BrokerTasks : task[t] = BrokerIdle \/ SoundTask(task[t])

BoxesHoldKeys ==
  /\ \A b \in Boxes : box[b].running => box[b].provider \in BoxProviders
  /\ \A p \in BoxProviders : sandboxes[p] # NoBox => box[sandboxes[p]].provider = p

Running(p) == {b \in Boxes : box[b].running /\ box[b].provider = p}

Alone ==
  \A p \in BoxProviders : \A t, u \in MakingBox(p) : t # u => t \in raced /\ u \in raced
Creating ==
  \A p \in BoxProviders : \A t \in BrokerTasks :
    task[t].pc = "create" /\ task[t].scope = p => Running(p) \subseteq raced
Polling ==
  \A p \in BoxProviders : \A t \in BrokerTasks :
    task[t].pc = "poll" /\ task[t].scope = p =>
      \A b \in Running(p) : b \in raced \/ b = task[t].box
Storing ==
  \A p \in BoxProviders : \A t \in BrokerTasks :
    task[t].pc = "store" /\ task[t].scope = p =>
      /\ \A b \in Running(p) : b \in raced \/ b = task[t].box
      /\ t \in raced => task[t].box \in raced
KnownBoxes ==
  \A p \in BoxProviders : \A b \in Running(p) :
    \/ b \in raced \/ b = sandboxes[p]
    \/ \E t \in BrokerTasks : task[t].pc = "store" /\ task[t].scope = p /\ task[t].box = b

BrokerInv ==
  /\ BrokerTypeOK /\ Tasks /\ BoxesHoldKeys
  /\ Alone /\ Creating /\ Polling /\ Storing /\ KnownBoxes
  /\ ExecutedInTime

USE BrokerAssumption

LEMMA InitBroker == ClockInit /\ BrokerInit => BrokerInv
<1> SUFFICES ASSUME ClockInit, BrokerInit PROVE BrokerInv
  OBVIOUS
<1> USE DEF ClockInit, BrokerInit
<1>1. BrokerTypeOK
  BY DEF BrokerTypeOK, Unmade
<1>2. Tasks /\ BoxesHoldKeys
  BY DEF Tasks, BoxesHoldKeys, Unmade
<1>3. \A t \in BrokerTasks : task[t] = BrokerIdle /\ task[t].pc = "idle"
  BY DEF BrokerIdle
<1>4. Alone /\ Creating /\ Polling /\ Storing
  BY <1>3 DEF Alone, Creating, Polling, Storing, MakingBox
<1>5. KnownBoxes
  BY DEF KnownBoxes, Running, Unmade
<1> QED BY <1>1, <1>2, <1>4, <1>5 DEF BrokerInv, ExecutedInTime

(* What is at hand when t is busy.                                         *)
LEMMA BusyTask ==
  ASSUME BrokerInv, NEW t \in BrokerTasks, task[t].pc # "idle"
  PROVE  task[t] # BrokerIdle /\ SoundTask(task[t]) /\ task[t] \in BrokerTask
BY DEF BrokerInv, Tasks, SoundTask, BrokerIdle

(* What a step that leaves the sandboxes alone keeps.                      *)
LEMMA SameBoxes ==
  ASSUME BrokerInv, UNCHANGED <<box, sandboxes>>
  PROVE  BoxesHoldKeys' /\ \A p : Running(p)' = Running(p)
BY DEF BrokerInv, BoxesHoldKeys, Running

LEMMA HandedKeeps ==
  ASSUME BrokerInv, NEW t \in BrokerTasks, NEW s \in Scopes, NEW exp \in Nat \union {NoToken},
         exp # NoToken => exp >= CapabilityTtl /\ exp <= now + CapabilityTtl,
         Handed(t, s, exp), now' = now
  PROVE  BrokerInv'
<1> USE DEF BrokerInv, Handed
<1>1. task'[t] = [pc |-> IF s \in BoxProviders THEN "lookup" ELSE "exec",
                  scope |-> s, exp |-> exp, box |-> NoBox]
      /\ \A u \in BrokerTasks : u # t => task'[u] = task[u]
  BY DEF BrokerTypeOK
<1>2. task'[t] \in BrokerTask
  BY <1>1 DEF BrokerTask
<1>3. BrokerTypeOK'
  BY <1>2 DEF BrokerTypeOK
<1>4. SoundTask(task[t])'
  BY <1>1, <1>2 DEF SoundTask, Scopes
<1>5. Tasks'
  BY <1>1, <1>4 DEF Tasks, SoundTask
<1>6. BoxesHoldKeys' /\ \A p : Running(p)' = Running(p)
  BY SameBoxes
<1>7. task'[t].pc \in {"lookup", "exec"}
  BY <1>1
<1>8. \A p \in BoxProviders : MakingBox(p)' = MakingBox(p)
  BY <1>1, <1>7 DEF MakingBox, BrokerIdle
<1>9. Alone'
  BY <1>8 DEF Alone
<1>10. Creating' /\ Polling' /\ Storing'
  BY <1>1, <1>6, <1>7 DEF Creating, Polling, Storing
<1>11. KnownBoxes'
  <2>1. task[t].pc = "idle"
    BY DEF BrokerIdle
  <2> QED BY <1>1, <1>6, <2>1 DEF KnownBoxes
<1> QED BY <1>3, <1>5, <1>6, <1>9, <1>10, <1>11 DEF ExecutedInTime
LEMMA LookUpKeeps ==
  ASSUME BrokerInv, NEW t \in BrokerTasks, LookUpBox(t), now' = now
  PROVE  BrokerInv'
<1>1. task[t].pc = "lookup" /\ SoundTask(task[t]) /\ task[t] \in BrokerTask
  BY BusyTask DEF LookUpBox
<1>2. PICK p \in BoxProviders : p = task[t].scope
  BY <1>1 DEF SoundTask
<1>3. PICK b \in Boxes \union {NoBox} : b = sandboxes[p]
  BY DEF BrokerInv, BrokerTypeOK
<1> DEFINE others == MakingBox(p)
           made == {task[u].box : u \in {u \in others : task[u].pc = "store"}}
           looked == [task[t] EXCEPT !.pc = IF b = NoBox THEN "create" ELSE "poll", !.box = b]
<1>4. b # NoBox => box[b].provider = p
  BY <1>3 DEF BrokerInv, BoxesHoldKeys
<1>5. /\ looked \in BrokerTask /\ looked.scope = p /\ looked.exp = task[t].exp /\ looked.box = b
      /\ b = NoBox => looked.pc = "create"
      /\ b # NoBox => looked.pc = "poll"
  BY <1>1, <1>2, <1>4 DEF BrokerTask
<1>6. task' = [task EXCEPT ![t] = looked]
  BY <1>2, <1>3 DEF LookUpBox, BrokerInv, BrokerTypeOK
<1> HIDE DEF looked
<1>7. task'[t] = looked /\ \A u \in BrokerTasks : u # t => task'[u] = task[u]
  BY <1>6 DEF BrokerInv, BrokerTypeOK
<1>8. raced' = IF others = {} THEN raced \ {t} ELSE raced \union {t} \union others \union made
  BY <1>2 DEF LookUpBox
<1>9. made \subseteq Boxes /\ others \subseteq BrokerTasks /\ t \notin others
  <2>1. ASSUME NEW u \in others, task[u].pc = "store" PROVE task[u].box \in Boxes
    BY <1>1, <2>1, BusyTask DEF MakingBox, SoundTask
  <2> QED BY <1>1, <2>1 DEF MakingBox
<1> HIDE DEF made, others
<1>10. /\ raced' \subseteq BrokerTasks \union Boxes
       /\ raced \intersect Boxes \subseteq raced'
       /\ \A u \in BrokerTasks : u # t /\ u \in raced => u \in raced'
       /\ \A u \in BrokerTasks : u # t /\ u \in raced' => u \in raced \/ u \in others
  BY <1>8, <1>9 DEF BrokerInv, BrokerTypeOK
<1>11. UNCHANGED <<sandboxes, box, calls_made, executed, now>>
  BY DEF LookUpBox
<1>12. BrokerTypeOK'
  BY <1>5, <1>6, <1>10, <1>11 DEF BrokerInv, BrokerTypeOK
<1>13. Tasks'
  <2>1. SoundTask(task[t])'
    BY <1>1, <1>4, <1>5, <1>7, <1>11, <1>2 DEF SoundTask
  <2> QED BY <1>7, <1>11, <2>1 DEF BrokerInv, Tasks, SoundTask
<1>14. BoxesHoldKeys' /\ \A q : Running(q)' = Running(q) /\ Running(q) \subseteq Boxes
  BY <1>11, SameBoxes DEF Running
<1>15. MakingBox(p)' = others \union {t} /\ \A q \in BoxProviders : q # p => MakingBox(q)' = MakingBox(q)
  <2>1. task'[t] # BrokerIdle /\ task'[t].scope = p /\ task'[t].pc \in {"create", "poll"}
    BY <1>5, <1>7 DEF BrokerIdle
  <2>2. \A u \in BrokerTasks : u \in MakingBox(p)' <=> u \in others \/ u = t
    BY <1>1, <1>7, <1>2, <2>1 DEF MakingBox, others
  <2>3. MakingBox(p)' = others \union {t}
    <3>1. MakingBox(p)' \subseteq BrokerTasks
      BY DEF MakingBox
    <3> QED BY <1>9, <2>2, <3>1
  <2>4. \A q \in BoxProviders : q # p => MakingBox(q)' = MakingBox(q)
    BY <1>1, <1>7, <1>2, <2>1 DEF MakingBox
  <2> QED BY <2>3, <2>4
<1>16. Alone'
  <2> SUFFICES ASSUME NEW q \in BoxProviders, NEW u \in MakingBox(q)', NEW v \in MakingBox(q)', u # v
               PROVE  u \in raced' /\ v \in raced'
    BY DEF Alone
  <2>1. CASE q = p
    <3>1. others # {}
      BY <1>15, <2>1
    <3> QED BY <1>8, <1>15, <2>1, <3>1
  <2>2. CASE q # p
    <3>1. u \in MakingBox(q) /\ v \in MakingBox(q) /\ u # t /\ v # t
      BY <1>1, <1>15, <2>2 DEF MakingBox
    <3>2. u \in raced /\ v \in raced
      BY <3>1 DEF BrokerInv, Alone
    <3> QED BY <1>10, <3>1, <3>2 DEF MakingBox
  <2> QED BY <2>1, <2>2
<1>17. \A c \in Running(p) : c \in raced' \/ c = b
  <2> SUFFICES ASSUME NEW c \in Running(p), c # b, c \notin raced PROVE c \in raced'
    BY <1>10, <1>14
  <2>1. PICK u \in BrokerTasks : task[u].pc = "store" /\ task[u].scope = p /\ task[u].box = c
    BY <1>3 DEF BrokerInv, KnownBoxes
  <2>2. u \in others /\ c \in made
    BY <2>1, BusyTask DEF others, made, MakingBox
  <2> QED BY <1>8, <2>2
<1>18. Creating'
  <2> SUFFICES ASSUME NEW q \in BoxProviders, NEW u \in BrokerTasks,
                      task'[u].pc = "create", task'[u].scope = q
               PROVE  Running(q) \subseteq raced'
    BY <1>14 DEF Creating
  <2>1. CASE u = t
    BY <1>5, <1>7, <1>17, <2>1, <1>14
  <2>2. CASE u # t
    BY <1>7, <1>10, <1>14, <2>2 DEF BrokerInv, Creating
  <2> QED BY <2>1, <2>2
<1>19. Polling'
  <2> SUFFICES ASSUME NEW q \in BoxProviders, NEW u \in BrokerTasks,
                      task'[u].pc = "poll", task'[u].scope = q, NEW c \in Running(q)
               PROVE  c \in raced' \/ c = task'[u].box
    BY <1>14 DEF Polling
  <2>1. CASE u = t
    BY <1>5, <1>7, <1>17, <2>1
  <2>2. CASE u # t
    BY <1>7, <1>10, <1>14, <2>2 DEF BrokerInv, Polling
  <2> QED BY <2>1, <2>2
<1>20. Storing'
  <2> SUFFICES ASSUME NEW q \in BoxProviders, NEW u \in BrokerTasks,
                      task'[u].pc = "store", task'[u].scope = q
               PROVE  /\ \A c \in Running(q) : c \in raced' \/ c = task'[u].box
                      /\ u \in raced' => task'[u].box \in raced'
    BY <1>14 DEF Storing
  <2>1. u # t /\ task'[u] = task[u]
    BY <1>5, <1>7
  <2>2. \A c \in Running(q) : c \in raced' \/ c = task'[u].box
    BY <1>10, <1>14, <2>1 DEF BrokerInv, Storing
  <2>3. ASSUME u \in others PROVE task[u].box \in raced'
    BY <1>8, <2>1, <2>3 DEF made
  <2>4. ASSUME u \in raced PROVE task[u].box \in raced'
    <3>1. task[u].box \in raced /\ task[u].box \in Boxes
      BY <2>1, <2>4, BusyTask DEF BrokerInv, Storing, SoundTask
    <3> QED BY <1>10, <3>1
  <2>5. ASSUME u \in raced' PROVE u \in raced \/ u \in others
    BY <1>10, <2>1, <2>5
  <2> QED BY <2>1, <2>2, <2>3, <2>4, <2>5
<1>21. KnownBoxes'
  <2> SUFFICES ASSUME NEW q \in BoxProviders, NEW c \in Running(q), c \notin raced', c # sandboxes[q]
               PROVE  \E u \in BrokerTasks : task'[u].pc = "store" /\ task'[u].scope = q
                                             /\ task'[u].box = c
    BY <1>11, <1>14 DEF KnownBoxes
  <2>1. PICK u \in BrokerTasks : task[u].pc = "store" /\ task[u].scope = q /\ task[u].box = c
    BY <1>10, <1>14 DEF BrokerInv, KnownBoxes
  <2> QED BY <1>1, <1>7, <2>1
<1> QED BY <1>11, <1>12, <1>13, <1>14, <1>16, <1>18, <1>19, <1>20, <1>21 DEF BrokerInv, ExecutedInTime


LEMMA PollKeeps ==
  ASSUME BrokerInv, NEW t \in BrokerTasks, PollBox(t), now' = now
  PROVE  BrokerInv'
<1>1. task[t].pc = "poll" /\ SoundTask(task[t]) /\ task[t] \in BrokerTask
  BY BusyTask DEF PollBox
<1>2. PICK p \in BoxProviders : p = task[t].scope
  BY <1>1 DEF SoundTask
<1>3. PICK b \in Boxes : b = task[t].box
  BY <1>1, <1>2 DEF SoundTask
<1>4. PICK pc \in {"exec", "create"} :
        /\ task' = [task EXCEPT ![t].pc = pc]
        /\ \/ raced' = raced /\ (pc = "create" => ~box[b].running)
           \/ raced' = raced \union {t, b}
  BY <1>3 DEF PollBox
<1> DEFINE polled == [task[t] EXCEPT !.pc = pc]
<1>5. /\ polled \in BrokerTask /\ polled.pc = pc /\ polled.scope = p /\ polled.box = b
      /\ polled.exp = task[t].exp
  BY <1>1, <1>2, <1>3, <1>4 DEF BrokerTask
<1>6. task' = [task EXCEPT ![t] = polled]
  BY <1>4 DEF BrokerInv, BrokerTypeOK
<1> HIDE DEF polled
<1>7. task'[t] = polled /\ \A u \in BrokerTasks : u # t => task'[u] = task[u]
  BY <1>6 DEF BrokerInv, BrokerTypeOK
<1>8. UNCHANGED <<sandboxes, box, calls_made, executed, now>>
  BY DEF PollBox
<1>9. /\ raced' \subseteq BrokerTasks \union Boxes /\ raced \subseteq raced'
      /\ \A u \in BrokerTasks : u # t => (u \in raced' <=> u \in raced)
  BY <1>3, <1>4 DEF BrokerInv, BrokerTypeOK
<1>10. BrokerTypeOK'
  BY <1>5, <1>6, <1>8, <1>9 DEF BrokerInv, BrokerTypeOK
<1>11. Tasks'
  <2>1. SoundTask(task[t])'
    BY <1>1, <1>2, <1>3, <1>4, <1>5, <1>7, <1>8 DEF SoundTask
  <2> QED BY <1>7, <1>8, <2>1 DEF BrokerInv, Tasks, SoundTask
<1>12. BoxesHoldKeys' /\ \A q : Running(q)' = Running(q) /\ Running(q) \subseteq Boxes
  BY <1>8, SameBoxes DEF Running
<1>13. \A q \in BoxProviders : MakingBox(q)' \subseteq MakingBox(q)
  <2>1. task[t] # BrokerIdle
    BY <1>1, BusyTask
  <2> QED BY <1>1, <1>2, <1>5, <1>7, <2>1 DEF MakingBox
<1>14. Alone'
  BY <1>9, <1>13 DEF BrokerInv, Alone
<1>15. Creating'
  <2> SUFFICES ASSUME NEW q \in BoxProviders, NEW u \in BrokerTasks,
                      task'[u].pc = "create", task'[u].scope = q, NEW c \in Running(q)
               PROVE  c \in raced'
    BY <1>12 DEF Creating
  <2>1. CASE u = t
    <3>1. q = p /\ pc = "create"
      BY <1>5, <1>7, <2>1
    <3>2. c \in raced \/ c = b
      BY <1>1, <1>2, <1>3, <3>1 DEF BrokerInv, Polling
    <3>3. c = b => b \in raced'
      BY <1>4, <3>1 DEF Running
    <3> QED BY <1>9, <3>2, <3>3
  <2>2. CASE u # t
    BY <1>7, <1>9, <2>2 DEF BrokerInv, Creating
  <2> QED BY <2>1, <2>2
<1>16. Polling'
  BY <1>4, <1>5, <1>7, <1>9, <1>12 DEF BrokerInv, Polling
<1>17. Storing'
  BY <1>4, <1>5, <1>7, <1>9, <1>12 DEF BrokerInv, Storing
<1>18. KnownBoxes'
  BY <1>1, <1>7, <1>8, <1>9, <1>12 DEF BrokerInv, KnownBoxes
<1> QED BY <1>8, <1>10, <1>11, <1>12, <1>14, <1>15, <1>16, <1>17, <1>18 DEF BrokerInv, ExecutedInTime

LEMMA CreateKeeps ==
  ASSUME BrokerInv, NEW t \in BrokerTasks, NEW b \in Boxes, CreateBox(t, b), now' = now
  PROVE  BrokerInv'
<1>1. task[t].pc = "create" /\ SoundTask(task[t]) /\ task[t] \in BrokerTask /\ task[t] # BrokerIdle
  BY BusyTask DEF CreateBox
<1>2. PICK p \in BoxProviders : p = task[t].scope
  BY <1>1 DEF SoundTask
<1> DEFINE made == [task[t] EXCEPT !.pc = "store", !.box = b]
<1>3. /\ made \in BrokerTask /\ made.pc = "store" /\ made.scope = p /\ made.box = b
      /\ made.exp = task[t].exp
  BY <1>1, <1>2 DEF BrokerTask
<1>4. task' = [task EXCEPT ![t] = made]
  BY DEF CreateBox, BrokerInv, BrokerTypeOK
<1> HIDE DEF made
<1>5. task'[t] = made /\ \A u \in BrokerTasks : u # t => task'[u] = task[u]
  BY <1>4 DEF BrokerInv, BrokerTypeOK
<1>6. /\ box' = [box EXCEPT ![b] = [provider |-> p, running |-> TRUE]] /\ box[b].provider = NoBox
      /\ UNCHANGED <<sandboxes, calls_made, executed, now>>
  BY <1>2 DEF CreateBox
<1>7. /\ raced \subseteq raced' /\ raced' \subseteq raced \union {b}
      /\ t \in raced => b \in raced'
      /\ \A u \in BrokerTasks : u \in raced' <=> u \in raced
  BY DEF CreateBox, BrokerInv, BrokerTypeOK
<1>8. box'[b] = [provider |-> p, running |-> TRUE] /\ \A c \in Boxes : c # b => box'[c] = box[c]
  BY <1>6 DEF BrokerInv, BrokerTypeOK
<1>9. BrokerTypeOK'
  <2>1. box' \in [Boxes -> [provider : BoxProviders \union {NoBox}, running : BOOLEAN]]
    BY <1>6 DEF BrokerInv, BrokerTypeOK
  <2>2. raced' \subseteq BrokerTasks \union Boxes
    BY <1>7 DEF BrokerInv, BrokerTypeOK
  <2> QED BY <1>3, <1>4, <1>6, <2>1, <2>2 DEF BrokerInv, BrokerTypeOK
<1>10. Tasks'
  <2>1. SoundTask(task[t])'
    BY <1>1, <1>2, <1>3, <1>5, <1>6, <1>8 DEF SoundTask
  <2>2. ASSUME NEW u \in BrokerTasks, u # t, SoundTask(task[u]) PROVE SoundTask(task[u])'
    <3>1. task[u].box = b => task[u].pc \notin {"poll", "store", "exec", "running"}
                             \/ task[u].scope \notin BoxProviders
      BY <1>6, <2>2 DEF SoundTask
    <3> QED BY <1>5, <1>6, <1>8, <2>2, <3>1 DEF SoundTask
  <2> QED BY <1>5, <2>1, <2>2 DEF BrokerInv, Tasks
<1>11. BoxesHoldKeys'
  <2>1. \A q \in BoxProviders : sandboxes[q] # NoBox => sandboxes[q] \in Boxes /\ sandboxes[q] # b
    BY <1>6 DEF BrokerInv, BoxesHoldKeys, BrokerTypeOK
  <2> QED BY <1>6, <1>8, <2>1 DEF BrokerInv, BoxesHoldKeys
<1>12. /\ \A q \in BoxProviders : q # p => Running(q)' = Running(q)
       /\ Running(p)' = Running(p) \union {b} /\ b \notin Running(p)
  BY <1>6, <1>8 DEF Running
<1>13. \A q \in BoxProviders : MakingBox(q)' \subseteq MakingBox(q)
  BY <1>1, <1>2, <1>3, <1>5 DEF MakingBox
<1>14. Alone'
  BY <1>7, <1>13 DEF BrokerInv, Alone, MakingBox
<1>15. ASSUME NEW u \in BrokerTasks, u # t, task[u].pc \in {"poll", "create", "store"},
              task[u].scope = p
       PROVE  b \in raced'
  <2>1. task[u] # BrokerIdle
    BY <1>15, BusyTask
  <2>2. t \in MakingBox(p) /\ u \in MakingBox(p)
    BY <1>1, <1>2, <1>15, <2>1 DEF MakingBox
  <2>3. t \in raced
    BY <1>15, <2>2 DEF BrokerInv, Alone
  <2> QED BY <1>7, <2>3
<1>16. Creating'
  <2> SUFFICES ASSUME NEW q \in BoxProviders, NEW u \in BrokerTasks,
                      task'[u].pc = "create", task'[u].scope = q, NEW c \in Running(q)'
               PROVE  c \in raced'
    BY DEF Creating
  <2>1. u # t /\ task'[u] = task[u]
    BY <1>3, <1>5
  <2>2. CASE q = p /\ c = b
    BY <1>15, <2>1, <2>2
  <2>3. CASE q # p \/ c # b
    BY <1>7, <1>12, <2>1, <2>3 DEF BrokerInv, Creating
  <2> QED BY <2>2, <2>3
<1>17. Polling'
  <2> SUFFICES ASSUME NEW q \in BoxProviders, NEW u \in BrokerTasks,
                      task'[u].pc = "poll", task'[u].scope = q, NEW c \in Running(q)'
               PROVE  c \in raced' \/ c = task'[u].box
    BY DEF Polling
  <2>1. u # t /\ task'[u] = task[u]
    BY <1>3, <1>5
  <2>2. CASE q = p /\ c = b
    BY <1>15, <2>1, <2>2
  <2>3. CASE q # p \/ c # b
    BY <1>7, <1>12, <2>1, <2>3 DEF BrokerInv, Polling
  <2> QED BY <2>2, <2>3
<1>18. Storing'
  <2> SUFFICES ASSUME NEW q \in BoxProviders, NEW u \in BrokerTasks,
                      task'[u].pc = "store", task'[u].scope = q
               PROVE  /\ \A c \in Running(q)' : c \in raced' \/ c = task'[u].box
                      /\ u \in raced' => task'[u].box \in raced'
    BY DEF Storing
  <2>1. CASE u = t
    <3>1. q = p /\ task'[u].box = b
      BY <1>3, <1>5, <2>1
    <3>2. Running(p) \subseteq raced
      BY <1>1, <1>2 DEF BrokerInv, Creating
    <3> QED BY <1>7, <1>12, <2>1, <3>1, <3>2
  <2>2. CASE u # t
    <3>1. task[u].pc = "store" /\ task[u].scope = q /\ task'[u] = task[u]
      BY <1>5, <2>2
    <3>2. ASSUME NEW c \in Running(q)' PROVE c \in raced' \/ c = task'[u].box
      <4>1. CASE q = p /\ c = b
        BY <1>15, <2>2, <3>1, <4>1
      <4>2. CASE q # p \/ c # b
        BY <1>7, <1>12, <3>1, <4>2 DEF BrokerInv, Storing
      <4> QED BY <4>1, <4>2
    <3> QED BY <1>7, <3>1, <3>2 DEF BrokerInv, Storing
  <2> QED BY <2>1, <2>2
<1>19. KnownBoxes'
  <2> SUFFICES ASSUME NEW q \in BoxProviders, NEW c \in Running(q)'
               PROVE  \/ c \in raced' \/ c = sandboxes[q]
                      \/ \E u \in BrokerTasks : /\ task'[u].pc = "store" /\ task'[u].scope = q
                                                /\ task'[u].box = c
    BY <1>6 DEF KnownBoxes
  <2>1. CASE q = p /\ c = b
    BY <1>3, <1>5, <2>1
  <2>2. CASE q # p \/ c # b
    BY <1>1, <1>5, <1>7, <1>12, <2>2 DEF BrokerInv, KnownBoxes
  <2> QED BY <2>1, <2>2
<1> QED BY <1>6, <1>9, <1>10, <1>11, <1>14, <1>16, <1>17, <1>18, <1>19 DEF BrokerInv, ExecutedInTime

LEMMA BoxStoreKeeps ==
  ASSUME BrokerInv, NEW t \in BrokerTasks, StoreBox(t), now' = now
  PROVE  BrokerInv'
<1>1. task[t].pc = "store" /\ SoundTask(task[t]) /\ task[t] \in BrokerTask
  BY BusyTask DEF StoreBox
<1>2. PICK p \in BoxProviders : p = task[t].scope
  BY <1>1 DEF SoundTask
<1>3. PICK b \in Boxes : b = task[t].box
  BY <1>1, <1>2 DEF SoundTask
<1> DEFINE stored == [task[t] EXCEPT !.pc = "exec"]
<1>4. /\ stored \in BrokerTask /\ stored.pc = "exec" /\ stored.scope = p /\ stored.box = b
      /\ stored.exp = task[t].exp
  BY <1>1, <1>2, <1>3 DEF BrokerTask
<1>5. task' = [task EXCEPT ![t] = stored]
  BY DEF StoreBox, BrokerInv, BrokerTypeOK
<1> HIDE DEF stored
<1>6. task'[t] = stored /\ \A u \in BrokerTasks : u # t => task'[u] = task[u]
  BY <1>5 DEF BrokerInv, BrokerTypeOK
<1>7. sandboxes' = [sandboxes EXCEPT ![p] = b] /\ UNCHANGED <<box, calls_made, raced, executed, now>>
  BY <1>2, <1>3 DEF StoreBox
<1>8. sandboxes'[p] = b /\ \A q \in BoxProviders : q # p => sandboxes'[q] = sandboxes[q]
  BY <1>7 DEF BrokerInv, BrokerTypeOK
<1>9. BrokerTypeOK'
  BY <1>4, <1>5, <1>7 DEF BrokerInv, BrokerTypeOK
<1>10. Tasks'
  <2>1. SoundTask(task[t])'
    BY <1>1, <1>2, <1>3, <1>4, <1>6, <1>7 DEF SoundTask
  <2> QED BY <1>6, <1>7, <2>1 DEF BrokerInv, Tasks, SoundTask
<1>11. BoxesHoldKeys'
  <2>1. box[b].provider = p
    BY <1>1, <1>2, <1>3 DEF SoundTask
  <2> QED BY <1>7, <1>8, <2>1 DEF BrokerInv, BoxesHoldKeys
<1>12. \A q : Running(q)' = Running(q)
  BY <1>7 DEF Running
<1>13. \A q \in BoxProviders : MakingBox(q)' \subseteq MakingBox(q)
  BY <1>4, <1>6 DEF MakingBox
<1>14. Alone'
  BY <1>7, <1>13 DEF BrokerInv, Alone
<1>15. Creating' /\ Polling' /\ Storing'
  BY <1>4, <1>6, <1>7, <1>12 DEF BrokerInv, Creating, Polling, Storing
<1>16. KnownBoxes'
  <2> SUFFICES ASSUME NEW q \in BoxProviders, NEW c \in Running(q), c \notin raced, c # sandboxes'[q]
               PROVE  \E u \in BrokerTasks : task'[u].pc = "store" /\ task'[u].scope = q
                                             /\ task'[u].box = c
    BY <1>7, <1>12 DEF KnownBoxes
  <2>1. q # p
    BY <1>1, <1>2, <1>3, <1>8 DEF BrokerInv, Storing
  <2> QED BY <1>2, <1>6, <1>8, <2>1 DEF BrokerInv, KnownBoxes
<1> QED BY <1>7, <1>9, <1>10, <1>11, <1>14, <1>15, <1>16 DEF BrokerInv, ExecutedInTime

(* A step of a thread that neither looks for a sandbox nor makes one.      *)
LEMMA AsideKeeps ==
  ASSUME BrokerInv, NEW t \in BrokerTasks, task[t].pc # "store", task'[t].pc \in {"idle", "running"},
         \A u \in BrokerTasks : u # t => task'[u] = task[u],
         UNCHANGED <<sandboxes, box, raced, now>>
  PROVE  /\ BoxesHoldKeys' /\ Alone' /\ Creating' /\ Polling' /\ Storing' /\ KnownBoxes'
         /\ \A u \in BrokerTasks : u # t => (SoundTask(task[u]) => SoundTask(task[u])')
<1>1. BoxesHoldKeys' /\ \A q : Running(q)' = Running(q)
  BY SameBoxes
<1>2. \A q \in BoxProviders : MakingBox(q)' \subseteq MakingBox(q)
  BY DEF MakingBox
<1>3. Alone' /\ Creating' /\ Polling' /\ Storing'
  BY <1>1, <1>2 DEF BrokerInv, Alone, Creating, Polling, Storing
<1>4. KnownBoxes'
  BY <1>1 DEF BrokerInv, KnownBoxes
<1> QED BY <1>1, <1>3, <1>4 DEF SoundTask

LEMMA LeaveKeeps ==
  ASSUME BrokerInv, NEW t \in BrokerTasks, CreateFails(t) \/ CallReturns(t), now' = now
  PROVE  BrokerInv'
<1>1. /\ task[t].pc # "store" /\ task' = [task EXCEPT ![t] = BrokerIdle]
      /\ UNCHANGED <<sandboxes, box, calls_made, raced, executed, now>>
  BY DEF CreateFails, CallReturns
<1>2. /\ task'[t].pc = "idle" /\ \A u \in BrokerTasks : u # t => task'[u] = task[u]
      /\ task' \in [BrokerTasks -> BrokerTask \union {BrokerIdle}]
  BY <1>1 DEF BrokerInv, BrokerTypeOK, BrokerIdle
<1>3. /\ BoxesHoldKeys' /\ Alone' /\ Creating' /\ Polling' /\ Storing' /\ KnownBoxes'
      /\ \A u \in BrokerTasks : u # t => (SoundTask(task[u]) => SoundTask(task[u])')
  BY <1>1, <1>2, AsideKeeps
<1>4. Tasks'
  BY <1>1, <1>2, <1>3 DEF BrokerInv, Tasks, BrokerTypeOK
<1> QED BY <1>1, <1>2, <1>3, <1>4 DEF BrokerInv, BrokerTypeOK, ExecutedInTime

LEMMA ExecKeeps ==
  ASSUME BrokerInv, NEW t \in BrokerTasks, ExecInBox(t), now' = now
  PROVE  BrokerInv'
<1> DEFINE starts == [task[t] EXCEPT !.pc = "running"]
           key == IF task[t].box = NoBox THEN task[t].scope ELSE box[task[t].box].provider
           done == [scope |-> task[t].scope, at |-> now,
                    minted |-> task[t].exp - CapabilityTtl, key |-> key]
<1>1. /\ task[t].pc = "exec" /\ SoundTask(task[t]) /\ task[t] \in BrokerTask
      /\ UNCHANGED <<sandboxes, box, calls_made, raced, now>>
  BY BusyTask DEF ExecInBox
<1>2. CASE task' = [task EXCEPT ![t] = BrokerIdle] /\ executed' = executed
  <2>1. /\ task'[t].pc = "idle" /\ \A u \in BrokerTasks : u # t => task'[u] = task[u]
        /\ task' \in [BrokerTasks -> BrokerTask \union {BrokerIdle}]
    BY <1>2 DEF BrokerInv, BrokerTypeOK, BrokerIdle
  <2>2. /\ BoxesHoldKeys' /\ Alone' /\ Creating' /\ Polling' /\ Storing' /\ KnownBoxes'
        /\ \A u \in BrokerTasks : u # t => (SoundTask(task[u]) => SoundTask(task[u])')
    BY <1>1, <1>2, <2>1, AsideKeeps
  <2>3. Tasks'
    BY <1>2, <2>1, <2>2 DEF BrokerInv, Tasks, BrokerTypeOK
  <2> QED BY <1>1, <1>2, <2>1, <2>2, <2>3 DEF BrokerInv, BrokerTypeOK, ExecutedInTime
<1>3. CASE /\ VerifyToken(task[t])
           /\ task' = [task EXCEPT ![t] = starts]
           /\ executed' = IF task[t].exp = NoToken THEN executed ELSE executed \union {done}
  <2>1. /\ starts \in BrokerTask /\ starts.pc = "running" /\ starts.scope = task[t].scope
        /\ starts.box = task[t].box /\ starts.exp = task[t].exp
    BY <1>1 DEF BrokerTask
  <2> HIDE DEF starts
  <2>2. /\ task'[t] = starts /\ \A u \in BrokerTasks : u # t => task'[u] = task[u]
        /\ task' \in [BrokerTasks -> BrokerTask \union {BrokerIdle}]
    BY <1>3, <2>1 DEF BrokerInv, BrokerTypeOK
  <2>3. /\ BoxesHoldKeys' /\ Alone' /\ Creating' /\ Polling' /\ Storing' /\ KnownBoxes'
        /\ \A u \in BrokerTasks : u # t => (SoundTask(task[u]) => SoundTask(task[u])')
    BY <1>1, <2>1, <2>2, AsideKeeps
  <2>4. Tasks'
    <3>1. SoundTask(task[t])'
      BY <1>1, <2>1, <2>2 DEF SoundTask
    <3> QED BY <2>2, <2>3, <3>1 DEF BrokerInv, Tasks
  <2>5. ASSUME task[t].exp # NoToken
        PROVE  /\ done \in [scope : Scopes, at : Nat, minted : Int, key : Scopes \union {NoBox}]
               /\ done.key = done.scope /\ done.at - done.minted \in 0..CapabilityTtl
    <3>1. task[t].exp \in Nat /\ now \in Nat /\ CapabilityTtl \in Nat /\ task[t].scope \in Scopes
      BY <1>1, <2>5 DEF BrokerTask, BrokerInv, BrokerTypeOK
    <3>2. task[t].exp - CapabilityTtl <= now /\ now <= task[t].exp
      BY <1>1, <1>3, <2>5, <3>1 DEF SoundTask, VerifyToken
    <3>3. key = task[t].scope
      BY <1>1, <3>1 DEF SoundTask, Scopes
    <3> HIDE DEF key
    <3> QED BY <3>1, <3>2, <3>3
  <2> HIDE DEF done
  <2>6. ExecutedInTime'
    BY <1>3, <2>5 DEF BrokerInv, ExecutedInTime
  <2>7. BrokerTypeOK'
    BY <1>1, <1>3, <2>2, <2>5 DEF BrokerInv, BrokerTypeOK
  <2> QED BY <2>3, <2>4, <2>6, <2>7 DEF BrokerInv
<1> QED BY <1>1, <1>2, <1>3 DEF ExecInBox, BrokerInv, BrokerTypeOK

LEMMA BoxEndsKeeps ==
  ASSUME BrokerInv, NEW b \in Boxes, BoxEnds(b), now' = now
  PROVE  BrokerInv'
<1> USE DEF BrokerInv, BoxEnds
<1>1. /\ \A c \in Boxes : box'[c].provider = box[c].provider /\ (box'[c].running => box[c].running)
      /\ UNCHANGED <<sandboxes, task, calls_made, raced, executed, now>>
  BY DEF BrokerTypeOK
<1>2. BrokerTypeOK'
  BY DEF BrokerTypeOK
<1>3. Tasks'
  BY <1>1 DEF Tasks, SoundTask
<1>4. BoxesHoldKeys'
  BY <1>1 DEF BoxesHoldKeys, BrokerTypeOK
<1>5. \A q : Running(q)' \subseteq Running(q)
  BY <1>1 DEF Running
<1>6. Alone'
  BY <1>1 DEF Alone, MakingBox
<1>7. Creating' /\ Polling' /\ Storing' /\ KnownBoxes'
  BY <1>1, <1>5 DEF Creating, Polling, Storing, KnownBoxes
<1> QED BY <1>1, <1>2, <1>3, <1>4, <1>6, <1>7 DEF ExecutedInTime

LEMMA BrokerPassesKeeps ==
  ASSUME BrokerInv, Passes, UNCHANGED broker_vars
  PROVE  BrokerInv'
<1> USE DEF BrokerInv, Passes, broker_vars
<1>1. BrokerTypeOK' /\ now' = now + 1 /\ now \in Nat
  BY DEF BrokerTypeOK
<1>2. Tasks'
  <2>1. \A t \in BrokerTasks : task[t] \in BrokerTask /\ task[t].exp # NoToken
          /\ task[t].exp <= now + CapabilityTtl => task[t].exp <= now' + CapabilityTtl
    BY <1>1 DEF BrokerTask
  <2> QED BY <2>1 DEF Tasks, SoundTask
<1>3. BoxesHoldKeys' /\ Alone' /\ Creating' /\ Polling' /\ Storing' /\ KnownBoxes'
  BY DEF BoxesHoldKeys, Alone, MakingBox, Creating, Polling, Storing, KnownBoxes, Running
<1> QED BY <1>1, <1>2, <1>3 DEF ExecutedInTime

LEMMA NextBroker == BrokerInv /\ [BrokerStep]_<<now, broker_vars>> => BrokerInv'
<1> SUFFICES ASSUME BrokerInv, [BrokerStep]_<<now, broker_vars>> PROVE BrokerInv'
  OBVIOUS
<1>1. ASSUME NEW t \in BrokerTasks, BrokerSteps(t), now' = now PROVE BrokerInv'
  BY <1>1, LookUpKeeps, PollKeeps, LeaveKeeps, BoxStoreKeeps, ExecKeeps, CreateKeeps DEF BrokerSteps
<1>2. ASSUME NEW t \in BrokerTasks, NEW s \in Scopes, MintToken(t, s), now' = now PROVE BrokerInv'
  <2>1. PICK exp \in Nat : exp = now + CapabilityTtl
    BY DEF BrokerInv, BrokerTypeOK
  <2>2. exp >= CapabilityTtl /\ exp <= now + CapabilityTtl /\ Handed(t, s, exp)
    BY <1>2, <2>1 DEF MintToken, BrokerInv, BrokerTypeOK
  <2> QED BY <1>2, <2>2, HandedKeeps
<1>3. ASSUME NEW t \in BrokerTasks, NEW p \in BoxProviders, AskEnabled(t, p), now' = now PROVE BrokerInv'
  <2>1. p \in Scopes /\ Handed(t, p, NoToken)
    BY <1>3 DEF AskEnabled, Scopes
  <2> QED BY <1>3, <2>1, HandedKeeps
<1>4. ASSUME NEW b \in Boxes, BoxEnds(b), now' = now PROVE BrokerInv'
  BY <1>4, BoxEndsKeeps
<1>5. CASE Passes /\ UNCHANGED broker_vars
  BY <1>5, BrokerPassesKeeps
<1>6. CASE UNCHANGED <<now, broker_vars>>
  BY <1>6 DEF BrokerInv, broker_vars, BrokerTypeOK, Tasks, SoundTask, BoxesHoldKeys, Alone, MakingBox,
     Creating, Polling, Storing, KnownBoxes, Running, ExecutedInTime
<1> QED BY <1>1, <1>2, <1>3, <1>4, <1>5, <1>6 DEF BrokerStep, BrokerNext

(* However many threads of the executor look for, poll, make and lose      *)
(* sandboxes at once: a provider has two running ones only after a race or *)
(* a failed poll, and each call is made with its provider's key within the *)
(* life of its token (_sandbox_for() and _exec() of broker.py, verify() of *)
(* capabilities.py).                                                       *)
THEOREM BrokerIsSound == BrokerSpec => []BrokerSound
<1>1. ASSUME BrokerInv PROVE OneBoxUnlessRaced
  <2> SUFFICES ASSUME NEW b \in Boxes, NEW c \in Boxes, b # c, box[b].running, box[c].running,
                      box[b].provider = box[c].provider, b \notin raced, c \notin raced
               PROVE  FALSE
    BY DEF OneBoxUnlessRaced
  <2>1. PICK p \in BoxProviders : p = box[b].provider
    BY <1>1 DEF BrokerInv, BoxesHoldKeys
  <2>2. b \in Running(p) /\ c \in Running(p)
    BY <2>1 DEF Running
  <2>3. \A t \in BrokerTasks : ~(task[t].pc = "store" /\ task[t].scope = p /\ task[t].box \in {b, c})
    BY <1>1, <2>2 DEF BrokerInv, Storing
  <2> QED BY <1>1, <2>2, <2>3 DEF BrokerInv, KnownBoxes
<1>2. BrokerInv => BrokerSound
  BY <1>1 DEF BrokerInv, BrokerSound
<1> QED BY <1>2, InitBroker, NextBroker, PTL DEF BrokerSpec
HIDE BrokerAssumption

-------------------------------------------------------------------------------
(***************************************************************************)
(* ProviderCall: one recorded attempt at one provider, for any requests    *)
(* and any vendors.                                                        *)
(*                                                                         *)
(* PostsBounded counts: a call of the client has posted as often as its    *)
(* rung says, and the calls before it no oftener than there are rungs      *)
(* (PostsSound).  FormFound needs to know what a rung tells of the body    *)
(* and of the responses before (OpenAIRung, GeminiRung): when the ladder   *)
(* has nothing left, the body under refusal is as plain as the family      *)
(* knows, or an earlier response has used the rung up.                     *)
(***************************************************************************)
NamedErrors == VendorProblems \union {"limited", "upstream", "timeout"}
VendorBodies == [reasoning : BOOLEAN, format : Formats, hint : BOOLEAN,
           inline : SUBSET SystemParts, cached : SUBSET SystemParts]

Rungs == CASE ask.family = "openai" -> IF ask.stream THEN 1 ELSE 4
           [] ask.family = "gemini" -> 2
           [] ask.family = "ollama" -> 1

VendorTypes ==
  /\ ask \in VendorAsks /\ vendor \in Vendors
  /\ stage \in {"begin", "cache", "posted", "pause", "failed", "answered", "invalid"}
  /\ turn \in {"first", "retry", "repair"}
  /\ body \in VendorBodies /\ rung \in 1..Rungs /\ refusals \in Seq(NamedErrors) /\ posts \in Nat

TextOnce(b) == b.inline \union b.cached = SystemParts /\ b.inline \cap b.cached = {}

(* Requests of the calls before this one.                                  *)
PostsBefore == IF turn = "first" THEN 0 ELSE IF turn = "retry" THEN Rungs ELSE 2 * Rungs

OfThisCall == IF stage \in {"begin", "cache"} THEN 0
              ELSE IF stage = "posted" THEN rung ELSE Rungs

PostsSound ==
  /\ posts <= PostsBefore + OfThisCall
  /\ ask.stream => turn = "first"
  /\ stage \in {"begin", "pause"} => turn = "first"
  /\ stage = "pause" => ~ask.stream

AllProblems == ToSet(refusals) \subseteq VendorProblems

(* What the rung tells of the body and of the responses before.            *)
OpenAIRung ==
  /\ body.cached = {} /\ (ask.stream => rung = 1)
  /\ rung <= 2 => body.format = ask.format
  /\ rung >= 3 => body.format = "object" /\ ask.format # "none"
  /\ rung = 4 => body.hint
  /\ rung = 2 => ~body.reasoning
  /\ rung >= 2 /\ body.reasoning => refusals[1] # "reasoning"
  /\ rung >= 3 /\ ask.format = "schema" => ~vendor.schema \/ ~AllProblems

GeminiRung ==
  /\ body.format = ask.format /\ ~body.hint
  /\ rung = 2 => ~body.reasoning /\ (body.cached # {} => refusals[1] # "cache")

RungSound ==
  /\ TextOnce(body) /\ (rung = 1 <=> refusals = << >>)
  /\ ask.family = "openai" => OpenAIRung
  /\ ask.family = "gemini" => GeminiRung

VendorInv ==
  /\ VendorTypes /\ PostsSound
  /\ stage = "cache" => body.inline = SystemParts /\ ask.family = "gemini" /\ rung = 1
  /\ stage \in {"cache", "posted"} => RungSound
  /\ FormFound

LEMMA AskTypes ==
  ASSUME VendorTypes
  PROVE  /\ ask.family \in {"openai", "gemini", "ollama"} /\ ask.reasoning \in BOOLEAN
         /\ ask.stream \in BOOLEAN /\ ask.format \in Formats
         /\ Rungs \in Nat /\ Rungs >= 1
<1>1. /\ ask.family \in {"openai", "gemini", "ollama"} /\ ask.reasoning \in BOOLEAN
      /\ ask.stream \in BOOLEAN /\ ask.format \in Formats
  BY VendorAssumption DEF VendorTypes
<1>2. Rungs \in Nat /\ Rungs >= 1
  BY <1>1 DEF Rungs
<1> QED BY <1>1, <1>2

LEMMA FirstBodyIs ==
  ASSUME ask \in VendorAsks, NEW t
  PROVE  /\ FirstBody(t) \in VendorBodies /\ FirstBody(t).format = ask.format /\ ~FirstBody(t).hint
         /\ FirstBody(t).inline = SystemParts /\ FirstBody(t).cached = {}
         /\ TextOnce(FirstBody(t))
<1>1. ask.reasoning \in BOOLEAN /\ ask.format \in Formats
  BY VendorAssumption
<1>2. (ask.reasoning /\ t # "repair" /\ ask.family # "ollama") \in BOOLEAN
  OBVIOUS
<1>3. FirstBody(t) \in VendorBodies
  BY <1>1, <1>2 DEF FirstBody, VendorBodies
<1>4. /\ FirstBody(t).format = ask.format /\ ~FirstBody(t).hint
      /\ FirstBody(t).inline = SystemParts /\ FirstBody(t).cached = {}
  BY DEF FirstBody
<1> QED BY <1>3, <1>4 DEF TextOnce

(* A call of the client begins, after what was asked before.               *)
LEMMA CallsKeep ==
  ASSUME VendorInv, NEW t \in {"first", "retry", "repair"}, ClientCalls(t), UNCHANGED <<ask, vendor>>,
         ask.stream => t = "first",
         posts <= IF t = "first" THEN 0 ELSE IF t = "retry" THEN Rungs ELSE 2 * Rungs
  PROVE  VendorInv'
<1>1. /\ turn' = t /\ rung' = 1 /\ refusals' = << >> /\ body' = FirstBody(t)
      /\ \/ stage' = "cache" /\ posts' = posts
         \/ stage' = "posted" /\ posts' = posts + 1
      /\ stage' = "cache" => ask.family = "gemini"
  BY DEF ClientCalls
<1>2. Rungs' = Rungs /\ Rungs \in Nat /\ Rungs >= 1 /\ posts \in Nat
  BY AskTypes DEF VendorInv, VendorTypes, Rungs
<1>3. ask \in VendorAsks
  BY DEF VendorInv, VendorTypes
<1>4. /\ body' \in VendorBodies /\ body'.format = ask.format /\ ~body'.hint /\ body'.inline = SystemParts
      /\ body'.cached = {} /\ TextOnce(body')
  BY <1>1, <1>3, FirstBodyIs
<1>5. VendorTypes'
  <2>1. refusals' \in Seq(NamedErrors)
    BY <1>1
  <2>2. rung' \in 1..Rungs' /\ posts' \in Nat
    BY <1>1, <1>2
  <2>3. stage' \in {"begin", "cache", "posted", "pause", "failed", "answered", "invalid"}
    BY <1>1
  <2> QED BY <1>1, <1>4, <2>1, <2>2, <2>3 DEF VendorInv, VendorTypes
<1>6. PostsSound'
  <2>1. PostsBefore' = IF t = "first" THEN 0 ELSE IF t = "retry" THEN Rungs ELSE 2 * Rungs
    BY <1>1, <1>2 DEF PostsBefore
  <2>2. \/ OfThisCall' = 0 /\ posts' = posts
        \/ OfThisCall' = 1 /\ posts' = posts + 1
    BY <1>1 DEF OfThisCall
  <2>3. posts' <= PostsBefore' + OfThisCall'
    <3>1. posts <= PostsBefore' /\ PostsBefore' \in Nat
      BY <1>2, <2>1
    <3> QED BY <1>2, <2>2, <3>1
  <2>4. stage' # "pause" /\ stage' # "begin"
    BY <1>1
  <2> QED BY <1>1, <2>3, <2>4 DEF PostsSound
<1>7. RungSound'
  <2>1. OpenAIRung'
    BY <1>1, <1>4 DEF OpenAIRung
  <2>2. GeminiRung'
    BY <1>1, <1>4 DEF GeminiRung
  <2> QED BY <1>1, <1>4, <2>1, <2>2 DEF RungSound
<1>8. FormFound'
  BY <1>1 DEF FormFound
<1> QED BY <1>1, <1>4, <1>5, <1>6, <1>7, <1>8 DEF VendorInv

LEMMA NamedOnce ==
  ASSUME refusals \in Seq(NamedErrors), NEW named \in NamedErrors, refusals' = Append(refusals, named)
  PROVE  /\ refusals' \in Seq(NamedErrors) /\ refusals' # << >>
         /\ refusals'[Len(refusals')] = named /\ Len(refusals') >= 1
         /\ refusals # << >> => refusals'[1] = refusals[1]
         /\ refusals = << >> => refusals'[1] = named
         /\ ToSet(refusals') = ToSet(refusals) \union {named}
         /\ Len(refusals') = 1 <=> refusals = << >>
<1>1. /\ refusals' \in Seq(NamedErrors) /\ Len(refusals') = Len(refusals) + 1 /\ Len(refusals) \in Nat
      /\ refusals'[Len(refusals) + 1] = named
      /\ \A i \in 1..Len(refusals) : refusals'[i] = refusals[i]
  OBVIOUS
<1>2. refusals = << >> <=> Len(refusals) = 0
  OBVIOUS
<1>3. refusals' # << >> /\ (Len(refusals') = 1 <=> refusals = << >>)
  BY <1>1, <1>2
<1>4. ToSet(refusals') = ToSet(refusals) \union {named}
  <2>1. DOMAIN refusals' = 1..(Len(refusals) + 1) /\ DOMAIN refusals = 1..Len(refusals)
    BY <1>1
  <2>2. 1..(Len(refusals) + 1) = 1..Len(refusals) \union {Len(refusals) + 1}
    BY <1>1
  <2> QED BY <1>1, <2>1, <2>2 DEF ToSet
<1> QED BY <1>1, <1>2, <1>3, <1>4

(* What the vendor named is in the body.                                   *)
LEMMA RefusedFor ==
  ASSUME NEW named \in NamedErrors, named \in Refused(body) \union {"limited", "upstream"}
  PROVE  /\ named \in VendorProblems => named \in Refused(body)
         /\ named = "reasoning" => body.reasoning
         /\ named = "schema" => body.format = "schema" /\ ~vendor.schema
         /\ named = "json" => body.format = "object" /\ (body.hint => vendor.object = "no")
         /\ named = "cache" => body.cached # {}
BY DEF Refused, VendorProblems, NamedErrors, HintWanted

(* A rung further down: the body is plainer, and complete.                 *)
LEMMA LadderKeeps ==
  ASSUME VendorInv, stage = "posted", NEW named \in NamedErrors,
         named \in Refused(body) \union {"limited", "upstream"},
         refusals' = Append(refusals, named), NEW step \in Ladder(named),
         body' = step.b, rung' = step.rung, UNCHANGED <<ask, vendor>>
  PROVE  /\ body' \in VendorBodies /\ rung' \in 1..Rungs /\ rung + 1 <= rung' /\ RungSound'
<1>1. /\ VendorTypes /\ RungSound /\ refusals \in Seq(NamedErrors) /\ body \in VendorBodies /\ rung \in 1..Rungs
      /\ rung \in Nat
  BY AskTypes DEF VendorInv, VendorTypes
<1>2. /\ refusals' # << >> /\ (refusals # << >> => refusals'[1] = refusals[1])
      /\ (refusals = << >> => refusals'[1] = named)
      /\ ToSet(refusals') = ToSet(refusals) \union {named}
  BY <1>1, NamedOnce
<1>3. ask.family \in {"openai", "gemini", "ollama"} /\ ask.stream \in BOOLEAN /\ Rungs' = Rungs
  BY <1>1, AskTypes DEF Rungs
<1>4. (rung = 1 <=> refusals = << >>) /\ TextOnce(body)
  BY <1>1 DEF RungSound
<1>5. AllProblems' => AllProblems /\ named \in VendorProblems
  BY <1>2 DEF AllProblems
<1>6. CASE ask.family = "openai"
  <2>1. OpenAIRung
    BY <1>1, <1>6 DEF RungSound
  <2>2. ~ask.stream /\ step \in OpenAILadder(named) /\ Rungs = 4
    BY <1>3, <1>6 DEF Ladder, Rungs
  <2>3. CASE rung = 1 /\ body.reasoning /\ named = "reasoning"
    <3>1. body' = [body EXCEPT !.reasoning = FALSE] /\ rung' = 2
      BY <2>2, <2>3 DEF OpenAILadder
    <3>2. /\ body' \in VendorBodies /\ ~body'.reasoning /\ body'.format = body.format
          /\ body'.cached = body.cached /\ body'.inline = body.inline
      BY <1>1, <3>1 DEF VendorBodies
    <3>3. OpenAIRung'
      BY <2>1, <2>2, <2>3, <3>1, <3>2 DEF OpenAIRung
    <3> QED BY <1>2, <1>4, <1>6, <2>2, <2>3, <3>1, <3>2, <3>3 DEF RungSound, TextOnce
  <2>4. CASE ~(rung = 1 /\ body.reasoning /\ named = "reasoning") /\ rung <= 2 /\ body.format = "schema"
    <3>1. body' = [body EXCEPT !.format = "object"] /\ rung' = 3
      BY <2>2, <2>4 DEF OpenAILadder
    <3>2. /\ body' \in VendorBodies /\ body'.reasoning = body.reasoning /\ body'.format = "object"
          /\ body'.cached = body.cached /\ body'.inline = body.inline
      BY <1>1, <3>1 DEF VendorBodies, Formats
    <3>3. body.reasoning => refusals'[1] # "reasoning"
      <4>1. CASE rung = 1
        BY <1>2, <1>4, <2>4, <4>1
      <4>2. CASE rung # 1
        <5>1. rung = 2
          BY <1>1, <2>4, <4>2
        <5> QED BY <2>1, <5>1 DEF OpenAIRung
      <4> QED BY <4>1, <4>2
    <3>4. ask.format = "schema" /\ ask.format # "none"
      BY <2>1, <2>4 DEF OpenAIRung
    <3>5. ~vendor.schema \/ ~AllProblems'
      <4>1. body.cached = {} /\ (rung = 2 => ~body.reasoning) /\ (rung = 1 \/ rung = 2)
        BY <1>1, <2>1, <2>4 DEF OpenAIRung
      <4>2. named # "cache" /\ named # "reasoning" /\ named # "json"
        BY <2>4, <4>1, RefusedFor
      <4>3. named = "schema" => ~vendor.schema
        BY RefusedFor
      <4> QED BY <1>5, <4>2, <4>3 DEF VendorProblems
    <3>6. OpenAIRung'
      BY <2>1, <2>2, <3>1, <3>2, <3>3, <3>4, <3>5 DEF OpenAIRung
    <3>7. TextOnce(body')
      BY <1>4, <3>2 DEF TextOnce
    <3> QED BY <1>2, <1>6, <2>2, <2>4, <3>1, <3>2, <3>6, <3>7, <1>1 DEF RungSound
  <2>5. CASE /\ ~(rung = 1 /\ body.reasoning /\ named = "reasoning") /\ ~(rung <= 2 /\ body.format = "schema")
             /\ rung <= 3 /\ body.format = "object" /\ named = "json"
    <3>1. body' = [body EXCEPT !.hint = TRUE] /\ rung' = 4
      BY <2>2, <2>5 DEF OpenAILadder
    <3>2. /\ body' \in VendorBodies /\ body'.reasoning = body.reasoning /\ body'.format = "object"
          /\ body'.hint /\ body'.cached = body.cached /\ body'.inline = body.inline
      BY <1>1, <2>5, <3>1 DEF VendorBodies, Formats
    <3>3. rung = 1 \/ rung = 2 \/ rung = 3
      BY <1>1, <2>5
    <3>4. body.reasoning => refusals'[1] # "reasoning"
      BY <1>2, <1>4, <2>1, <2>5, <3>3 DEF OpenAIRung
    <3>5. ask.format # "none"
      BY <2>1, <2>5, <3>3 DEF OpenAIRung
    <3>6. ask.format = "schema" => ~vendor.schema \/ ~AllProblems'
      BY <1>5, <2>1, <2>5, <3>3 DEF OpenAIRung
    <3>7. OpenAIRung'
      BY <2>1, <2>2, <3>1, <3>2, <3>4, <3>5, <3>6 DEF OpenAIRung
    <3>8. TextOnce(body')
      BY <1>4, <3>2 DEF TextOnce
    <3> QED BY <1>2, <1>6, <2>2, <3>1, <3>2, <3>3, <3>7, <3>8 DEF RungSound
  <2> QED BY <2>2, <2>3, <2>4, <2>5 DEF OpenAILadder
<1>7. CASE ask.family = "gemini"
  <2>1. GeminiRung
    BY <1>1, <1>7 DEF RungSound
  <2> DEFINE plain == [body EXCEPT !.reasoning = FALSE]
  <2>2. /\ rung = 1 /\ named \in VendorProblems /\ rung' = 2 /\ Rungs = 2
        /\ body' = IF named = "cache" /\ body.cached # {} THEN WithoutCache(plain) ELSE plain
    <3>1. step \in GeminiLadder(named) /\ Rungs = 2
      BY <1>7 DEF Ladder, Rungs
    <3>2. rung = 1 /\ named \in VendorProblems
      BY <3>1 DEF GeminiLadder
    <3>3. step = [b |-> IF named = "cache" /\ body.cached # {} THEN WithoutCache(plain) ELSE plain,
                  rung |-> 2]
      BY <3>1, <3>2 DEF GeminiLadder
    <3> HIDE DEF plain
    <3> QED BY <3>1, <3>2, <3>3
  <2>3. refusals'[1] = named
    BY <1>2, <1>4, <2>2
  <2>4. /\ plain \in VendorBodies /\ ~plain.reasoning /\ plain.format = body.format /\ plain.hint = body.hint
        /\ plain.inline = body.inline /\ plain.cached = body.cached
    BY <1>1 DEF VendorBodies
  <2> HIDE DEF plain
  <2>5. /\ WithoutCache(plain) \in VendorBodies /\ ~WithoutCache(plain).reasoning
        /\ WithoutCache(plain).format = plain.format /\ WithoutCache(plain).hint = plain.hint
        /\ WithoutCache(plain).inline = SystemParts /\ WithoutCache(plain).cached = {}
    BY <2>4 DEF WithoutCache, VendorBodies
  <2>6. /\ body' \in VendorBodies /\ ~body'.reasoning /\ body'.format = body.format /\ body'.hint = body.hint
        /\ TextOnce(body')
    BY <1>4, <2>2, <2>4, <2>5 DEF TextOnce
  <2>7. body'.cached # {} => refusals'[1] # "cache"
    <3>1. named = "cache" => body.cached # {}
      BY RefusedFor
    <3>2. named = "cache" => body'.cached = {}
      BY <2>2, <2>5, <3>1
    <3> QED BY <2>3, <3>2
  <2>8. GeminiRung'
    BY <2>1, <2>6, <2>7 DEF GeminiRung
  <2> QED BY <1>2, <1>7, <2>2, <2>6, <2>8 DEF RungSound
<1>8. CASE ask.family = "ollama"
  BY <1>8 DEF Ladder
<1> QED BY <1>3, <1>6, <1>7, <1>8

(* The last refusal: the ladder has nothing more to try.                   *)
LEMMA LadderEnds ==
  ASSUME VendorInv, stage = "posted", NEW named \in VendorProblems, named \in Refused(body),
         refusals' = Append(refusals, named), Ladder(named) = {}, UNCHANGED <<ask, vendor, body>>,
         ask.family # "ollama", ~(ask.family = "openai" /\ ask.stream)
  PROVE  \/ \A b \in Forms' : Refused(b)' # {}
         \/ named \in {"reasoning", "cache"} /\ refusals'[1] # named
         \/ ~AllProblems' /\ ask.format = "schema"
<1>1. /\ VendorTypes /\ RungSound /\ refusals \in Seq(NamedErrors) /\ body \in VendorBodies /\ rung \in 1..Rungs
      /\ rung \in Nat /\ named \in NamedErrors
  BY AskTypes DEF VendorInv, VendorTypes, NamedErrors
<1>2. /\ (refusals # << >> => refusals'[1] = refusals[1])
      /\ ToSet(refusals') = ToSet(refusals) \union {named}
  BY <1>1, NamedOnce
<1>3. /\ ask.family \in {"openai", "gemini"} /\ ask.stream \in BOOLEAN /\ ask.format \in Formats
      /\ rung = 1 <=> refusals = << >>
  BY <1>1, AskTypes DEF RungSound
<1>4. /\ named = "reasoning" => body.reasoning
      /\ named = "schema" => body.format = "schema" /\ ~vendor.schema
      /\ named = "json" => body.format = "object" /\ (body.hint => vendor.object = "no")
      /\ named = "cache" => body.cached # {}
      /\ named = "json" => vendor.object \in {"no"} \union HintWanted(body)
  BY <1>1, RefusedFor DEF Refused
<1>5. named \in {"reasoning", "schema", "json", "cache"}
  BY DEF VendorProblems
<1> DEFINE plain == [WithoutCache(body) EXCEPT !.reasoning = FALSE]
           asked == [plain EXCEPT !.format = ask.format]
           hinted == [plain EXCEPT !.format = "object", !.hint = TRUE]
<1>6. /\ asked.format = ask.format /\ asked.hint = body.hint
      /\ hinted.format = "object" /\ hinted.hint
  BY <1>1 DEF WithoutCache, VendorBodies
<1>7. /\ Forms' = {asked} \union IF ask.family = "openai" /\ ask.format # "none" THEN {hinted} ELSE {}
      /\ \A b : Refused(b)' = Refused(b)
  BY DEF Forms, WithoutCache, Refused, HintWanted
<1> HIDE DEF asked, hinted
<1>8. \A b : b.format = "schema" /\ ~vendor.schema => "schema" \in Refused(b)
  BY DEF Refused, VendorProblems
<1>9. \A b : b.format = "object" /\ vendor.object \in {"no"} \union HintWanted(b) => "json" \in Refused(b)
  BY DEF Refused, VendorProblems
<1>10. CASE ask.family = "openai"
  <2>1. OpenAIRung /\ ~ask.stream
    BY <1>1, <1>10 DEF RungSound
  <2>2. OpenAILadder(named) = {} /\ Rungs = 4
    BY <1>10, <2>1 DEF Ladder, Rungs
  <2>3. /\ ~(rung = 1 /\ body.reasoning /\ named = "reasoning")
        /\ ~(rung <= 2 /\ body.format = "schema")
        /\ ~(rung <= 3 /\ body.format = "object" /\ named = "json")
    BY <2>2 DEF OpenAILadder
  <2>4. rung = 1 \/ rung = 2 \/ rung = 3 \/ rung = 4
    BY <1>1, <2>2
  <2>5. CASE named = "reasoning"
    <3>1. body.reasoning /\ rung # 1 /\ rung # 2
      BY <1>4, <2>1, <2>3, <2>5 DEF OpenAIRung
    <3>2. rung >= 2
      BY <2>4, <3>1
    <3>3. refusals[1] # "reasoning"
      BY <2>1, <3>1, <3>2 DEF OpenAIRung
    <3> QED BY <1>2, <1>3, <2>5, <3>1, <3>3
  <2>6. CASE named = "schema"
    <3>1. body.format = "schema" /\ rung >= 3
      BY <1>4, <2>3, <2>4, <2>6
    <3> QED BY <2>1, <3>1 DEF OpenAIRung
  <2>7. CASE named = "json"
    <3>1. body.format = "object" /\ rung = 4
      BY <1>4, <2>3, <2>4, <2>7
    <3>2. body.hint /\ ask.format # "none"
      BY <2>1, <3>1 DEF OpenAIRung
    <3>3. vendor.object = "no"
      BY <1>4, <2>7, <3>2
    <3>4. "json" \in Refused(hinted)
      BY <1>6, <1>9, <3>3
    <3>5. CASE ask.format = "object"
      <4>1. "json" \in Refused(asked)
        BY <1>6, <1>9, <3>3, <3>5
      <4> QED BY <1>7, <3>4, <4>1
    <3>6. CASE ask.format = "schema"
      <4>1. ~vendor.schema \/ ~AllProblems
        BY <2>1, <3>1, <3>6 DEF OpenAIRung
      <4>2. CASE ~vendor.schema
        <5>1. "schema" \in Refused(asked)
          BY <1>6, <1>8, <3>6, <4>2
        <5> QED BY <1>7, <3>4, <5>1
      <4>3. CASE ~AllProblems
        BY <1>2, <3>6, <4>3 DEF AllProblems
      <4> QED BY <4>1, <4>2, <4>3
    <3> QED BY <1>3, <3>2, <3>5, <3>6 DEF Formats
  <2>8. CASE named = "cache"
    BY <1>4, <2>1, <2>8 DEF OpenAIRung
  <2> QED BY <1>5, <2>5, <2>6, <2>7, <2>8
<1>11. CASE ask.family = "gemini"
  <2>1. GeminiRung /\ Rungs = 2
    BY <1>1, <1>11 DEF RungSound, Rungs
  <2>2. rung # 1
    BY <1>11 DEF Ladder, GeminiLadder
  <2>3. rung = 2 /\ refusals # << >>
    BY <1>1, <1>3, <2>1, <2>2
  <2>4. /\ body.format = ask.format /\ ~body.hint /\ ~body.reasoning
        /\ body.cached # {} => refusals[1] # "cache"
    BY <2>1, <2>3 DEF GeminiRung
  <2>5. CASE named = "reasoning"
    BY <1>4, <2>4, <2>5
  <2>6. CASE named = "schema"
    <3>1. "schema" \in Refused(asked)
      BY <1>4, <1>6, <1>8, <2>4, <2>6
    <3> QED BY <1>7, <1>11, <3>1
  <2>7. CASE named = "json"
    <3>1. HintWanted(asked) = HintWanted(body)
      BY <1>6 DEF HintWanted
    <3>2. "json" \in Refused(asked)
      BY <1>4, <1>6, <1>9, <2>4, <2>7, <3>1
    <3> QED BY <1>7, <1>11, <3>2
  <2>8. CASE named = "cache"
    BY <1>2, <1>4, <2>3, <2>4, <2>8
  <2> QED BY <1>5, <2>5, <2>6, <2>7, <2>8
<1> QED BY <1>3, <1>10, <1>11

LEMMA RefusesKeeps ==
  ASSUME VendorInv, NEW named \in VendorProblems \union {"limited", "upstream"}, Refuses(named)
  PROVE  VendorInv'
<1>1. /\ stage = "posted" /\ named \in Refused(body) \union {"limited", "upstream"}
      /\ refusals' = Append(refusals, named) /\ UNCHANGED <<ask, vendor, turn>>
  BY DEF Refuses
<1>2. /\ VendorTypes /\ PostsSound /\ RungSound /\ refusals \in Seq(NamedErrors) /\ named \in NamedErrors
      /\ Rungs' = Rungs /\ Rungs \in Nat /\ Rungs >= 1 /\ posts \in Nat /\ rung \in Nat /\ rung <= Rungs
  <2>1. VendorTypes /\ PostsSound /\ RungSound
    BY <1>1 DEF VendorInv
  <2>2. refusals \in Seq(NamedErrors) /\ posts \in Nat /\ rung \in 1..Rungs
    BY <2>1 DEF VendorTypes
  <2>3. Rungs' = Rungs
    BY <1>1 DEF Rungs
  <2>4. Rungs \in Nat /\ Rungs >= 1
    BY <2>1, AskTypes
  <2>5. named \in NamedErrors
    BY DEF NamedErrors
  <2> QED BY <2>1, <2>2, <2>3, <2>4, <2>5
<1>3. refusals' \in Seq(NamedErrors) /\ refusals'[Len(refusals')] = named
  BY <1>1, <1>2, NamedOnce
<1>4. PostsBefore' = PostsBefore /\ PostsBefore \in Nat
  BY <1>1, <1>2 DEF PostsBefore
<1>5. posts <= PostsBefore + rung
  BY <1>1, <1>2 DEF PostsSound, OfThisCall
<1>6. CASE Ladder(named) # {}
  <2>1. PICK step \in Ladder(named) :
          body' = step.b /\ rung' = step.rung /\ posts' = posts + 1 /\ stage' = stage
    BY <1>6 DEF Refuses
  <2>2. body' \in VendorBodies /\ rung' \in 1..Rungs /\ rung + 1 <= rung' /\ RungSound'
    BY <1>1, <1>2, <2>1, LadderKeeps
  <2>3. VendorTypes'
    <3>1. posts' \in Nat /\ rung' \in 1..Rungs'
      BY <1>2, <2>1, <2>2
    <3> QED BY <1>1, <1>2, <1>3, <2>1, <2>2, <3>1 DEF VendorTypes
  <2>4. PostsSound'
    <3>1. posts' <= PostsBefore' + rung'
      BY <1>2, <1>4, <1>5, <2>1, <2>2
    <3>2. OfThisCall' = rung'
      BY <1>1, <2>1 DEF OfThisCall
    <3> QED BY <1>1, <1>2, <2>1, <3>1, <3>2 DEF PostsSound
  <2> QED BY <1>1, <2>1, <2>2, <2>3, <2>4 DEF VendorInv, FormFound
<1>7. CASE Ladder(named) = {}
  <2>1. /\ stage' = IF MayRetry(named) THEN "pause" ELSE "failed"
        /\ UNCHANGED <<body, rung, posts>>
    BY <1>7 DEF Refuses
  <2>2. VendorTypes'
    <3>1. stage' \in {"begin", "cache", "posted", "pause", "failed", "answered", "invalid"}
      BY <2>1
    <3> QED BY <1>1, <1>2, <1>3, <2>1, <3>1 DEF VendorTypes
  <2>3. PostsSound'
    <3>1. OfThisCall' = Rungs
      BY <1>2, <2>1 DEF OfThisCall
    <3>2. posts' <= PostsBefore' + OfThisCall'
      BY <1>2, <1>4, <1>5, <2>1, <3>1
    <3>3. stage' # "begin" /\ (stage' = "pause" => turn = "first" /\ ~ask.stream)
      BY <2>1 DEF MayRetry
    <3> QED BY <1>1, <1>2, <3>2, <3>3 DEF PostsSound
  <2>4. FormFound'
    <3> SUFFICES ASSUME named \in VendorProblems, ask.family # "ollama",
                        ~(ask.family = "openai" /\ ask.stream)
                 PROVE  \/ \A b \in Forms' : Refused(b)' # {}
                        \/ named \in {"reasoning", "cache"} /\ refusals'[1] # named
                        \/ ~AllProblems' /\ ask.format = "schema"
      BY <1>1, <1>3 DEF FormFound, AllProblems
    <3>1. named \in Refused(body)
      BY <1>1, <1>2, RefusedFor
    <3> QED BY <1>1, <1>7, <2>1, <3>1, LadderEnds
  <2>5. stage' # "cache" /\ stage' # "posted"
    BY <2>1
  <2> QED BY <2>2, <2>3, <2>4, <2>5 DEF VendorInv
<1> QED BY <1>6, <1>7

(* The call of the client ends without a named problem.                    *)
LEMMA EndsWell ==
  ASSUME VendorInv, stage = "posted", UNCHANGED <<ask, vendor, turn, body, rung, posts>>,
         refusals' \in Seq(NamedErrors),
         \/ stage' \in {"answered", "invalid"}
         \/ stage' \in {"failed", "pause"} /\ refusals'[Len(refusals')] = "timeout",
         stage' = "pause" => turn = "first" /\ ~ask.stream
  PROVE  VendorInv'
<1>1. /\ VendorTypes /\ PostsSound /\ Rungs' = Rungs /\ Rungs \in Nat /\ Rungs >= 1
      /\ posts \in Nat /\ rung \in Nat /\ rung <= Rungs
  <2>1. VendorTypes /\ PostsSound
    BY DEF VendorInv
  <2>2. posts \in Nat /\ rung \in 1..Rungs
    BY <2>1 DEF VendorTypes
  <2>3. Rungs' = Rungs
    BY DEF Rungs
  <2>4. Rungs \in Nat /\ Rungs >= 1
    BY <2>1, AskTypes
  <2> QED BY <2>1, <2>2, <2>3, <2>4
<1>2. stage' \notin {"begin", "cache", "posted"} /\ stage' \in {"pause", "failed", "answered", "invalid"}
  OBVIOUS
<1>3. VendorTypes'
  BY <1>1, <1>2 DEF VendorTypes
<1>4. PostsSound'
  <2>1. posts <= PostsBefore + rung
    BY <1>1 DEF PostsSound, OfThisCall
  <2>2. OfThisCall' = Rungs /\ PostsBefore' = PostsBefore /\ PostsBefore \in Nat
    BY <1>1, <1>2 DEF OfThisCall, PostsBefore
  <2>3. posts' <= PostsBefore' + OfThisCall'
    BY <1>1, <2>1, <2>2
  <2> QED BY <1>1, <2>3 DEF PostsSound
<1>5. FormFound'
  BY DEF FormFound, VendorProblems
<1> QED BY <1>2, <1>3, <1>4, <1>5 DEF VendorInv

LEMMA AcceptsKeeps == ASSUME VendorInv, Accepts PROVE VendorInv'
<1>1. stage = "posted" /\ UNCHANGED <<ask, vendor>>
  BY DEF Accepts
<1>2. /\ VendorTypes /\ PostsSound /\ Rungs \in Nat /\ Rungs >= 1
      /\ posts \in Nat /\ rung \in Nat /\ rung <= Rungs /\ refusals \in Seq(NamedErrors)
  BY AskTypes DEF VendorInv, VendorTypes
<1>3. CASE stage' \in {"answered", "invalid"} /\ UNCHANGED <<turn, body, rung, refusals, posts>>
  <2>1. stage' # "pause"
    BY <1>3
  <2> QED BY <1>1, <1>2, <1>3, <2>1, EndsWell
<1>4. CASE ~ask.stream /\ turn # "repair" /\ ClientCalls("repair")
  <2>1. posts <= PostsBefore + rung
    BY <1>1, <1>2 DEF PostsSound, OfThisCall
  <2>2. PostsBefore <= Rungs /\ PostsBefore \in Nat
    BY <1>2, <1>4 DEF PostsBefore, VendorTypes
  <2>3. posts <= 2 * Rungs
    BY <1>2, <2>1, <2>2
  <2>4. "repair" # "first" /\ "repair" # "retry"
    OBVIOUS
  <2> QED BY <1>1, <1>4, <2>3, <2>4, CallsKeep
<1> QED BY <1>3, <1>4 DEF Accepts

LEMMA CacheAnswersKeeps == ASSUME VendorInv, CacheAnswers PROVE VendorInv'
<1>1. /\ stage = "cache" /\ stage' = "posted" /\ posts' = posts + 1
      /\ UNCHANGED <<ask, vendor, turn, rung, refusals>>
  BY DEF CacheAnswers
<1>2. PICK parts \in SUBSET SystemParts : body' = WithCache(body, parts) \/ body' = body
  BY DEF CacheAnswers, SystemParts
<1>3. /\ VendorTypes /\ PostsSound /\ RungSound /\ body \in VendorBodies /\ Rungs' = Rungs
      /\ Rungs \in Nat /\ Rungs >= 1 /\ posts \in Nat /\ rung \in 1..Rungs /\ body.inline = SystemParts
      /\ ask.family = "gemini" /\ rung = 1
  <2>1. /\ VendorTypes /\ PostsSound /\ RungSound
        /\ body.inline = SystemParts /\ ask.family = "gemini" /\ rung = 1
    BY <1>1 DEF VendorInv
  <2>2. body \in VendorBodies /\ posts \in Nat /\ rung \in 1..Rungs
    BY <2>1 DEF VendorTypes
  <2>3. Rungs' = Rungs
    BY <1>1 DEF Rungs
  <2>4. Rungs \in Nat /\ Rungs >= 1
    BY <2>1, AskTypes
  <2> QED BY <2>1, <2>2, <2>3, <2>4
<1>4. /\ body' \in VendorBodies /\ body'.format = body.format /\ body'.hint = body.hint
      /\ body'.reasoning = body.reasoning /\ TextOnce(body')
  <2>1. CASE body' = body
    BY <1>3, <2>1 DEF RungSound
  <2>2. CASE body' = WithCache(body, parts)
    <3>1. /\ body' \in VendorBodies /\ body'.format = body.format /\ body'.hint = body.hint
          /\ body'.reasoning = body.reasoning
          /\ body'.cached = parts /\ body'.inline = SystemParts \ parts
      BY <1>3, <2>2 DEF WithCache, VendorBodies
    <3> QED BY <3>1 DEF TextOnce
  <2> QED BY <1>2, <2>1, <2>2
<1>5. VendorTypes'
  <2>1. posts' \in Nat /\ rung' \in 1..Rungs'
    BY <1>1, <1>3
  <2>2. stage' \in {"begin", "cache", "posted", "pause", "failed", "answered", "invalid"}
    BY <1>1
  <2> QED BY <1>1, <1>3, <1>4, <2>1, <2>2 DEF VendorTypes
<1>6. PostsSound'
  <2>1. posts <= PostsBefore + 0
    BY <1>1, <1>3 DEF PostsSound, OfThisCall
  <2>2. PostsBefore' = PostsBefore /\ PostsBefore \in Nat
    BY <1>1, <1>3 DEF PostsBefore
  <2>3. OfThisCall' = 1
    BY <1>1, <1>3 DEF OfThisCall
  <2>4. posts' <= PostsBefore' + OfThisCall'
    BY <1>1, <1>3, <2>1, <2>2, <2>3
  <2> QED BY <1>1, <1>3, <2>4 DEF PostsSound
<1>7. RungSound'
  <2>1. GeminiRung'
    BY <1>1, <1>3, <1>4 DEF GeminiRung, RungSound
  <2> QED BY <1>1, <1>3, <1>4, <2>1 DEF RungSound
<1>8. FormFound'
  BY <1>1 DEF FormFound
<1>9. stage' # "cache"
  BY <1>1
<1> QED BY <1>5, <1>6, <1>7, <1>8, <1>9 DEF VendorInv

LEMMA TimesOutKeeps == ASSUME VendorInv, TimesOut PROVE VendorInv'
<1>1. /\ stage = "posted" /\ refusals' = Append(refusals, "timeout")
      /\ UNCHANGED <<ask, vendor, turn, body, rung, posts>>
  BY DEF TimesOut
<1>2. stage' \in {"failed", "pause"} /\ (stage' = "pause" => turn = "first" /\ ~ask.stream)
  BY DEF TimesOut, MayRetry
<1>3. refusals \in Seq(NamedErrors) /\ "timeout" \in NamedErrors
  BY DEF VendorInv, VendorTypes, NamedErrors
<1>4. refusals' \in Seq(NamedErrors) /\ refusals'[Len(refusals')] = "timeout"
  BY <1>1, <1>3, NamedOnce
<1> QED BY <1>1, <1>2, <1>4, EndsWell

LEMMA VendorBeginKeeps == ASSUME VendorInv, VendorBegin PROVE VendorInv'
<1>1. stage = "begin" /\ ClientCalls("first") /\ UNCHANGED <<ask, vendor>>
  BY DEF VendorBegin
<1>2. PostsSound /\ turn = "first"
  BY <1>1 DEF VendorInv, PostsSound
<1>3. PostsBefore = 0 /\ OfThisCall = 0
  BY <1>1, <1>2 DEF PostsBefore, OfThisCall
<1>4. posts <= 0
  BY <1>2, <1>3 DEF PostsSound
<1> QED BY <1>1, <1>4, CallsKeep

LEMMA RetryCallsKeeps == ASSUME VendorInv, RetryCalls PROVE VendorInv'
<1>1. stage = "pause" /\ ClientCalls("retry") /\ UNCHANGED <<ask, vendor>>
  BY DEF RetryCalls
<1>2. PostsSound /\ Rungs \in Nat
  BY AskTypes DEF VendorInv
<1>3. turn = "first" /\ ~ask.stream /\ posts <= PostsBefore + OfThisCall
  BY <1>1, <1>2 DEF PostsSound
<1>4. PostsBefore = 0 /\ OfThisCall = Rungs
  BY <1>1, <1>3 DEF PostsBefore, OfThisCall
<1>5. posts <= Rungs
  BY <1>2, <1>3, <1>4
<1>6. "retry" # "first"
  OBVIOUS
<1> QED BY <1>1, <1>3, <1>5, <1>6, CallsKeep

LEMMA VendorInvInductive == ASSUME VendorInv, [VendorNext]_vendor_vars PROVE VendorInv'
<1>1. CASE VendorBegin
  BY <1>1, VendorBeginKeeps
<1>2. CASE CacheAnswers
  BY <1>2, CacheAnswersKeeps
<1>3. CASE TimesOut
  BY <1>3, TimesOutKeeps
<1>4. CASE RetryCalls
  BY <1>4, RetryCallsKeeps
<1>5. CASE Accepts
  BY <1>5, AcceptsKeeps
<1>6. ASSUME NEW named \in VendorProblems \union {"limited", "upstream"}, Refuses(named)
      PROVE  VendorInv'
  BY <1>6, RefusesKeeps
<1>7. CASE UNCHANGED vendor_vars
  <2>0. VendorTypes /\ PostsSound
    BY DEF VendorInv
  <2>1. VendorTypes' /\ PostsSound'
    <3>1. UNCHANGED <<ask, vendor, stage, turn, body, rung, refusals, posts>>
      BY <1>7 DEF vendor_vars
    <3>2. Rungs' = Rungs
      BY <3>1 DEF Rungs
    <3>3. PostsBefore' = PostsBefore /\ OfThisCall' = OfThisCall
      BY <3>1, <3>2 DEF PostsBefore, OfThisCall
    <3>4. VendorTypes'
      BY <2>0, <3>1, <3>2 DEF VendorTypes
    <3>5. PostsSound'
      BY <2>0, <3>1, <3>3 DEF PostsSound
    <3> QED BY <3>4, <3>5
  <2>2. (stage' \in {"cache", "posted"} => RungSound') /\ FormFound'
    BY <1>7 DEF vendor_vars, VendorInv, RungSound, TextOnce, OpenAIRung, GeminiRung, AllProblems,
                FormFound, Forms, WithoutCache, Refused, HintWanted
  <2> QED BY <1>7, <2>1, <2>2 DEF vendor_vars, VendorInv
<1> QED BY <1>1, <1>2, <1>3, <1>4, <1>5, <1>6, <1>7 DEF VendorNext

LEMMA VendorInvInit == VendorInit => VendorInv
<1> SUFFICES ASSUME VendorInit PROVE VendorInv
  OBVIOUS
<1>1. /\ ask \in VendorAsks /\ vendor \in Vendors /\ body = FirstBody("first")
      /\ turn = "first" /\ rung = 1 /\ stage = "begin" /\ posts = 0
  BY DEF VendorInit
<1>2. /\ ask.family \in {"openai", "gemini", "ollama"} /\ ask.stream \in BOOLEAN
  BY <1>1, VendorAssumption
<1>3. Rungs \in Nat /\ Rungs >= 1
  BY <1>2 DEF Rungs
<1>4. refusals \in Seq(NamedErrors)
  BY DEF VendorInit
<1>5. body \in VendorBodies
  BY <1>1, FirstBodyIs
<1>6. rung \in 1..Rungs
  BY <1>1, <1>3
<1>7. VendorTypes
  BY <1>1, <1>4, <1>5, <1>6 DEF VendorTypes
<1>8. PostsSound
  <2>1. PostsBefore = 0 /\ OfThisCall = 0
    BY <1>1 DEF PostsBefore, OfThisCall
  <2>2. posts <= PostsBefore + OfThisCall
    BY <1>1, <2>1
  <2> QED BY <1>1, <2>2 DEF PostsSound
<1> QED BY <1>1, <1>7, <1>8 DEF VendorInv, FormFound

(* Through prompt caches, the ladder of lesser requests, chat()'s retry    *)
(* after a transient error and the repair of an invalid answer: each       *)
(* request holds the system text exactly once, there are no more requests  *)
(* than the rungs allow, and a call fails for a refusal only where the     *)
(* clients of providers.py had no form left to offer.                      *)
THEOREM VendorCallsAreSound == VendorSpec => []VendorCallSound
<1>1. VendorInv => VendorCallSound
  <2> SUFFICES ASSUME VendorInv PROVE VendorCallSound
    OBVIOUS
  <2>1. SystemTextOnce
    BY DEF VendorInv, RungSound, TextOnce, SystemTextOnce
  <2>2. PostsBounded
    <3>1. PostsSound /\ VendorTypes
      BY DEF VendorInv
    <3>2. posts <= PostsBefore + OfThisCall /\ (ask.stream => turn = "first")
      BY <3>1 DEF PostsSound
    <3>3. Rungs \in Nat /\ Rungs >= 1 /\ rung \in 1..Rungs /\ posts \in Nat
      BY <3>1, AskTypes DEF VendorTypes
    <3>4. OfThisCall <= Rungs /\ OfThisCall \in Nat
      BY <3>3 DEF OfThisCall
    <3>5. PostsBefore \in Nat /\ PostsBefore <= 2 * Rungs /\ (ask.stream => PostsBefore = 0)
      BY <3>2, <3>3 DEF PostsBefore
    <3>6. posts <= IF ask.stream THEN Rungs ELSE 3 * Rungs
      BY <3>2, <3>3, <3>4, <3>5
    <3> QED BY <3>6 DEF PostsBounded, Rungs
  <2> QED BY <2>1, <2>2 DEF VendorInv, VendorCallSound
<1> QED BY <1>1, VendorInvInit, VendorInvInductive, PTL DEF VendorSpec

-------------------------------------------------------------------------------
(***************************************************************************)
(* KeyedCalls: the calls that a key broker makes for the three kinds of    *)
(* routes, wherever they are deployed.                                     *)
(*                                                                         *)
(* The error that comes back is the provider's as its side raised it, or   *)
(* the broker's own (CameBack); the rest is what each route makes of each  *)
(* class of error, a case by case argument.                                *)
(***************************************************************************)
Errors == KnownErrors \union OtherErrors \union {Stub}
BrokerError == [class |-> "other", status |-> 0, timeout |-> "no"]

(* What came back: the provider's error as its side raised it, or the      *)
(* broker's own.                                                           *)
CameBack(k, first, error) ==
  \/ first = NoError /\ error \in {NoError, BrokerError}
  \/ /\ first \in Errors /\ error = Raised(k, first)
     /\ first = Stub => k.what \in {"stt", "tts"}

KeyedInv ==
  /\ keyed.step \in {"provider", "back"} => keyed.k \in KeyedAsks
  /\ keyed.step = "back" => CameBack(keyed.k, keyed.first, keyed.error)
  /\ FailureTold

(* The three classes of errors.                                            *)
LEMMA ErrorKinds ==
  ASSUME NEW e \in Errors
  PROVE  /\ e # NoError /\ (e = Stub <=> e.class = "stub")
         /\ e.class \in {"known", "other", "stub"}
         /\ e.class = "other" => e.status = 0
         /\ e.timeout \in {"no", "name", "text"}
         /\ e.class = "stub" => e.status = 0 /\ e.timeout = "no"
<1>1. CASE e \in KnownErrors
  BY <1>1 DEF KnownErrors, Stub, NoError
<1>2. CASE e \in OtherErrors
  BY <1>2 DEF OtherErrors, Stub, NoError
<1>3. CASE e = Stub
  BY <1>3 DEF Stub, NoError
<1> QED BY <1>1, <1>2, <1>3 DEF Errors

(* What the client is told of an error: never success, and with a row.     *)
ToldOf(k, first, error, status, rows, backs_off) ==
  LET broker_failed == first = NoError /\ error # NoError IN
  /\ status = "200" <=> first = NoError /\ ~broker_failed
  /\ k.what = "chat" => rows = 1
  /\ k.what = "embed" => rows = 1 \/ broker_failed \/ (k.pinned /\ first.class = "other")
  /\ k.what = "chat" /\ (first.status \in {429, 500} \/ first.timeout = "text") =>
       backs_off \/ (deployed = "sandbox" /\ first.timeout = "no")
  /\ k.what = "stt" /\ k.pinned /\ first.class \in {"known", "stub"} => status = "400"
  /\ first = Stub => status \in {"400", "upstream's"} /\ error.status \in {0, 501}

LEMMA ToldIsFailureTold ==
  ASSUME NEW status, NEW rows, NEW backs_off, Told(status, rows, backs_off),
         ToldOf(keyed.k, keyed.first, keyed.error, status, rows, backs_off)
  PROVE  FailureTold'
<1>1. /\ keyed'.k = keyed.k /\ keyed'.first = keyed.first /\ keyed'.error = keyed.error
      /\ keyed'.status = status /\ keyed'.rows = rows /\ keyed'.backs_off = backs_off
      /\ deployed' = deployed
  BY DEF Told
<1> QED BY <1>1 DEF FailureTold, ToldOf

(* Whatever the route says of the broker's own error.                      *)
LEMMA BrokersErrorIsTold ==
  ASSUME keyed.k \in KeyedAsks, keyed.first = NoError, keyed.error = BrokerError,
         NEW status, NEW rows, NEW backs_off, Told(status, rows, backs_off),
         status # "200", keyed.k.what = "chat" => rows = 1
  PROVE  FailureTold'
<1>1. NoError # BrokerError /\ NoError.status = 0 /\ NoError.timeout = "no" /\ NoError.class = "none"
  BY DEF NoError, BrokerError
<1>2. NoError # Stub
  BY DEF NoError, Stub
<1>3. ToldOf(keyed.k, keyed.first, keyed.error, status, rows, backs_off)
  BY <1>1, <1>2 DEF ToldOf
<1> QED BY <1>3, ToldIsFailureTold

LEMMA SuccessIsTold ==
  ASSUME keyed.k \in KeyedAsks, keyed.first = NoError, keyed.error = NoError,
         Told("200", IF keyed.k.what \in {"chat", "embed"} THEN 1 ELSE 0, FALSE)
  PROVE  FailureTold'
<1>1. NoError.status = 0 /\ NoError.timeout = "no" /\ NoError.class = "none" /\ NoError # Stub
  BY DEF NoError, Stub
<1>2. ToldOf(keyed.k, keyed.first, keyed.error, "200",
             IF keyed.k.what \in {"chat", "embed"} THEN 1 ELSE 0, FALSE)
  BY <1>1 DEF ToldOf
<1> QED BY <1>2, ToldIsFailureTold

(* Chat: whether it backs off is judged by what crossed.                   *)
LEMMA ChatIsTold ==
  ASSUME keyed.k \in KeyedAsks, keyed.k.what = "chat", keyed.first \in Errors,
         keyed.error = Raised(keyed.k, keyed.first), keyed.first # Stub,
         ChatTold(Crossed(keyed.k, keyed.error))
  PROVE  FailureTold'
<1> DEFINE f == keyed.first
           e == Crossed(keyed.k, keyed.error)
<1>1. PICK status : status # "200" /\ Told(status, 1, BacksOff(e))
  <2>1. PICK final \in {FALSE, e.status \in {400, 401}} :
          Told(IF keyed.k.pinned \/ final THEN "502" ELSE "next", 1, BacksOff(e))
    BY DEF ChatTold
  <2>2. (IF keyed.k.pinned \/ final THEN "502" ELSE "next") # "200"
    OBVIOUS
  <2> QED BY <2>1, <2>2
<1>2. keyed.error = f
  BY DEF Raised
<1>3. f # NoError /\ f.timeout \in {"no", "name", "text"}
  BY ErrorKinds
<1>4. f.status \in {429, 500} \/ f.timeout = "text" =>
        BacksOff(e) \/ (deployed = "sandbox" /\ f.timeout = "no")
  <2>1. CASE deployed = "sandbox"
    <3>1. e = AsText(f)
      BY <1>2, <1>3, <2>1 DEF Crossed
    <3>2. f.timeout # "no" => e.timeout = "text"
      BY <3>1 DEF AsText
    <3> QED BY <2>1, <3>2 DEF BacksOff
  <2>2. CASE deployed # "sandbox"
    <3>1. e = f
      BY <1>2, <2>2 DEF Crossed
    <3>2. {429, 500} \subseteq {401, 403, 408, 429} \union 500..599
      OBVIOUS
    <3> QED BY <3>1, <3>2 DEF BacksOff
  <2> QED BY <2>1, <2>2
<1> HIDE DEF e
<1>5. ToldOf(keyed.k, keyed.first, keyed.error, status, 1, BacksOff(e))
  BY <1>1, <1>3, <1>4 DEF ToldOf
<1> QED BY <1>1, <1>5, ToldIsFailureTold

LEMMA EmbedIsTold ==
  ASSUME keyed.k \in KeyedAsks, keyed.k.what = "embed", keyed.first \in Errors,
         keyed.error = Raised(keyed.k, keyed.first), keyed.first # Stub,
         EmbedTold(Crossed(keyed.k, keyed.error))
  PROVE  FailureTold'
<1> DEFINE f == keyed.first
           e == keyed.error
<1>1. Crossed(keyed.k, e) = e
  BY DEF Crossed
<1>2. e = IF keyed.k.pinned THEN f ELSE Known(503)
  BY DEF Raised
<1>3. f # NoError
  BY ErrorKinds
<1>4. CASE e.class = "other"
  <2>1. Told("500", 0, FALSE)
    BY <1>1, <1>4 DEF EmbedTold
  <2>2. keyed.k.pinned /\ f.class = "other"
    BY <1>2, <1>4 DEF Known
  <2>3. ToldOf(keyed.k, keyed.first, keyed.error, "500", 0, FALSE)
    BY <1>3, <2>2 DEF ToldOf
  <2> QED BY <2>1, <2>3, ToldIsFailureTold
<1>5. CASE e.class # "other"
  <2> DEFINE status == CASE ~keyed.k.pinned -> "503"
                         [] keyed.k.pinned /\ e.status = 429 -> "429"
                         [] keyed.k.pinned /\ e.status = 400 -> "400"
                         [] keyed.k.pinned /\ e.status \notin {400, 429} -> "502"
  <2>1. Told(status, 1, FALSE)
    <3>1. EmbedTold(e)
      BY <1>1
    <3> HIDE DEF e
    <3> QED BY <1>5, <3>1 DEF EmbedTold
  <2>2. keyed.k.pinned \in BOOLEAN
    BY DEF KeyedAsks
  <2>3. status # "200"
    BY <2>2
  <2> HIDE DEF status
  <2>4. ToldOf(keyed.k, keyed.first, keyed.error, status, 1, FALSE)
    BY <1>3, <2>3 DEF ToldOf
  <2> QED BY <2>1, <2>4, ToldIsFailureTold
<1> QED BY <1>4, <1>5

LEMMA VoiceIsTold ==
  ASSUME keyed.k \in KeyedAsks, keyed.k.what \in {"stt", "tts"}, keyed.first \in Errors,
         keyed.error = Raised(keyed.k, keyed.first), VoiceTold(Crossed(keyed.k, keyed.error))
  PROVE  FailureTold'
<1> DEFINE f == keyed.first
           e == keyed.error
           status == CASE e.class = "other" -> "500"
                       [] e.class = "known" /\ keyed.k.what = "stt" /\ keyed.k.pinned -> "400"
                       [] e.class = "known" /\ ~(keyed.k.what = "stt" /\ keyed.k.pinned) ->
                            IF e.status = 0 THEN "502" ELSE "upstream's"
<1>1. Crossed(keyed.k, e) = e
  BY DEF Crossed
<1>2. Told(status, 0, FALSE)
  BY <1>1 DEF VoiceTold
<1>3. e = IF keyed.k.what = "stt" THEN SttError(keyed.k, f) ELSE TtsError(f)
  BY DEF Raised
<1>4. f # NoError /\ (f = Stub <=> f.class = "stub") /\ f.class \in {"known", "other", "stub"}
  BY ErrorKinds
<1>5. Known(0).class = "known" /\ Known(0).status = 0 /\ Known(501).class = "known" /\ Known(501).status = 501
  BY DEF Known
<1>6. /\ e.class \in {"known", "other"}
      /\ e.class = "other" => f.class = "other"
      /\ f = Stub => e.status = IF keyed.k.what = "stt" /\ keyed.k.pinned THEN 0 ELSE 501
  BY <1>3, <1>4, <1>5 DEF SttError, TtsError
<1> HIDE DEF e, f
<1>7. CASE e.class = "other"
  <2>1. status = "500"
    BY <1>7
  <2>2. ToldOf(keyed.k, f, e, status, 0, FALSE)
    BY <1>4, <1>6, <1>7, <2>1 DEF ToldOf
  <2> QED BY <1>2, <2>2, ToldIsFailureTold DEF e, f
<1>8. CASE e.class = "known" /\ keyed.k.what = "stt" /\ keyed.k.pinned
  <2>1. status = "400"
    BY <1>8
  <2>2. ToldOf(keyed.k, f, e, status, 0, FALSE)
    BY <1>4, <1>6, <1>8, <2>1 DEF ToldOf
  <2> QED BY <1>2, <2>2, ToldIsFailureTold DEF e, f
<1>9. CASE e.class = "known" /\ ~(keyed.k.what = "stt" /\ keyed.k.pinned)
  <2>1. status = IF e.status = 0 THEN "502" ELSE "upstream's"
    BY <1>9
  <2>2. ToldOf(keyed.k, f, e, status, 0, FALSE)
    BY <1>4, <1>6, <1>9, <2>1 DEF ToldOf
  <2> QED BY <1>2, <2>2, ToldIsFailureTold DEF e, f
<1> QED BY <1>6, <1>7, <1>8, <1>9

LEMMA RouteTellsKeeps == ASSUME KeyedInv, RouteTells PROVE KeyedInv'
<1> DEFINE e == Crossed(keyed.k, keyed.error)
<1>1. keyed.step = "back"
  BY DEF RouteTells
<1>2. keyed.k \in KeyedAsks /\ CameBack(keyed.k, keyed.first, keyed.error)
  BY <1>1 DEF KeyedInv
<1>3. /\ \/ e = NoError /\ Told("200", IF keyed.k.what \in {"chat", "embed"} THEN 1 ELSE 0, FALSE)
         \/ e # NoError /\ keyed.k.what = "chat" /\ ChatTold(e)
         \/ e # NoError /\ keyed.k.what = "embed" /\ EmbedTold(e)
         \/ e # NoError /\ keyed.k.what \in {"stt", "tts"} /\ VoiceTold(e)
  BY DEF RouteTells
<1>4. FailureTold'
  <2>1. CASE keyed.first = NoError /\ keyed.error = NoError
    <3>1. e = NoError
      BY <2>1 DEF Crossed
    <3> QED BY <1>2, <1>3, <2>1, <3>1, SuccessIsTold
  <2>2. CASE keyed.first = NoError /\ keyed.error = BrokerError
    <3>1. e = BrokerError /\ BrokerError # NoError /\ BrokerError.class = "other"
      BY <2>2 DEF Crossed, AsText, BrokerError, NoError
    <3>2. CASE keyed.k.what = "chat" /\ ChatTold(e)
      <4>1. PICK status : status # "200" /\ Told(status, 1, BacksOff(e))
        BY <3>2 DEF ChatTold
      <4> QED BY <1>2, <2>2, <4>1, BrokersErrorIsTold
    <3>3. CASE keyed.k.what = "embed" /\ EmbedTold(e)
      <4>1. Told("500", 0, FALSE) /\ "500" # "200" /\ keyed.k.what # "chat"
        BY <3>1, <3>3 DEF EmbedTold
      <4> QED BY <1>2, <2>2, <4>1, BrokersErrorIsTold
    <3>4. CASE keyed.k.what \in {"stt", "tts"} /\ VoiceTold(e)
      <4>1. Told("500", 0, FALSE) /\ "500" # "200" /\ keyed.k.what # "chat"
        BY <3>1, <3>4 DEF VoiceTold
      <4> QED BY <1>2, <2>2, <4>1, BrokersErrorIsTold
    <3> QED BY <1>3, <3>1, <3>2, <3>3, <3>4
  <2>3. CASE /\ keyed.first \in Errors /\ keyed.error = Raised(keyed.k, keyed.first)
             /\ keyed.first = Stub => keyed.k.what \in {"stt", "tts"}
    <3>1. keyed.first # NoError
      BY <2>3, ErrorKinds
    <3>2. e # NoError
      <4>1. keyed.error # NoError
        BY <1>2, <2>3, <3>1 DEF Raised, SttError, TtsError, Known, NoError, KeyedAsks
      <4>2. AsText(keyed.error) # NoError
        BY DEF AsText, NoError
      <4> QED BY <4>1, <4>2 DEF Crossed
    <3>3. "chat" \notin {"stt", "tts"} /\ "embed" \notin {"stt", "tts"}
      OBVIOUS
    <3> HIDE DEF e
    <3>4. CASE keyed.k.what = "chat" /\ ChatTold(e)
      BY <1>2, <2>3, <3>3, <3>4, ChatIsTold DEF e
    <3>5. CASE keyed.k.what = "embed" /\ EmbedTold(e)
      BY <1>2, <2>3, <3>3, <3>5, EmbedIsTold DEF e
    <3>6. CASE keyed.k.what \in {"stt", "tts"} /\ VoiceTold(e)
      BY <1>2, <2>3, <3>6, VoiceIsTold DEF e
    <3> QED BY <1>3, <3>2, <3>4, <3>5, <3>6
  <2> QED BY <1>2, <2>1, <2>2, <2>3 DEF CameBack
<1>5. keyed'.step = "told"
  BY <1>3 DEF ChatTold, EmbedTold, VoiceTold, Told
<1> QED BY <1>4, <1>5 DEF KeyedInv

LEMMA NextKeyed == KeyedInv /\ [KeyedNext]_keyed_vars => KeyedInv'
<1> SUFFICES ASSUME KeyedInv, [KeyedNext]_keyed_vars PROVE KeyedInv'
  OBVIOUS
<1>1. ASSUME NEW k \in KeyedAsks, KeyedBegins(k) PROVE KeyedInv'
  <2>1. keyed' = [step |-> "provider", k |-> k]
    BY <1>1 DEF KeyedBegins
  <2> QED BY <2>1 DEF KeyedInv, FailureTold
<1>2. ASSUME NEW e \in Errors \union {NoError}, ProviderEnds(e) PROVE KeyedInv'
  <2>1. /\ keyed.step = "provider"
        /\ e = Stub => keyed.k.what \in {"stt", "tts"}
        /\ keyed' = [step |-> "back", k |-> keyed.k, first |-> e,
                     error |-> IF e = NoError THEN e ELSE Raised(keyed.k, e)]
    BY <1>2 DEF ProviderEnds
  <2>2. /\ keyed'.step = "back" /\ keyed'.k = keyed.k /\ keyed'.first = e
        /\ keyed'.error = IF e = NoError THEN e ELSE Raised(keyed.k, e)
    BY <2>1
  <2>3. keyed.k \in KeyedAsks
    BY <2>1 DEF KeyedInv
  <2>4. CameBack(keyed'.k, keyed'.first, keyed'.error)
    BY <2>1, <2>2 DEF CameBack
  <2> QED BY <2>2, <2>3, <2>4 DEF KeyedInv, FailureTold
<1>3. CASE BrokerFails
  <2>1. /\ keyed.step = "provider"
        /\ keyed' = [step |-> "back", k |-> keyed.k, first |-> NoError, error |-> BrokerError]
    BY <1>3 DEF BrokerFails, BrokerError
  <2>2. /\ keyed'.step = "back" /\ keyed'.k = keyed.k /\ keyed'.first = NoError
        /\ keyed'.error = BrokerError
    BY <2>1
  <2>3. keyed.k \in KeyedAsks
    BY <2>1 DEF KeyedInv
  <2>4. CameBack(keyed'.k, keyed'.first, keyed'.error)
    BY <2>2 DEF CameBack
  <2> QED BY <2>2, <2>3, <2>4 DEF KeyedInv, FailureTold
<1>4. CASE KeyedReturns
  <2>1. keyed' = [step |-> "none"]
    BY <1>4 DEF KeyedReturns
  <2> QED BY <2>1 DEF KeyedInv, FailureTold
<1>5. CASE UNCHANGED keyed_vars
  BY <1>5 DEF keyed_vars, KeyedInv, FailureTold
<1> QED BY <1>1, <1>2, <1>3, <1>4, <1>5, RouteTellsKeeps DEF KeyedNext, Errors

(* However a call behind the broker ends, in its own process, in another   *)
(* one or in a sandbox: the caller is told of a success exactly when there *)
(* was one, the ledger has its row, and a provider that limits or fails    *)
(* backs off, but for the errors whose class the way back loses, which     *)
(* FailureTold names.                                                      *)
THEOREM FailuresAreTold == KeyedSpec => []FailureTold
<1>1. ASSUME KeyedInit PROVE KeyedInv
  <2>1. keyed.step = "none"
    BY <1>1 DEF KeyedInit
  <2> QED BY <2>1 DEF KeyedInv, FailureTold
<1>2. KeyedInv => FailureTold
  BY DEF KeyedInv
<1> QED BY <1>1, <1>2, NextKeyed, PTL DEF KeyedSpec

-------------------------------------------------------------------------------
(***************************************************************************)
(* ImageFetch: the images of a request, for any hosts, records, allowlist  *)
(* and bounds on images and redirects.                                     *)
(*                                                                         *)
(* The address of the hop under way was checked when it was resolved       *)
(* (TargetChecked), and no earlier connection was made for the same image  *)
(* and hop (HopsInOrder), whatever the records say by the time of the      *)
(* connection.                                                             *)
(***************************************************************************)
AllowedHost(host) == allowlist = {} \/ host \in allowlist

(* An address that a resolution without a blocked one gave.                *)
CheckedAddress(ip, resolved) == ip \in resolved \intersect Public /\ "blocked" \notin resolved

Resolving ==
  [step : {"resolve"}, left : 1..MaxImages, url : Urls, hop : 0..MaxRedirects]
Connecting ==
  [step : {"connect", "answer"}, left : 1..MaxImages, url : Urls, hop : 0..MaxRedirects,
   target : Addresses, resolved : SUBSET Addresses]
SettledRequest == [step : {"none", "refused", "goes on"}]

ConnectionsOf ==
  Seq([host : Hosts, ip : Addresses, resolved : SUBSET Addresses, image : 1..MaxImages,
       hop : 0..MaxRedirects])

ImagesTypes ==
  /\ dns \in [Hosts -> SUBSET Addresses] /\ allowlist \in SUBSET Hosts
  /\ images \in Resolving \union Connecting \union SettledRequest
  /\ connections \in ConnectionsOf
  /\ images.step = "none" => connections = << >>

(* Where a connection may go next has been checked.                        *)
TargetChecked ==
  images.step \in {"connect", "answer"} =>
    CheckedAddress(images.target, images.resolved) /\ AllowedHost(images.url.host)

(* Made before the hop under way, or, once it is connected, on it.         *)
EarlierHop(c) ==
  \/ c.image > images.left
  \/ c.image = images.left /\ c.hop < images.hop
  \/ c.image = images.left /\ c.hop = images.hop /\ images.step = "answer"

HopsInOrder ==
  images.step \in {"resolve", "connect", "answer"} =>
    \A i \in DOMAIN connections : EarlierHop(connections[i])

ImagesInv == ImagesTypes /\ TargetChecked /\ HopsInOrder /\ FetchOnlyValidated
USE ImageAssumption

LEMMA NoneConnected == << >> \in ConnectionsOf
BY DEF ConnectionsOf

LEMMA InitImages == ImagesInit => ImagesInv
<1> SUFFICES ASSUME ImagesInit PROVE ImagesInv
  OBVIOUS
<1> USE DEF ImagesInit, NoImages
<1>1. ImagesTypes
  <2>1. dns \in [Hosts -> SUBSET Addresses]
    BY DEF Addresses
  <2>2. images \in SettledRequest /\ images.step = "none"
    BY DEF SettledRequest
  <2> QED BY <2>1, <2>2, NoneConnected DEF ImagesTypes
<1>2. TargetChecked /\ HopsInOrder /\ FetchOnlyValidated
  BY DEF TargetChecked, HopsInOrder, FetchOnlyValidated
<1> QED BY <1>1, <1>2 DEF ImagesInv

(* The shape of a request by its step.                                     *)
LEMMA RequestShapes ==
  ASSUME ImagesTypes
  PROVE  /\ images.step = "resolve" => images \in Resolving
         /\ images.step \in {"connect", "answer"} => images \in Connecting
BY DEF ImagesTypes, Resolving, Connecting, SettledRequest

(* The next hop is resolved, once what was connected so far lies before.   *)
LEMMA HopKeeps ==
  ASSUME ImagesInv, NEW left \in 1..MaxImages, NEW url \in Urls, NEW hop \in 0..MaxRedirects,
         Hop(left, url, hop), UNCHANGED <<dns, allowlist, connections>>,
         \A i \in DOMAIN connections :
           \/ connections[i].image > left
           \/ connections[i].image = left /\ connections[i].hop < hop
  PROVE  ImagesInv'
<1>1. /\ images' = [step |-> "resolve", left |-> left, url |-> url, hop |-> hop]
      /\ images' \in Resolving /\ images'.step = "resolve"
  BY DEF Hop, Resolving
<1>2. ImagesTypes'
  BY <1>1 DEF ImagesInv, ImagesTypes
<1>3. HopsInOrder'
  BY <1>1 DEF HopsInOrder, EarlierHop
<1>4. TargetChecked' /\ FetchOnlyValidated'
  BY <1>1 DEF ImagesInv, TargetChecked, FetchOnlyValidated
<1> QED BY <1>2, <1>3, <1>4 DEF ImagesInv

(* The request ends, one way or another.                                   *)
LEMMA SettledKeeps ==
  ASSUME ImagesInv, images' \in SettledRequest, images'.step # "none",
         UNCHANGED <<dns, allowlist, connections>>
  PROVE  ImagesInv'
<1>1. images'.step \notin {"resolve", "connect", "answer"}
  BY DEF SettledRequest
<1>2. ImagesTypes'
  BY DEF ImagesInv, ImagesTypes
<1>3. TargetChecked' /\ HopsInOrder' /\ FetchOnlyValidated'
  BY <1>1 DEF ImagesInv, TargetChecked, HopsInOrder, FetchOnlyValidated
<1> QED BY <1>2, <1>3 DEF ImagesInv

LEMMA RefusedIsSettled ==
  Refused400 => images' \in SettledRequest /\ images'.step # "none"
BY DEF Refused400, SettledRequest

LEMMA ResolveKeeps == ASSUME ImagesInv, Resolve PROVE ImagesInv'
<1>1. images \in Resolving /\ images.step = "resolve"
  BY RequestShapes DEF Resolve, ImagesInv
<1>2. UNCHANGED <<dns, allowlist, connections>>
  BY DEF Resolve
<1>3. CASE Refused400
  BY <1>2, <1>3, RefusedIsSettled, SettledKeeps
<1>4. ASSUME NEW ip \in Validated(images.url),
             images' = [step |-> "connect", left |-> images.left, url |-> images.url,
                        hop |-> images.hop, target |-> ip, resolved |-> dns[images.url.host]]
      PROVE  ImagesInv'
  <2>1. images.url \in Urls /\ images.url.host \in Hosts
    BY <1>1 DEF Resolving, Urls
  <2>2. dns[images.url.host] \in SUBSET Addresses
    BY <2>1 DEF ImagesInv, ImagesTypes
  <2>3. CheckedAddress(ip, dns[images.url.host]) /\ AllowedHost(images.url.host)
    BY <2>2 DEF Validated, CheckedAddress, AllowedHost, Addresses, Public
  <2>4. images' \in Connecting /\ images'.step = "connect"
    BY <1>1, <1>4, <2>1, <2>2, <2>3 DEF Resolving, Connecting, CheckedAddress
  <2>5. ImagesTypes'
    BY <1>2, <2>4 DEF ImagesInv, ImagesTypes
  <2>6. TargetChecked'
    BY <1>2, <1>4, <2>3 DEF TargetChecked, CheckedAddress, AllowedHost
  <2>7. HopsInOrder'
    BY <1>1, <1>2, <1>4 DEF ImagesInv, HopsInOrder, EarlierHop
  <2>8. FetchOnlyValidated'
    BY <1>2 DEF ImagesInv, FetchOnlyValidated
  <2> QED BY <2>5, <2>6, <2>7, <2>8 DEF ImagesInv
<1> QED BY <1>3, <1>4 DEF Resolve

LEMMA ConnectKeeps == ASSUME ImagesInv, Connect PROVE ImagesInv'
<1>1. images \in Connecting /\ images.step = "connect"
  BY RequestShapes DEF Connect, ImagesInv
<1>2. CheckedAddress(images.target, images.resolved) /\ AllowedHost(images.url.host)
  BY <1>1 DEF ImagesInv, TargetChecked
<1> DEFINE c == [host |-> images.url.host, ip |-> images.target, resolved |-> images.resolved,
                 image |-> images.left, hop |-> images.hop]
<1>3. connections' = Append(connections, c) /\ UNCHANGED <<dns, allowlist>>
  BY DEF Connect, Pinned
<1>4. /\ images' \in Connecting /\ images'.step = "answer"
      /\ images'.left = images.left /\ images'.hop = images.hop
      /\ images'.target = images.target /\ images'.resolved = images.resolved
      /\ images'.url = images.url
  BY <1>1 DEF Connect, Connecting
<1>5. c \in [host : Hosts, ip : Addresses, resolved : SUBSET Addresses, image : 1..MaxImages,
             hop : 0..MaxRedirects]
  BY <1>1 DEF Connecting, Urls
<1>6. /\ c.ip = images.target /\ c.resolved = images.resolved /\ c.host = images.url.host
      /\ c.image = images.left /\ c.hop = images.hop
  OBVIOUS
<1> HIDE DEF c
<1>7. connections \in ConnectionsOf
  BY DEF ImagesInv, ImagesTypes
<1>8. /\ connections' \in ConnectionsOf
      /\ DOMAIN connections' = DOMAIN connections \union {Len(connections) + 1}
      /\ connections'[Len(connections) + 1] = c
      /\ \A i \in DOMAIN connections : connections'[i] = connections[i]
  BY <1>3, <1>5, <1>7 DEF ConnectionsOf
<1>9. \A i \in DOMAIN connections :
        /\ connections[i].image \in 1..MaxImages /\ connections[i].hop \in 0..MaxRedirects
        /\ \/ connections[i].image > images.left
           \/ connections[i].image = images.left /\ connections[i].hop < images.hop
  <2>1. HopsInOrder /\ FetchOnlyValidated
    BY DEF ImagesInv
  <2> QED BY <1>1, <2>1 DEF HopsInOrder, EarlierHop, FetchOnlyValidated
<1>10. images.left \in 1..MaxImages /\ images.hop \in 0..MaxRedirects
  BY <1>1 DEF Connecting
<1>11. ImagesTypes'
  BY <1>3, <1>4, <1>8 DEF ImagesInv, ImagesTypes
<1>12. TargetChecked'
  BY <1>2, <1>3, <1>4 DEF TargetChecked, CheckedAddress, AllowedHost
<1>13. HopsInOrder'
  BY <1>4, <1>6, <1>8, <1>9 DEF HopsInOrder, EarlierHop
<1>14. FetchOnlyValidated'
  <2>1. \A i \in DOMAIN connections :
          c.image # connections[i].image \/ c.hop # connections[i].hop
    BY <1>6, <1>9, <1>10
  <2>2. \A i, j \in DOMAIN connections' : i # j =>
          connections'[i].image # connections'[j].image \/ connections'[i].hop # connections'[j].hop
    BY <1>8, <2>1 DEF ImagesInv, FetchOnlyValidated
  <2>3. ASSUME NEW i \in DOMAIN connections'
        PROVE  /\ connections'[i].ip \in connections'[i].resolved \intersect Public
               /\ "blocked" \notin connections'[i].resolved
               /\ allowlist' = {} \/ connections'[i].host \in allowlist'
               /\ connections'[i].image \in 1..MaxImages
               /\ connections'[i].hop \in 0..MaxRedirects
    <3>1. CASE i \in DOMAIN connections
      BY <1>3, <1>8, <3>1 DEF ImagesInv, FetchOnlyValidated
    <3>2. CASE i = Len(connections) + 1
      BY <1>2, <1>3, <1>6, <1>8, <1>10, <3>2 DEF CheckedAddress, AllowedHost
    <3> QED BY <1>8, <3>1, <3>2
  <2> QED BY <2>2, <2>3 DEF FetchOnlyValidated
<1> QED BY <1>11, <1>12, <1>13, <1>14 DEF ImagesInv

(* What an answer leads to.                                                *)
LEMMA AnswerKeeps ==
  ASSUME ImagesInv, images.step = "answer",
         FetchFails \/ \E url \in Urls : Redirects(url) \/ ImageArrives(url)
  PROVE  ImagesInv'
<1>1. images \in Connecting
  BY RequestShapes DEF ImagesInv
<1>2. UNCHANGED <<dns, allowlist, connections>>
  BY DEF FetchFails, Redirects, ImageArrives
<1>3. images.left \in 1..MaxImages /\ images.hop \in 0..MaxRedirects
  BY <1>1 DEF Connecting
<1>4. \A i \in DOMAIN connections :
        /\ connections[i].image \in 1..MaxImages /\ connections[i].hop \in 0..MaxRedirects
        /\ \/ connections[i].image > images.left
           \/ connections[i].image = images.left /\ connections[i].hop <= images.hop
  <2>1. HopsInOrder /\ FetchOnlyValidated
    BY DEF ImagesInv
  <2> QED BY <1>3, <2>1 DEF HopsInOrder, EarlierHop, FetchOnlyValidated
<1>5. CASE Refused400
  BY <1>2, <1>5, RefusedIsSettled, SettledKeeps
<1>6. ASSUME NEW url \in Urls, images.hop # MaxRedirects, Hop(images.left, url, images.hop + 1)
      PROVE  ImagesInv'
  <2>1. images.hop + 1 \in 0..MaxRedirects
    BY <1>3, <1>6
  <2>2. \A i \in DOMAIN connections :
           \/ connections[i].image > images.left
           \/ connections[i].image = images.left /\ connections[i].hop < images.hop + 1
    BY <1>3, <1>4
  <2> QED BY <1>2, <1>3, <1>6, <2>1, <2>2, HopKeeps
<1>7. ASSUME NEW url \in Urls, images.left > 1, Hop(images.left - 1, url, 0)
      PROVE  ImagesInv'
  <2>1. images.left - 1 \in 1..MaxImages /\ 0 \in 0..MaxRedirects
    BY <1>3, <1>7
  <2>2. \A i \in DOMAIN connections : connections[i].image > images.left - 1
    BY <1>3, <1>4
  <2> QED BY <1>2, <1>7, <2>1, <2>2, HopKeeps
<1>8. CASE images' = [step |-> "goes on"]
  <2>1. images' \in SettledRequest /\ images'.step # "none"
    BY <1>8 DEF SettledRequest
  <2> QED BY <1>2, <2>1, SettledKeeps
<1> QED BY <1>5, <1>6, <1>7, <1>8 DEF FetchFails, Redirects, ImageArrives

LEMMA NextImages == ImagesInv /\ [ImagesNext]_image_vars => ImagesInv'
<1> SUFFICES ASSUME ImagesInv, [ImagesNext]_image_vars PROVE ImagesInv'
  OBVIOUS
<1>1. ASSUME NEW h \in Hosts, NEW addresses \in SUBSET Addresses, DnsChanges(h, addresses)
      PROVE  ImagesInv'
  <2>1. UNCHANGED <<allowlist, images, connections>> /\ dns' = [dns EXCEPT ![h] = addresses]
    BY <1>1 DEF DnsChanges
  <2>2. ImagesTypes'
    BY <2>1 DEF ImagesInv, ImagesTypes
  <2>3. TargetChecked' /\ HopsInOrder' /\ FetchOnlyValidated'
    BY <2>1 DEF ImagesInv, TargetChecked, CheckedAddress, AllowedHost, HopsInOrder, EarlierHop, FetchOnlyValidated
  <2> QED BY <2>2, <2>3 DEF ImagesInv
<1>2. ASSUME NEW n \in 1..MaxImages, NEW url \in Urls, RequestComes(n, url) PROVE ImagesInv'
  <2>1. connections = << >> /\ UNCHANGED <<dns, allowlist, connections>> /\ Hop(n, url, 0)
    BY <1>2 DEF RequestComes, NoImages, ImagesInv, ImagesTypes
  <2> QED BY <2>1, HopKeeps
<1>3. CASE Resolve
  BY <1>3, ResolveKeeps
<1>4. CASE Connect
  BY <1>4, ConnectKeeps
<1>5. CASE FetchFails \/ \E url \in Urls : Redirects(url) \/ ImageArrives(url)
  <2>1. images.step = "answer"
    BY <1>5 DEF FetchFails, Redirects, ImageArrives
  <2> QED BY <1>5, <2>1, AnswerKeeps
<1>6. CASE RequestLeaves
  <2>1. /\ images' = NoImages /\ images' \in SettledRequest /\ connections' = << >>
        /\ connections' \in ConnectionsOf /\ UNCHANGED <<dns, allowlist>>
    BY <1>6, NoneConnected DEF RequestLeaves, NoImages, SettledRequest
  <2>2. ImagesTypes'
    BY <2>1 DEF ImagesInv, ImagesTypes
  <2>3. TargetChecked' /\ HopsInOrder' /\ FetchOnlyValidated'
    BY <2>1 DEF NoImages, TargetChecked, HopsInOrder, FetchOnlyValidated
  <2> QED BY <2>2, <2>3 DEF ImagesInv
<1>7. CASE UNCHANGED image_vars
  BY <1>7 DEF image_vars, ImagesInv, ImagesTypes, TargetChecked, CheckedAddress, AllowedHost, HopsInOrder, EarlierHop,
     FetchOnlyValidated
<1> QED BY <1>1, <1>2, <1>3, <1>4, <1>5, <1>6, <1>7 DEF ImagesNext

(* Each connection that is made for an image goes to an address that the   *)
(* resolution of an allowed host gave at that hop, public as all that came *)
(* with it; and no image and hop is connected twice, whatever the records  *)
(* and the servers do (ssrf.py).                                           *)
THEOREM ImagesAreFetchedSafely == ImagesSpec => []FetchOnlyValidated
<1>1. ImagesInv => FetchOnlyValidated
  BY DEF ImagesInv
<1> QED BY <1>1, InitImages, NextImages, PTL DEF ImagesSpec
HIDE ImageAssumption

-------------------------------------------------------------------------------
(***************************************************************************)
(* VolumeCommit: the periodic commit of the ledger's volume, for any       *)
(* interval and any times of writes, failures and evictions.               *)
(*                                                                         *)
(* A write that is not committed is younger than the last commit, which    *)
(* the loop made CommitInterval before the next at most, or not younger    *)
(* than a commit that failed (Pending).                                    *)
(***************************************************************************)
VolumeTypes ==
  /\ now \in Nat /\ wake \in Nat /\ committed \in Nat /\ failed \in Int
  /\ serving \in BOOLEAN /\ wrote \in Seq(Nat)

(* A write that is not committed is younger than the commit before the     *)
(* next one, or not younger than a commit that failed; and without a       *)
(* container there is none.                                                *)
Pending(i) == wake <= wrote[i] + CommitInterval \/ failed >= wrote[i]

VolumeInv ==
  /\ VolumeTypes
  /\ committed <= Len(wrote) /\ (~serving => committed = Len(wrote))
  /\ serving => now <= wake /\ wake <= now + CommitInterval
  /\ serving => \A i \in 1..Len(wrote) : i > committed => Pending(i)
  /\ \A i \in 1..Len(wrote) : wrote[i] <= now

LossAct ==
  \A i \in 1..Len(wrote) :
    i > Len(wrote') => now - wrote[i] <= CommitInterval \/ failed' >= wrote[i]

LEMMA Committed ==
  ASSUME VolumeInv
  PROVE  /\ SubSeq(wrote, 1, committed) \in Seq(Nat) /\ Len(SubSeq(wrote, 1, committed)) = committed
         /\ \A i \in 1..committed : SubSeq(wrote, 1, committed)[i] = wrote[i]
BY DEF VolumeInv, VolumeTypes

LEMMA NextVolume == VolumeInv /\ [VolumeNext]_<<now, volume_vars>> => VolumeInv' /\ (wrote' # wrote => LossAct)
<1> SUFFICES ASSUME VolumeInv, [VolumeNext]_<<now, volume_vars>>
             PROVE  VolumeInv' /\ (wrote' # wrote => LossAct)
  OBVIOUS
<1> USE CommitAssumption
<1>1. CASE Serve
  BY <1>1 DEF Serve, VolumeInv, VolumeTypes, Pending
<1>2. CASE StoreWrites
  <2>1. /\ wrote' \in Seq(Nat) /\ Len(wrote') = Len(wrote) + 1 /\ wrote'[Len(wrote')] = now
        /\ \A i \in 1..Len(wrote) : wrote'[i] = wrote[i]
    BY <1>2 DEF StoreWrites, VolumeInv, VolumeTypes
  <2>2. \A i \in 1..Len(wrote') : i \in 1..Len(wrote) \/ i = Len(wrote')
    BY <2>1 DEF VolumeInv, VolumeTypes
  <2>3. \A i \in 1..Len(wrote') : wrote'[i] <= now
    <3>1. now <= now /\ \A i \in 1..Len(wrote) : wrote[i] <= now
      BY DEF VolumeInv, VolumeTypes
    <3> QED BY <2>1, <2>2, <3>1
  <2>4. serving /\ UNCHANGED <<now, serving, committed, wake, failed>>
    BY <1>2 DEF StoreWrites
  <2>5. \A i \in 1..Len(wrote') : i > committed => Pending(i)'
    BY <2>1, <2>2, <2>4 DEF VolumeInv, VolumeTypes, Pending
  <2>6. LossAct
    BY <2>1 DEF LossAct, VolumeInv, VolumeTypes
  <2> QED BY <2>1, <2>3, <2>4, <2>5, <2>6 DEF VolumeInv, VolumeTypes
<1>3. CASE LoopCommits
  <2>1. serving /\ now = wake /\ UNCHANGED <<now, serving, wrote>> /\ wake' = now + CommitInterval
    BY <1>3 DEF LoopCommits, LoopAfterFailure, VolumeInv, VolumeTypes
  <2>2. \/ committed' = Len(wrote) /\ failed' = failed
        \/ failed' = now /\ committed' = committed
    BY <1>3 DEF LoopCommits
  <2>3. VolumeTypes'
    BY <2>1, <2>2 DEF VolumeInv, VolumeTypes
  <2>4. \A i \in 1..Len(wrote) : i > committed' => Pending(i)'
    BY <2>1, <2>2 DEF VolumeInv, VolumeTypes, Pending
  <2> QED BY <2>1, <2>2, <2>3, <2>4 DEF VolumeInv, VolumeTypes
<1>4. ASSUME GracefulStop \/ Evict PROVE VolumeInv' /\ LossAct
  <2>1. /\ serving /\ serving' = FALSE /\ UNCHANGED <<now, wake>>
        /\ \/ committed' = Len(wrote) /\ UNCHANGED <<wrote, failed>>
           \/ failed' \in {failed, now} /\ wrote' = SubSeq(wrote, 1, committed) /\ committed' = committed
    BY <1>4 DEF GracefulStop, Evict
  <2>2. CASE committed' = Len(wrote) /\ UNCHANGED <<wrote, failed>>
    <3>1. Len(wrote) \in Nat /\ committed' \in Nat
      BY <2>2 DEF VolumeInv, VolumeTypes
    <3>2. VolumeTypes'
      BY <2>1, <2>2, <3>1 DEF VolumeInv, VolumeTypes
    <3>3. VolumeInv'
      BY <2>1, <2>2, <3>1, <3>2 DEF VolumeInv
    <3>4. LossAct
      BY <2>2, <3>1 DEF LossAct
    <3> QED BY <3>3, <3>4
  <2>3. CASE failed' \in {failed, now} /\ wrote' = SubSeq(wrote, 1, committed) /\ committed' = committed
    <3>1. /\ wrote' \in Seq(Nat) /\ Len(wrote') = committed
          /\ \A i \in 1..committed : wrote'[i] = wrote[i]
      BY <2>3, Committed
    <3>2. failed' \in Int /\ \A i \in 1..Len(wrote) : failed >= wrote[i] => failed' >= wrote[i]
      BY <2>3 DEF VolumeInv, VolumeTypes
    <3>3. VolumeInv'
      <4>1. VolumeTypes'
        BY <2>1, <2>3, <3>1, <3>2 DEF VolumeInv, VolumeTypes
      <4>2. committed \in Nat /\ committed <= Len(wrote) /\ \A i \in 1..Len(wrote) : wrote[i] <= now
        BY DEF VolumeInv, VolumeTypes
      <4>3. \A i \in 1..Len(wrote') : i \in 1..Len(wrote) /\ wrote'[i] = wrote[i]
        BY <3>1, <4>2 DEF VolumeInv, VolumeTypes
      <4> QED BY <2>1, <2>3, <3>1, <4>1, <4>2, <4>3 DEF VolumeInv
    <3>4. \A i \in 1..Len(wrote) : wrote[i] \in Nat
      BY DEF VolumeInv, VolumeTypes
    <3>5. LossAct
      BY <2>1, <3>1, <3>2, <3>4 DEF VolumeInv, VolumeTypes, LossAct, Pending
    <3> QED BY <3>3, <3>5
  <2> QED BY <2>1, <2>2, <2>3
<1>5. CASE VolumeTick
  BY <1>5 DEF VolumeTick, Passes, volume_vars, VolumeInv, VolumeTypes, Pending
<1>6. CASE UNCHANGED <<now, volume_vars>>
  BY <1>6 DEF volume_vars, VolumeInv, VolumeTypes, Pending
<1> QED BY <1>1, <1>2, <1>3, <1>4, <1>5, <1>6 DEF VolumeNext

(* When a container ends, it takes only writes of the last CommitInterval  *)
(* seconds with it, or such as the last commit that failed had left: the   *)
(* commit loop of modal_app.py bounds the loss, also after a failed        *)
(* commit.                                                                 *)
THEOREM LossIsBounded == VolumeSpec => LossBounded
<1>1. ClockInit /\ VolumeInit => VolumeInv
  <2> SUFFICES ASSUME ClockInit, VolumeInit PROVE VolumeInv
    OBVIOUS
  <2>1. wrote \in Seq(Nat) /\ Len(wrote) = 0
    BY DEF VolumeInit
  <2>2. -1 \in Int
    OBVIOUS
  <2>3. VolumeTypes
    BY <2>1, <2>2 DEF ClockInit, VolumeInit, VolumeTypes
  <2>4. serving = FALSE /\ committed = 0
    BY DEF VolumeInit
  <2> QED BY <2>1, <2>3, <2>4 DEF VolumeInv
<1>2. VolumeInv /\ [VolumeNext]_<<now, volume_vars>> =>
        [\A i \in 1..Len(wrote) :
           i > Len(wrote') => now - wrote[i] <= CommitInterval \/ failed' >= wrote[i]]_wrote
  BY NextVolume DEF LossAct
<1>3. VolumeInv /\ [VolumeNext]_<<now, volume_vars>> => VolumeInv'
  BY NextVolume
<1> QED BY <1>1, <1>2, <1>3, PTL DEF VolumeSpec, LossBounded

-------------------------------------------------------------------------------
(***************************************************************************)
(* The window of a minute, which the rings of embedders and of routers     *)
(* share: gc() changes nothing about how many times are not before a       *)
(* moment, if that is not before the cutoff.                               *)
(***************************************************************************)
Young(times, c) == {i \in 1..Len(times) : times[i] >= c}

LEMMA YoungFinite ==
  ASSUME NEW s \in Seq(Int), NEW c \in Int
  PROVE  IsFiniteSet(Young(s, c)) /\ Cardinality(Young(s, c)) \in Nat
         /\ Cardinality(Young(s, c)) <= Len(s)
<1>1. Len(s) \in Nat /\ Young(s, c) \subseteq 1..Len(s)
  BY DEF Young
<1>2. IsFiniteSet(1..Len(s)) /\ Cardinality(1..Len(s)) = Len(s)
  <2>1. ASSUME NEW n \in Nat PROVE IsFiniteSet(1..n) /\ Cardinality(1..n) = n
    <3>1. Cardinality(1..n) = IF 1 > n THEN 0 ELSE n - 1 + 1
      BY FS_Interval
    <3> QED BY <3>1, FS_Interval
  <2> QED BY <2>1, <1>1
<1> QED BY <1>1, <1>2, FS_Subset, FS_CardinalityType

(* gc() drops the first few, which are before the cutoff.                  *)
LEMMA Swept ==
  ASSUME NEW s \in Seq(Int), NEW cut \in Int
  PROVE  /\ NotBefore(s, cut) \in Seq(Int)
         /\ \E d \in 0..Len(s) :
              /\ Len(NotBefore(s, cut)) = Len(s) - d
              /\ \A i \in 1..(Len(s) - d) : NotBefore(s, cut)[i] = s[i + d]
              /\ \A i \in 1..d : s[i] < cut
<1> DEFINE young == {i \in 1..Len(s) : s[i] >= cut}
           first == CHOOSE i \in young : \A j \in young : i <= j
<1>1. Len(s) \in Nat /\ \A i \in 1..Len(s) : s[i] \in Int
  OBVIOUS
<1>2. CASE young = {}
  <2>1. NotBefore(s, cut) = << >>
    BY <1>2 DEF NotBefore
  <2>2. \A i \in 1..Len(s) : s[i] < cut
    BY <1>1, <1>2
  <2>3. Len(s) \in 0..Len(s) /\ Len(s) - Len(s) = 0
    BY <1>1
  <2> HIDE DEF young
  <2> QED BY <2>1, <2>2, <2>3
<1>3. CASE young # {}
  <2>1. young \subseteq Nat
    BY <1>1
  <2>2. \E i \in young : \A j \in young : i <= j
    <3> HIDE DEF young
    <3> QED BY <1>3, <2>1, LeastElement
  <2>3. first \in young /\ \A j \in young : first <= j
    BY <2>2
  <2>4. NotBefore(s, cut) = SubSeq(s, first, Len(s))
    BY <1>3 DEF NotBefore
  <2>5. first \in 1..Len(s)
    BY <2>3
  <2>6. \A i \in 1..(first - 1) : s[i] < cut
    <3>1. SUFFICES ASSUME NEW i \in 1..(first - 1), ~(s[i] < cut) PROVE FALSE
      OBVIOUS
    <3>2. i \in young /\ i < first
      BY <3>1, <2>5, <1>1
    <3> HIDE DEF young, first
    <3>3. first <= i
      BY <3>2, <2>3
    <3> QED BY <3>2, <3>3, <2>5, <1>1
  <2> HIDE DEF young, first
  <2>7. first - 1 \in 0..Len(s) /\ Len(s) - (first - 1) = Len(s) - first + 1
    BY <2>5, <1>1
  <2>8. /\ SubSeq(s, first, Len(s)) \in Seq(Int) /\ Len(SubSeq(s, first, Len(s))) = Len(s) - first + 1
        /\ \A i \in 1..(Len(s) - first + 1) : SubSeq(s, first, Len(s))[i] = s[i + (first - 1)]
    BY <2>5, <1>1
  <2> QED BY <2>4, <2>6, <2>7, <2>8
<1> QED BY <1>2, <1>3

LEMMA YoungSwept ==
  ASSUME NEW s \in Seq(Int), NEW cut \in Int, NEW c \in Int, c >= cut
  PROVE  Cardinality(Young(NotBefore(s, cut), c)) = Cardinality(Young(s, c))
<1> DEFINE w == NotBefore(s, cut)
<1>1. w \in Seq(Int)
  BY Swept
<1>2. PICK d \in 0..Len(s) :
        /\ Len(w) = Len(s) - d /\ \A i \in 1..(Len(s) - d) : w[i] = s[i + d]
        /\ \A i \in 1..d : s[i] < cut
  BY Swept
<1> HIDE DEF w
<1>3. Len(s) \in Nat /\ d \in Nat /\ d <= Len(s) /\ \A i \in 1..Len(s) : s[i] \in Int
  OBVIOUS
<1> DEFINE up == [i \in Young(w, c) |-> i + d]
           down == [i \in Young(s, c) |-> i - d]
<1>4. up \in [Young(w, c) -> Young(s, c)]
  <2>1. SUFFICES ASSUME NEW i \in Young(w, c) PROVE i + d \in Young(s, c)
    BY DEF up
  <2>2. i \in 1..(Len(s) - d) /\ w[i] >= c
    BY <1>2 DEF Young
  <2>3. i + d \in 1..Len(s) /\ s[i + d] = w[i]
    BY <2>2, <1>2, <1>3
  <2> QED BY <2>2, <2>3 DEF Young
<1>5. down \in [Young(s, c) -> Young(w, c)]
  <2>1. SUFFICES ASSUME NEW i \in Young(s, c) PROVE i - d \in Young(w, c)
    BY DEF down
  <2>2. i \in 1..Len(s) /\ s[i] >= c
    BY DEF Young
  <2>3. ~(i <= d)
    <3>1. ASSUME i <= d PROVE FALSE
      <4>1. s[i] < cut
        BY <3>1, <2>2, <1>2, <1>3
      <4> QED BY <4>1, <2>2, <1>3
    <3> QED BY <3>1
  <2>4. i - d \in 1..(Len(s) - d) /\ (i - d) + d = i
    BY <2>2, <2>3, <1>3
  <2>5. w[i - d] = s[i]
    BY <2>4, <1>2
  <2> QED BY <2>2, <2>4, <2>5, <1>2 DEF Young
<1>6. up \in Injection(Young(w, c), Young(s, c))
  <2>1. \A i, j \in Young(w, c) : up[i] = up[j] => i = j
    BY <1>3 DEF Young
  <2> QED BY <1>4, <2>1 DEF Injection, IsInjective
<1>7. down \in Injection(Young(s, c), Young(w, c))
  <2>1. \A i, j \in Young(s, c) : down[i] = down[j] => i = j
    BY <1>3 DEF Young
  <2> QED BY <1>5, <2>1 DEF Injection, IsInjective
<1> HIDE DEF up, down
<1>8. IsFiniteSet(Young(w, c)) /\ IsFiniteSet(Young(s, c))
      /\ Cardinality(Young(w, c)) \in Nat /\ Cardinality(Young(s, c)) \in Nat
  BY <1>1, YoungFinite
<1>9. Cardinality(Young(w, c)) <= Cardinality(Young(s, c))
  BY <1>6, <1>8, FS_Injection
<1>10. Cardinality(Young(s, c)) <= Cardinality(Young(w, c))
  BY <1>7, <1>8, FS_Injection
<1> QED BY <1>8, <1>9, <1>10 DEF w

LEMMA YoungAppended ==
  ASSUME NEW s \in Seq(Int), NEW at \in Int, NEW c \in Int
  PROVE  Cardinality(Young(Append(s, at), c))
           = Cardinality(Young(s, c)) + (IF at >= c THEN 1 ELSE 0)
<1>1. /\ Len(s) \in Nat /\ Len(Append(s, at)) = Len(s) + 1
      /\ Append(s, at)[Len(s) + 1] = at /\ \A i \in 1..Len(s) : Append(s, at)[i] = s[i]
      /\ 1..(Len(s) + 1) = 1..Len(s) \union {Len(s) + 1}
  BY Appended
<1>2. IsFiniteSet(Young(s, c)) /\ Cardinality(Young(s, c)) \in Nat
  BY YoungFinite
<1>3. Len(s) + 1 \notin Young(s, c)
  BY <1>1 DEF Young
<1>4. CASE at >= c
  <2>1. Young(Append(s, at), c) = Young(s, c) \union {Len(s) + 1}
    BY <1>1, <1>4 DEF Young
  <2> QED BY <2>1, <1>2, <1>3, <1>4, FS_AddElement
<1>5. CASE ~(at >= c)
  <2>1. Young(Append(s, at), c) = Young(s, c)
    BY <1>1, <1>5 DEF Young
  <2> QED BY <2>1, <1>2, <1>5
<1> QED BY <1>4, <1>5

(* A part of a sequence without repetition has none.                       *)
LEMMA SuffixOnce ==
  ASSUME NEW S, NEW s \in Seq(S), IsInjective(s), NEW k \in 1..Len(s)
  PROVE  /\ SubSeq(s, k, Len(s)) \in Seq(S) /\ SubSeq(s, k, Len(s)) # << >>
         /\ SubSeq(s, k, Len(s))[1] = s[k] /\ IsInjective(SubSeq(s, k, Len(s)))
<1> DEFINE w == SubSeq(s, k, Len(s))
<1>1. Len(s) \in Nat /\ k \in Nat /\ 1 <= k /\ k <= Len(s) /\ DOMAIN s = 1..Len(s)
  OBVIOUS
<1>2. /\ w \in Seq(S) /\ Len(w) = Len(s) - k + 1 /\ DOMAIN w = 1..(Len(s) - k + 1)
      /\ \A i \in 1..(Len(s) - k + 1) : w[i] = s[i + (k - 1)]
  BY <1>1
<1> HIDE DEF w
<1>3. ASSUME NEW i \in DOMAIN w, NEW j \in DOMAIN w, w[i] = w[j] PROVE i = j
  <2>1. i + (k - 1) \in 1..Len(s) /\ j + (k - 1) \in 1..Len(s) /\ i \in Nat /\ j \in Nat
    BY <1>1, <1>2
  <2>2. s[i + (k - 1)] = s[j + (k - 1)]
    BY <1>2, <1>3
  <2>3. i + (k - 1) = j + (k - 1)
    BY <2>1, <2>2, <1>1 DEF IsInjective
  <2> QED BY <2>1, <2>3, <1>1
<1>4. w # << >> /\ 1 \in 1..(Len(s) - k + 1) /\ 1 + (k - 1) = k
  BY <1>1, <1>2
<1> QED BY <1>2, <1>3, <1>4 DEF IsInjective, w

(* The first of a set of places is well defined.                           *)
LEMMA LeastIn ==
  ASSUME NEW n \in Nat, NEW S, S \subseteq 1..n, S # {}
  PROVE  /\ (CHOOSE i \in S : \A j \in S : i <= j) \in S
         /\ \A j \in S : (CHOOSE i \in S : \A k \in S : i <= k) <= j
<1>1. S \subseteq Nat
  OBVIOUS
<1>2. \E i \in S : \A j \in S : i <= j
  BY <1>1, LeastElement
<1> QED BY <1>2

-------------------------------------------------------------------------------
(***************************************************************************)
(* EmbedRing: for any embedders with any limits, and any finite number of  *)
(* requests at a time.                                                     *)
(*                                                                         *)
(* The window of an embedder and the successes of the history differ only  *)
(* in times that are too old to count (SameWindow), and its backoff is     *)
(* that of the failures since the last success (BackoffIsDue).             *)
(***************************************************************************)
EmbedStates == [calls : Seq(Int), last_call : Int, step : Nat, until : Int]
EmbedPasts == [calls : Nat, oks : Seq(Int), failures : Seq(Int)]
EmbedLocals == [pc : {"idle", "calling"}, left : Seq(Embedders), pinned : BOOLEAN]

LEMMA PastFields ==
  ASSUME NEW past \in EmbedPasts
  PROVE  /\ past.calls \in Nat /\ past.oks \in Seq(Int) /\ past.failures \in Seq(Int)
         /\ past = [calls |-> past.calls, oks |-> past.oks, failures |-> past.failures]
BY DEF EmbedPasts

LEMMA StateFields ==
  ASSUME NEW s \in EmbedStates
  PROVE  /\ s.calls \in Seq(Int) /\ s.last_call \in Int /\ s.step \in Nat /\ s.until \in Int
         /\ s = [calls |-> s.calls, last_call |-> s.last_call, step |-> s.step, until |-> s.until]
BY DEF EmbedStates

(* What a success leaves of an embedder's state.                           *)
LEMMA EmbedRecordIs ==
  ASSUME NEW s \in EmbedStates
  PROVE  EmbedRecord(s) = [calls |-> Append(s.calls, now), last_call |-> now, step |-> 0, until |-> 0]
<1>1. PICK c, l, n, u : s = [calls |-> c, last_call |-> l, step |-> n, until |-> u]
  BY StateFields
<1>2. s.calls = c
  BY <1>1
<1>3. EmbedRecord(s) = [s EXCEPT !.calls = Append(s.calls, now), !.last_call = now,
                                 !.step = 0, !.until = 0]
  BY DEF EmbedRecord
<1> DEFINE grown == Append(c, now)
<1>4. s.calls = c => Append(s.calls, now) = grown
  OBVIOUS
<1> HIDE DEF grown
<1>5. [s EXCEPT !.calls = grown, !.last_call = now, !.step = 0, !.until = 0]
        = [calls |-> grown, last_call |-> now, step |-> 0, until |-> 0]
  <2>1. PICK s1 : s1 = [s EXCEPT !.calls = grown]
    OBVIOUS
  <2>2. PICK s2 : s2 = [s1 EXCEPT !.last_call = now]
    OBVIOUS
  <2>3. PICK s3 : s3 = [s2 EXCEPT !.step = 0]
    OBVIOUS
  <2>4. s1 = [calls |-> grown, last_call |-> l, step |-> n, until |-> u]
    BY <1>1, <2>1
  <2>5. s2 = [calls |-> grown, last_call |-> now, step |-> n, until |-> u]
    BY <2>2, <2>4
  <2>6. s3 = [calls |-> grown, last_call |-> now, step |-> 0, until |-> u]
    BY <2>3, <2>5
  <2>7. [s3 EXCEPT !.until = 0] = [calls |-> grown, last_call |-> now, step |-> 0, until |-> 0]
    BY <2>6
  <2> QED BY <2>1, <2>2, <2>3, <2>7, Zenon
<1> QED BY <1>2, <1>3, <1>4, <1>5

(* The wait after n failures in a row.                                     *)
EmbedWait(n) == EmbedSteps[IF n < Len(EmbedSteps) THEN n ELSE Len(EmbedSteps)]

SameWindow(s, past) ==
  \A c \in Int : c >= now - EmbedMinute =>
    Cardinality(Young(past.oks, c)) = Cardinality(Young(s.calls, c))

BackoffIsDue(s, past) ==
  /\ s.step = Len(past.failures)
  /\ s.step > 0 => s.until = past.failures[s.step] + EmbedWait(s.step)

EmbedderSound(s, past) ==
  s \in EmbedStates /\ past \in EmbedPasts /\ SameWindow(s, past) /\ BackoffIsDue(s, past)

EmbeddersSound ==
  /\ now \in Nat
  /\ embedder = [e \in Embedders |-> embedder[e]]
  /\ embed_past = [e \in Embedders |-> embed_past[e]]
  /\ \A e \in Embedders : EmbedderSound(embedder[e], embed_past[e])

(* What is left of a request's candidates has each embedder once.          *)
RequestSound(l) ==
  /\ l \in EmbedLocals
  /\ l.pc = "calling" => l.left # << >>
  /\ IsInjective(l.left)
RequestsSound ==
  /\ embed = [r \in EmbedTasks |-> embed[r]]
  /\ \A r \in EmbedTasks : RequestSound(embed[r])

UnderWay(e) == {r \in EmbedTasks : embed[r].pc = "calling" /\ embed[r].left[1] = e}

OverrunAt(e) ==
  EmbedRpm[e] > 0 =>
    Cardinality(Young(embed_past[e].oks, now - EmbedMinute)) + Cardinality(UnderWay(e))
      < EmbedRpm[e] + Cardinality(EmbedTasks)

EmbedInv == EmbeddersSound /\ RequestsSound /\ \A e \in Embedders : OverrunAt(e)

LEMMA InitEmbed == ClockInit /\ EmbedInit => EmbedInv
<1> SUFFICES ASSUME ClockInit, EmbedInit PROVE EmbedInv
  OBVIOUS
<1>1. now = 0 /\ EmbedMinute \in Nat
  BY EmbedAssumption DEF ClockInit
<1>2. \A c \in Int : Young(<< >>, c) = {}
  BY DEF Young
<1>3. EmbedFresh \in EmbedStates /\ NoPast \in EmbedPasts /\ EmbedFresh.step = 0
      /\ EmbedFresh.calls = << >> /\ NoPast.oks = << >> /\ NoPast.failures = << >>
  BY <1>1 DEF EmbedFresh, NoPast, EmbedStates, EmbedPasts
<1>4. EmbedderSound(EmbedFresh, NoPast)
  BY <1>2, <1>3 DEF EmbedderSound, SameWindow, BackoffIsDue
<1>5. EmbeddersSound
  BY <1>1, <1>4 DEF EmbedInit, EmbeddersSound
<1>6. RequestSound(EmbedIdle)
  BY DEF RequestSound, EmbedIdle, EmbedLocals, IsInjective
<1>7. RequestsSound
  BY <1>6 DEF EmbedInit, RequestsSound
<1>8. ASSUME NEW e \in Embedders PROVE OverrunAt(e)
  <2>1. UnderWay(e) = {}
    BY DEF EmbedInit, UnderWay, EmbedIdle
  <2>2. Young(embed_past[e].oks, now - EmbedMinute) = {}
    BY <1>1, <1>2, <1>3 DEF EmbedInit
  <2>3. Cardinality(EmbedTasks) \in Nat /\ EmbedRpm[e] \in Nat
    BY EmbedAssumption, FS_CardinalityType
  <2> QED BY <2>1, <2>2, <2>3, FS_EmptySet DEF OverrunAt
<1> QED BY <1>5, <1>7, <1>8 DEF EmbedInv

(* gc() of a sound embedder.                                               *)
LEMMA GcSound ==
  ASSUME now \in Nat, NEW s, NEW past, EmbedderSound(s, past)
  PROVE  /\ EmbedderSound(EmbedGc(s), past)
         /\ Cardinality(Young(past.oks, now - EmbedMinute)) <= Len(EmbedGc(s).calls)
<1> DEFINE cut == now - EmbedMinute
<1>1. cut \in Int
  BY EmbedAssumption
<1>2. s.calls \in Seq(Int) /\ s \in EmbedStates /\ past.oks \in Seq(Int)
  BY DEF EmbedderSound, EmbedStates, EmbedPasts
<1>3. /\ EmbedGc(s).calls = NotBefore(s.calls, cut)
      /\ EmbedGc(s).step = s.step /\ EmbedGc(s).until = s.until
  BY <1>2 DEF EmbedGc, EmbedStates
<1>4. NotBefore(s.calls, cut) \in Seq(Int)
  BY <1>1, <1>2, Swept
<1>5. EmbedGc(s) \in EmbedStates
  BY <1>2, <1>4 DEF EmbedGc, EmbedStates
<1> HIDE DEF cut
<1>6. ASSUME NEW c \in Int, c >= cut
      PROVE  Cardinality(Young(past.oks, c)) = Cardinality(Young(EmbedGc(s).calls, c))
  <2>1. Cardinality(Young(NotBefore(s.calls, cut), c)) = Cardinality(Young(s.calls, c))
    BY <1>1, <1>2, <1>6, YoungSwept
  <2> QED BY <2>1, <1>3, <1>6 DEF EmbedderSound, SameWindow, cut
<1>7. EmbedderSound(EmbedGc(s), past)
  BY <1>3, <1>5, <1>6 DEF EmbedderSound, SameWindow, BackoffIsDue, cut
<1>8. Cardinality(Young(EmbedGc(s).calls, cut)) <= Len(EmbedGc(s).calls)
  BY <1>1, <1>3, <1>4, YoungFinite
<1>9. Cardinality(Young(past.oks, cut)) = Cardinality(Young(EmbedGc(s).calls, cut))
  BY <1>1, <1>6
<1> QED BY <1>7, <1>8, <1>9 DEF cut

(* The loop of embed_with_failover() from where it stands, with states and *)
(* histories that are sound.                                               *)
LEMMA GoOnKeeps ==
  ASSUME EmbedInv, NEW r \in EmbedTasks, NEW left \in Seq(Embedders), IsInjective(left),
         NEW pinned \in BOOLEAN, NEW states, NEW past, EmbedGoOn(r, left, pinned, states, past),
         states = [e \in Embedders |-> states[e]], past = [e \in Embedders |-> past[e]],
         \A e \in Embedders : /\ EmbedderSound(states[e], past[e])
                              /\ past[e].oks = embed_past[e].oks,
         now' = now
  PROVE  /\ EmbedInv'
         /\ \A q \in EmbedTasks : q # r => embed'[q] = embed[q]
         /\ embed'[r].pc = "calling" =>
              embed'[r].left[1] \in ToSet(left) /\ EmbedCanUse(embed'[r].left[1])
<1> DEFINE usable == {i \in 1..Len(left) : EmbedCanUse(left[i])}
           first == CHOOSE i \in usable : \A j \in usable : i <= j
           looked == IF usable = {} THEN ToSet(left) ELSE {left[i] : i \in 1..first}
           n == left[first]
           new == [pc |-> "calling", left |-> SubSeq(left, first, Len(left)), pinned |-> pinned]
<1>1. /\ embedder' = [e \in Embedders |-> IF e \in looked THEN EmbedGc(states[e]) ELSE states[e]]
      /\ IF usable = {} THEN embed' = [embed EXCEPT ![r] = EmbedIdle] /\ embed_past' = past
         ELSE embed' = [embed EXCEPT ![r] = new] /\ embed_past' = [past EXCEPT ![n].calls = @ + 1]
  BY DEF EmbedGoOn
<1>2. ASSUME usable # {} PROVE first \in 1..Len(left) /\ EmbedCanUse(n) /\ n \in Embedders
  <2>1. usable \subseteq Nat
    OBVIOUS
  <2>2. \E i \in usable : \A j \in usable : i <= j
    <3> HIDE DEF usable
    <3> QED BY <1>2, <2>1, LeastElement
  <2>3. first \in usable
    BY <2>2
  <2>4. first \in 1..Len(left) /\ EmbedCanUse(left[first])
    <3> HIDE DEF first
    <3> QED BY <2>3
  <2>5. left[first] \in Embedders
    <3> HIDE DEF first
    <3> QED BY <2>4
  <2> QED BY <2>4, <2>5
<1> HIDE DEF usable, first, looked
<1>3. now \in Nat /\ EmbedMinute \in Nat /\ now - EmbedMinute \in Int
  BY EmbedAssumption DEF EmbedInv, EmbeddersSound
<1>4. \A e \in Embedders :
        /\ embed_past'[e] \in EmbedPasts
        /\ embed_past'[e].oks = past[e].oks /\ embed_past'[e].failures = past[e].failures
  <2>1. \A e \in Embedders : past[e] \in EmbedPasts
    BY DEF EmbedderSound
  <2>2. CASE usable = {}
    BY <2>1, <2>2, <1>1
  <2>3. CASE usable # {}
    <3>1. embed_past' = [past EXCEPT ![n].calls = @ + 1]
      BY <2>3, <1>1
    <3> HIDE DEF n
    <3>2. ASSUME NEW e \in Embedders, e = n
          PROVE  /\ embed_past'[e] \in EmbedPasts /\ embed_past'[e].oks = past[e].oks
                 /\ embed_past'[e].failures = past[e].failures
      <4>1. embed_past'[e] = [past[e] EXCEPT !.calls = @ + 1]
        BY <3>1, <3>2
      <4>2. PICK p \in EmbedPasts : p = past[e]
        BY <2>1
      <4>3. embed_past'[e] = [calls |-> p.calls + 1, oks |-> p.oks, failures |-> p.failures]
        BY <4>1, <4>2, PastFields
      <4>4. p.calls + 1 \in Nat /\ p.oks \in Seq(Int) /\ p.failures \in Seq(Int)
        BY PastFields
      <4> QED BY <4>2, <4>3, <4>4 DEF EmbedPasts
    <3>3. ASSUME NEW e \in Embedders, e # n PROVE embed_past'[e] = past[e]
      BY <3>1, <3>3
    <3> QED BY <3>2, <3>3, <2>1
  <2> QED BY <2>2, <2>3
<1>5. EmbeddersSound'
  <2>1. embed_past' = [e \in Embedders |-> embed_past'[e]]
    BY <1>1
  <2>2. ASSUME NEW e \in Embedders PROVE EmbedderSound(embedder'[e], past[e])
    BY <1>1, <1>3, GcSound
  <2>3. ASSUME NEW e \in Embedders PROVE EmbedderSound(embedder[e], embed_past[e])'
    <3>1. EmbedderSound(embedder'[e], past[e])
      BY <2>2
    <3>2. /\ embed_past'[e] \in EmbedPasts
          /\ embed_past'[e].oks = past[e].oks /\ embed_past'[e].failures = past[e].failures
      BY <1>4
    <3> QED BY <3>1, <3>2 DEF EmbedderSound, SameWindow, BackoffIsDue, EmbedWait
  <2>4. embedder' = [e \in Embedders |-> embedder'[e]]
    BY <1>1
  <2> QED BY <1>3, <2>1, <2>3, <2>4 DEF EmbeddersSound
<1>6. /\ embed' = [q \in EmbedTasks |-> embed'[q]]
      /\ \A q \in EmbedTasks : q # r => embed'[q] = embed[q]
      /\ embed'[r] = IF usable = {} THEN EmbedIdle ELSE new
  <2>1. embed = [q \in EmbedTasks |-> embed[q]]
    BY DEF EmbedInv, RequestsSound
  <2> HIDE DEF new, n
  <2> QED BY <2>1, <1>1
<1>7. RequestsSound'
  <2>1. RequestSound(EmbedIdle)
    BY DEF RequestSound, EmbedIdle, EmbedLocals, IsInjective
  <2>2. ASSUME usable # {} PROVE RequestSound(new)
    <3>1. /\ SubSeq(left, first, Len(left)) \in Seq(Embedders)
          /\ SubSeq(left, first, Len(left)) # << >>
          /\ IsInjective(SubSeq(left, first, Len(left)))
      BY <2>2, <1>2, SuffixOnce
    <3> QED BY <3>1 DEF RequestSound, EmbedLocals
  <2>3. RequestSound(embed'[r])
    BY <1>6, <2>1, <2>2
  <2> QED BY <1>6, <2>3 DEF EmbedInv, RequestsSound
<1>8. usable # {} => embed'[r].pc = "calling" /\ embed'[r].left[1] = n
  BY <1>2, <1>6, SuffixOnce
<1>9. usable = {} => embed'[r].pc # "calling"
  BY <1>6 DEF EmbedIdle
<1>10. ASSUME NEW e \in Embedders PROVE OverrunAt(e)'
  <2> DEFINE young == Cardinality(Young(embed_past[e].oks, now - EmbedMinute))
             oks == embed_past[e].oks
  <2>1. oks \in Seq(Int) /\ young \in Nat
    <3>1. oks \in Seq(Int)
      BY DEF EmbedInv, EmbeddersSound, EmbedderSound, EmbedPasts
    <3> QED BY <3>1, <1>3, YoungFinite
  <2>2. embed_past'[e].oks = oks
    BY <1>4
  <2>3. /\ UnderWay(e) \subseteq EmbedTasks /\ UnderWay(e)' \subseteq EmbedTasks
        /\ IsFiniteSet(EmbedTasks)
    BY EmbedAssumption DEF UnderWay
  <2>4. /\ IsFiniteSet(UnderWay(e)) /\ Cardinality(UnderWay(e)) \in Nat
        /\ Cardinality(UnderWay(e)') \in Nat /\ Cardinality(UnderWay(e)') <= Cardinality(EmbedTasks)
        /\ Cardinality(EmbedTasks) \in Nat
    BY <2>3, Counts
  <2>5. EmbedRpm[e] \in Nat
    BY EmbedAssumption
  <2>6. CASE usable # {} /\ n = e
    <3>1. EmbedCanUse(e)
      BY <2>6, <1>2
    <3>2. EmbedderSound(embedder[e], embed_past[e])
      BY DEF EmbedInv, EmbeddersSound
    <3>3. young <= Len(EmbedGc(embedder[e]).calls)
      BY <3>2, <1>3, GcSound
    <3>4. EmbedGc(embedder[e]).calls \in Seq(Int)
      BY <3>2, <1>3, GcSound DEF EmbedderSound, EmbedStates
    <3>5. EmbedRpm[e] > 0 => young < EmbedRpm[e]
      BY <3>1, <3>3, <3>4, <2>1, <2>5 DEF EmbedCanUse
    <3> HIDE DEF young, oks
    <3>6. young' = young
      BY <2>2 DEF young, oks
    <3> QED BY <3>5, <3>6, <2>1, <2>4, <2>5 DEF OverrunAt, young
  <2>7. CASE ~(usable # {} /\ n = e)
    <3>1. UnderWay(e)' \subseteq UnderWay(e)
      BY <2>7, <1>6, <1>8, <1>9 DEF UnderWay
    <3>2. Cardinality(UnderWay(e)') <= Cardinality(UnderWay(e))
      BY <3>1, <2>4, FS_Subset
    <3>3. EmbedRpm[e] > 0 =>
            young + Cardinality(UnderWay(e)) < EmbedRpm[e] + Cardinality(EmbedTasks)
      BY DEF EmbedInv, OverrunAt
    <3> HIDE DEF young, oks
    <3>4. young' = young
      BY <2>2 DEF young, oks
    <3> QED BY <3>2, <3>3, <3>4, <2>1, <2>4, <2>5 DEF OverrunAt, young
  <2> QED BY <2>6, <2>7
<1>11. EmbedInv'
  BY <1>5, <1>7, <1>10 DEF EmbedInv
<1>12. usable # {} => n \in ToSet(left)
  BY <1>2 DEF ToSet
<1> QED BY <1>6, <1>8, <1>9, <1>11, <1>12, <1>2

LEMMA EmbedBeginKeeps ==
  ASSUME EmbedInv, NEW r \in EmbedTasks, NEW name \in Embedders \union {NoEmbedder},
         EmbedBegin(r, name)
  PROVE  /\ EmbedInv'
         /\ \A q \in EmbedTasks : q # r => embed'[q] = embed[q]
         /\ embed'[r].pc = "calling" => EmbedCanUse(embed'[r].left[1])
<1> DEFINE left == IF name = NoEmbedder THEN EmbedOrder ELSE <<name>>
<1>1. EmbedGoOn(r, left, name # NoEmbedder, embedder, embed_past) /\ now' = now
  BY DEF EmbedBegin
<1>2. left \in Seq(Embedders) /\ IsInjective(left)
  <2>1. EmbedOrder \in Seq(Embedders) /\ IsInjective(EmbedOrder)
    BY EmbedAssumption
  <2>2. CASE name = NoEmbedder
    BY <2>1, <2>2
  <2>3. CASE name # NoEmbedder
    BY <2>3 DEF IsInjective
  <2> QED BY <2>2, <2>3
<1>3. /\ embedder = [e \in Embedders |-> embedder[e]]
      /\ embed_past = [e \in Embedders |-> embed_past[e]]
      /\ \A e \in Embedders : EmbedderSound(embedder[e], embed_past[e])
  BY DEF EmbedInv, EmbeddersSound
<1>4. (name # NoEmbedder) \in BOOLEAN
  OBVIOUS
<1> HIDE DEF left
<1> QED BY <1>1, <1>2, <1>3, <1>4, GoOnKeeps

(* A call of r: its embedder, and what is left of its candidates.          *)
LEMMA CallOf ==
  ASSUME EmbedInv, NEW r \in EmbedTasks, embed[r].pc = "calling"
  PROVE  /\ embed[r].left[1] \in Embedders /\ Tail(embed[r].left) \in Seq(Embedders)
         /\ IsInjective(Tail(embed[r].left))
         /\ embed[r].left[1] \notin ToSet(Tail(embed[r].left))
<1>1. PICK left \in Seq(Embedders) : left = embed[r].left
  BY DEF EmbedInv, RequestsSound, RequestSound, EmbedLocals
<1>2. left # << >> /\ IsInjective(left)
  BY <1>1 DEF EmbedInv, RequestsSound, RequestSound
<1>3. /\ Len(left) \in Nat \ {0} /\ left[1] \in Embedders /\ Tail(left) \in Seq(Embedders)
      /\ Len(Tail(left)) = Len(left) - 1 /\ \A i \in 1..Len(Tail(left)) : Tail(left)[i] = left[i + 1]
  BY <1>2, Tailed
<1>4. DOMAIN left = 1..Len(left) /\ DOMAIN Tail(left) = 1..Len(Tail(left))
  BY <1>3
<1>5. \A i \in 1..Len(Tail(left)) : i + 1 \in 1..Len(left) /\ i + 1 # 1 /\ i \in Nat
  BY <1>3
<1>6. 1 \in DOMAIN left
  BY <1>3, <1>4
<1>7. \A i \in DOMAIN Tail(left) : Tail(left)[i] # left[1]
  BY <1>2, <1>3, <1>4, <1>5, <1>6 DEF IsInjective
<1>8. ASSUME NEW i \in DOMAIN Tail(left), NEW j \in DOMAIN Tail(left), Tail(left)[i] = Tail(left)[j]
      PROVE  i = j
  <2>1. i + 1 = j + 1
    BY <1>2, <1>3, <1>4, <1>5, <1>8 DEF IsInjective
  <2> QED BY <2>1, <1>4, <1>5
<1> QED BY <1>1, <1>3, <1>7, <1>8 DEF IsInjective, ToSet

LEMMA EmbedAnswersKeeps ==
  ASSUME EmbedInv, NEW r \in EmbedTasks, EmbedAnswers(r)
  PROVE  /\ EmbedInv' /\ embed'[r].pc # "calling"
         /\ \A q \in EmbedTasks : q # r => embed'[q] = embed[q]
<1>0. PICK e : e = embed[r].left[1]
  OBVIOUS
<1>1. /\ embed[r].pc = "calling" /\ now' = now
      /\ embedder' = [embedder EXCEPT ![e] = EmbedRecord(@)]
      /\ embed' = [embed EXCEPT ![r] = EmbedIdle]
      /\ embed_past' = [embed_past EXCEPT ![e].failures = << >>,
           ![e].oks = Append(NotBefore(@, now - EmbedMinute), now)]
  BY <1>0 DEF EmbedAnswers
<1>2. e \in Embedders
  BY <1>0, <1>1, CallOf
<1> DEFINE s == embedder[e]
           past == embed_past[e]
           cut == now - EmbedMinute
<1>3. /\ now \in Nat /\ now \in Int /\ EmbedMinute \in Nat /\ cut \in Int
      /\ embedder = [d \in Embedders |-> embedder[d]]
      /\ embed_past = [d \in Embedders |-> embed_past[d]]
      /\ \A d \in Embedders : EmbedderSound(embedder[d], embed_past[d])
      /\ embed = [q \in EmbedTasks |-> embed[q]] /\ \A q \in EmbedTasks : RequestSound(embed[q])
  BY EmbedAssumption DEF EmbedInv, EmbeddersSound, RequestsSound
<1>4. s \in EmbedStates /\ past \in EmbedPasts
  BY <1>2, <1>3 DEF EmbedderSound
<1>5. /\ embedder'[e] = EmbedRecord(s)
      /\ embed_past'[e] = [past EXCEPT !.failures = << >>, !.oks = Append(NotBefore(@, cut), now)]
      /\ \A d \in Embedders : d # e => embedder'[d] = embedder[d] /\ embed_past'[d] = embed_past[d]
      /\ embedder' = [d \in Embedders |-> embedder'[d]]
      /\ embed_past' = [d \in Embedders |-> embed_past'[d]]
  BY <1>1, <1>2, <1>3
<1>6. s.calls \in Seq(Int) /\ past.oks \in Seq(Int)
  BY <1>4 DEF EmbedStates, EmbedPasts
<1>7. NotBefore(past.oks, cut) \in Seq(Int)
  BY <1>3, <1>6, Swept
<1>8. /\ embedder'[e].calls = Append(s.calls, now)
      /\ embedder'[e] \in EmbedStates /\ embedder'[e].step = 0
  <2>1. embedder'[e] = [calls |-> Append(s.calls, now), last_call |-> now, step |-> 0, until |-> 0]
    BY <1>4, <1>5, EmbedRecordIs
  <2>2. Append(s.calls, now) \in Seq(Int)
    BY <1>3, <1>6
  <2> QED BY <2>1, <2>2, <1>3 DEF EmbedStates
<1>9. /\ embed_past'[e] \in EmbedPasts /\ embed_past'[e].failures = << >>
      /\ embed_past'[e].oks = Append(NotBefore(past.oks, cut), now)
  <2>1. Append(NotBefore(past.oks, cut), now) \in Seq(Int)
    BY <1>3, <1>7
  <2>2. embed_past'[e] = [calls |-> past.calls, oks |-> Append(NotBefore(past.oks, cut), now),
                          failures |-> << >>]
    BY <1>4, <1>5, PastFields
  <2>3. past.calls \in Nat /\ << >> \in Seq(Int)
    BY <1>4, PastFields
  <2> HIDE DEF cut, past
  <2> QED BY <2>1, <2>2, <2>3 DEF EmbedPasts
<1>10. ASSUME NEW c \in Int, c >= cut
       PROVE  /\ Cardinality(Young(embed_past'[e].oks, c))
                    = Cardinality(Young(past.oks, c)) + (IF now >= c THEN 1 ELSE 0)
              /\ Cardinality(Young(embedder'[e].calls, c))
                    = Cardinality(Young(past.oks, c)) + (IF now >= c THEN 1 ELSE 0)
  <2>1. Cardinality(Young(embed_past'[e].oks, c))
          = Cardinality(Young(NotBefore(past.oks, cut), c)) + (IF now >= c THEN 1 ELSE 0)
    BY <1>3, <1>7, <1>9, YoungAppended
  <2>2. Cardinality(Young(NotBefore(past.oks, cut), c)) = Cardinality(Young(past.oks, c))
    BY <1>3, <1>6, <1>10, YoungSwept
  <2>3. Cardinality(Young(embedder'[e].calls, c))
          = Cardinality(Young(s.calls, c)) + (IF now >= c THEN 1 ELSE 0)
    BY <1>3, <1>6, <1>8, YoungAppended
  <2>4. Cardinality(Young(past.oks, c)) = Cardinality(Young(s.calls, c))
    BY <1>2, <1>3, <1>10 DEF EmbedderSound, SameWindow
  <2> QED BY <2>1, <2>2, <2>3, <2>4
<1> HIDE DEF s, past, cut
<1>11. EmbeddersSound'
  <2>1. ASSUME NEW d \in Embedders PROVE EmbedderSound(embedder[d], embed_past[d])'
    <3>1. CASE d = e
      <4>1. \A c \in Int : c >= now' - EmbedMinute =>
              Cardinality(Young(embed_past'[e].oks, c)) = Cardinality(Young(embedder'[e].calls, c))
        BY <1>1, <1>10 DEF cut
      <4>2. embed_past'[e].failures = << >> /\ embedder'[e].step = 0
        BY <1>8, <1>9
      <4> QED BY <3>1, <4>1, <4>2, <1>8, <1>9 DEF EmbedderSound, SameWindow, BackoffIsDue
    <3>2. CASE d # e
      <4>1. EmbedderSound(embedder[d], embed_past[d]) /\ embedder'[d] = embedder[d] /\ embed_past'[d] = embed_past[d]
        BY <3>2, <1>3, <1>5
      <4> QED BY <4>1, <1>1 DEF EmbedderSound, SameWindow, BackoffIsDue, EmbedWait
    <3> QED BY <3>1, <3>2
  <2> QED BY <2>1, <1>1, <1>3, <1>5 DEF EmbeddersSound
<1>12. /\ embed'[r] = EmbedIdle /\ \A q \in EmbedTasks : q # r => embed'[q] = embed[q]
       /\ embed' = [q \in EmbedTasks |-> embed'[q]] /\ embed'[r].pc # "calling"
  BY <1>1, <1>3 DEF EmbedIdle
<1>13. RequestsSound'
  <2>1. RequestSound(EmbedIdle)
    BY DEF RequestSound, EmbedIdle, EmbedLocals, IsInjective
  <2> QED BY <2>1, <1>3, <1>12 DEF RequestsSound
<1>14. ASSUME NEW d \in Embedders PROVE OverrunAt(d)'
  <2> DEFINE young == Cardinality(Young(embed_past[d].oks, now - EmbedMinute))
  <2>1. /\ IsFiniteSet(UnderWay(d)) /\ Cardinality(UnderWay(d)) \in Nat
        /\ UnderWay(d)' \subseteq UnderWay(d) /\ Cardinality(EmbedTasks) \in Nat
    <3>1. UnderWay(d) \subseteq EmbedTasks /\ IsFiniteSet(EmbedTasks)
      BY EmbedAssumption DEF UnderWay
    <3>2. UnderWay(d)' \subseteq UnderWay(d)
      BY <1>12 DEF UnderWay
    <3> QED BY <3>1, <3>2, Counts
  <2>2. Cardinality(UnderWay(d)') \in Nat /\ Cardinality(UnderWay(d)') <= Cardinality(UnderWay(d))
    BY <2>1, FS_Subset, FS_CardinalityType
  <2>3. embed_past[d].oks \in Seq(Int)
    BY <1>3 DEF EmbedderSound, EmbedPasts
  <2>4. young \in Nat
    BY <2>3, <1>3, YoungFinite
  <2>5. EmbedRpm[d] \in Nat
    BY EmbedAssumption
  <2>6. EmbedRpm[d] > 0 => young + Cardinality(UnderWay(d)) < EmbedRpm[d] + Cardinality(EmbedTasks)
    BY DEF EmbedInv, OverrunAt
  <2>7. CASE d = e
    <3>1. young' = young + 1
      BY <2>7, <1>1, <1>3, <1>10 DEF past, cut
    <3>2. r \in UnderWay(d) /\ UnderWay(d)' \subseteq UnderWay(d) \ {r}
      BY <2>7, <1>0, <1>1, <1>12 DEF UnderWay
    <3>3. Cardinality(UnderWay(d)') + 1 <= Cardinality(UnderWay(d))
      BY <2>1, <3>2, Counts
    <3> HIDE DEF young
    <3> QED BY <3>1, <3>3, <2>1, <2>2, <2>4, <2>5, <2>6 DEF OverrunAt, young
  <2>8. CASE d # e
    <3>1. young' = young
      BY <2>8, <1>1, <1>5
    <3> HIDE DEF young
    <3> QED BY <3>1, <2>1, <2>2, <2>4, <2>5, <2>6 DEF OverrunAt, young
  <2> QED BY <2>7, <2>8
<1> QED BY <1>11, <1>12, <1>13, <1>14 DEF EmbedInv

LEMMA FailedSound ==
  ASSUME now \in Nat, NEW s, NEW past, EmbedderSound(s, past)
  PROVE  EmbedderSound(EmbedFailed(s), [past EXCEPT !.failures = Append(@, now)])
<1> DEFINE last == Len(EmbedSteps)
           at == IF s.step < last THEN s.step + 1 ELSE last
           t == EmbedFailed(s)
           p == [past EXCEPT !.failures = Append(@, now)]
<1>1. /\ s \in EmbedStates /\ s.step \in Nat /\ past \in EmbedPasts /\ past.failures \in Seq(Int)
      /\ s.step = Len(past.failures)
  BY DEF EmbedderSound, EmbedStates, EmbedPasts, BackoffIsDue
<1>2. /\ last \in Nat \ {0} /\ \A i \in 1..last : EmbedSteps[i] \in Nat
  BY EmbedAssumption
<1>3. at \in 1..last /\ at = IF s.step + 1 < last THEN s.step + 1 ELSE last
  BY <1>1, <1>2
<1>4. now \in Int /\ EmbedSteps[at] \in Nat /\ now + EmbedSteps[at] \in Int
  BY <1>2, <1>3
<1>5. t = [s EXCEPT !.step = @ + 1, !.until = now + EmbedSteps[at]]
  BY DEF EmbedFailed
<1> HIDE DEF t, at, last
<1>6. t \in EmbedStates /\ t.step = s.step + 1 /\ t.until = now + EmbedSteps[at] /\ t.calls = s.calls
  <2>1. t = [calls |-> s.calls, last_call |-> s.last_call, step |-> s.step + 1,
             until |-> now + EmbedSteps[at]]
    <3>1. s = [calls |-> s.calls, last_call |-> s.last_call, step |-> s.step, until |-> s.until]
      BY <1>1, StateFields
    <3> QED BY <3>1, <1>5
  <2> QED BY <1>1, <1>4, <2>1, StateFields DEF EmbedStates
<1>7. /\ Append(past.failures, now) \in Seq(Int) /\ Len(Append(past.failures, now)) = s.step + 1
      /\ Append(past.failures, now)[s.step + 1] = now
  BY <1>1, <1>4
<1>8. p \in EmbedPasts /\ p.failures = Append(past.failures, now) /\ p.oks = past.oks
  BY <1>1, <1>7 DEF EmbedPasts
<1> HIDE DEF p
<1>9. SameWindow(t, p)
  BY <1>6, <1>8 DEF EmbedderSound, SameWindow
<1>10. EmbedWait(s.step + 1) = EmbedSteps[at]
  BY <1>3 DEF EmbedWait, last
<1>11. BackoffIsDue(t, p)
  BY <1>6, <1>7, <1>8, <1>10 DEF BackoffIsDue
<1> QED BY <1>6, <1>8, <1>9, <1>11 DEF EmbedderSound, t, p

LEMMA EmbedFailsKeeps ==
  ASSUME EmbedInv, NEW r \in EmbedTasks, EmbedFails(r)
  PROVE  /\ EmbedInv'
         /\ \A q \in EmbedTasks : q # r => embed'[q] = embed[q]
         /\ embed'[r].pc = "calling" => EmbedCanUse(embed'[r].left[1])
<1>0. PICK e : e = embed[r].left[1]
  OBVIOUS
<1> DEFINE states == [embedder EXCEPT ![e] = EmbedFailed(@)]
           past == [embed_past EXCEPT ![e].failures = Append(@, now)]
<1>1. /\ embed[r].pc = "calling" /\ now' = now
      /\ IF embed[r].pinned
         THEN embedder' = states /\ embed_past' = past /\ embed' = [embed EXCEPT ![r] = EmbedIdle]
         ELSE EmbedGoOn(r, Tail(embed[r].left), FALSE, states, past)
  BY <1>0 DEF EmbedFails
<1>2. e \in Embedders /\ Tail(embed[r].left) \in Seq(Embedders) /\ IsInjective(Tail(embed[r].left))
  BY <1>0, <1>1, CallOf
<1>3. /\ now \in Nat
      /\ embedder = [d \in Embedders |-> embedder[d]]
      /\ embed_past = [d \in Embedders |-> embed_past[d]]
      /\ \A d \in Embedders : EmbedderSound(embedder[d], embed_past[d])
      /\ embed = [q \in EmbedTasks |-> embed[q]] /\ \A q \in EmbedTasks : RequestSound(embed[q])
  BY DEF EmbedInv, EmbeddersSound, RequestsSound
<1>4. /\ states[e] = EmbedFailed(embedder[e])
      /\ past[e] = [embed_past[e] EXCEPT !.failures = Append(@, now)]
      /\ \A d \in Embedders : d # e => states[d] = embedder[d] /\ past[d] = embed_past[d]
      /\ states = [d \in Embedders |-> states[d]] /\ past = [d \in Embedders |-> past[d]]
  BY <1>2, <1>3
<1> HIDE DEF states, past
<1>5. \A d \in Embedders : EmbedderSound(states[d], past[d])
  BY <1>2, <1>3, <1>4, FailedSound
<1>6. \A d \in Embedders : past[d].oks = embed_past[d].oks
  <2>1. embed_past[e] \in EmbedPasts
    BY <1>2, <1>3 DEF EmbedderSound
  <2>2. past[e].oks = embed_past[e].oks
    BY <2>1, <1>4 DEF EmbedPasts
  <2> QED BY <2>2, <1>4
<1>7. CASE ~embed[r].pinned
  <2>1. EmbedGoOn(r, Tail(embed[r].left), FALSE, states, past)
    BY <1>1, <1>7
  <2>2. PICK left \in Seq(Embedders) : left = Tail(embed[r].left) /\ IsInjective(left)
    BY <1>2
  <2>3. EmbedGoOn(r, left, FALSE, states, past) /\ now' = now
    BY <2>1, <2>2, <1>1
  <2>4. PICK st : st = states
    OBVIOUS
  <2>5. PICK pa : pa = past
    OBVIOUS
  <2>a. PICK no \in BOOLEAN : no = FALSE
    OBVIOUS
  <2>b. EmbedGoOn(r, left, no, st, pa)
    BY <2>3, <2>4, <2>5, <2>a
  <2>6. /\ no \in BOOLEAN
        /\ st = [d \in Embedders |-> st[d]] /\ pa = [d \in Embedders |-> pa[d]]
        /\ \A d \in Embedders : EmbedderSound(st[d], pa[d]) /\ pa[d].oks = embed_past[d].oks
    BY <2>3, <2>4, <2>5, <1>4, <1>5, <1>6
  <2>c. now' = now /\ IsInjective(left)
    BY <2>2, <2>3
  <2>7. /\ EmbedInv' /\ \A q \in EmbedTasks : q # r => embed'[q] = embed[q]
        /\ embed'[r].pc = "calling" =>
              embed'[r].left[1] \in ToSet(left) /\ EmbedCanUse(embed'[r].left[1])
    BY <2>c, <2>b, <2>6, GoOnKeeps
  <2> QED BY <2>7
<1>8. CASE embed[r].pinned
  <2>1. embedder' = states /\ embed_past' = past /\ embed' = [embed EXCEPT ![r] = EmbedIdle]
    BY <1>1, <1>8
  <2>2. EmbeddersSound'
    <3>1. ASSUME NEW d \in Embedders PROVE EmbedderSound(embedder[d], embed_past[d])'
      <4>1. EmbedderSound(embedder'[d], embed_past'[d])
        BY <1>5, <2>1
      <4> QED BY <4>1, <1>1 DEF EmbedderSound, SameWindow, BackoffIsDue, EmbedWait
    <3> QED BY <3>1, <1>1, <1>3, <1>4, <2>1 DEF EmbeddersSound
  <2>3. /\ embed'[r] = EmbedIdle /\ \A q \in EmbedTasks : q # r => embed'[q] = embed[q]
        /\ embed' = [q \in EmbedTasks |-> embed'[q]] /\ embed'[r].pc # "calling"
    BY <2>1, <1>3 DEF EmbedIdle
  <2>4. RequestsSound'
    <3>1. RequestSound(EmbedIdle)
      BY DEF RequestSound, EmbedIdle, EmbedLocals, IsInjective
    <3> QED BY <3>1, <1>3, <2>3 DEF RequestsSound
  <2>5. ASSUME NEW d \in Embedders PROVE OverrunAt(d)'
    <3>1. UnderWay(d)' \subseteq UnderWay(d) /\ IsFiniteSet(UnderWay(d))
      <4>1. UnderWay(d) \subseteq EmbedTasks /\ IsFiniteSet(EmbedTasks)
        BY EmbedAssumption DEF UnderWay
      <4> QED BY <4>1, <2>3, FS_Subset DEF UnderWay
    <3>2. /\ Cardinality(UnderWay(d)') \in Nat /\ Cardinality(UnderWay(d)) \in Nat
          /\ Cardinality(UnderWay(d)') <= Cardinality(UnderWay(d))
      BY <3>1, FS_Subset, FS_CardinalityType
    <3>3. embed_past[d].oks \in Seq(Int) /\ now - EmbedMinute \in Int
      BY <1>3, EmbedAssumption DEF EmbedderSound, EmbedPasts
    <3>4. Cardinality(Young(embed_past[d].oks, now - EmbedMinute)) \in Nat
      BY <3>3, YoungFinite
    <3>5. EmbedRpm[d] \in Nat /\ Cardinality(EmbedTasks) \in Nat
      BY EmbedAssumption, FS_CardinalityType
    <3>6. embed_past'[d].oks = embed_past[d].oks /\ now' = now
      BY <1>1, <1>6, <2>1
    <3>7. OverrunAt(d)
      BY DEF EmbedInv
    <3> QED BY <3>2, <3>4, <3>5, <3>6, <3>7 DEF OverrunAt
  <2> QED BY <2>2, <2>3, <2>4, <2>5 DEF EmbedInv
<1> QED BY <1>7, <1>8

LEMMA EmbedPassesKeeps ==
  ASSUME EmbedInv, Passes, UNCHANGED embed_vars
  PROVE  EmbedInv'
<1>1. /\ now' = now + 1 /\ embedder' = embedder /\ embed' = embed /\ embed_past' = embed_past
      /\ now \in Nat /\ EmbedMinute \in Nat
  BY EmbedAssumption DEF Passes, embed_vars, EmbedInv, EmbeddersSound
<1>2. now' \in Nat
  BY <1>1
<1>3. ASSUME NEW d \in Embedders PROVE EmbedderSound(embedder[d], embed_past[d])'
  <2>1. EmbedderSound(embedder[d], embed_past[d])
    BY DEF EmbedInv, EmbeddersSound
  <2>2. \A c \in Int : c >= now' - EmbedMinute => c >= now - EmbedMinute
    BY <1>1
  <2>3. \A c \in Int : c >= now' - EmbedMinute =>
          Cardinality(Young(embed_past[d].oks, c)) = Cardinality(Young(embedder[d].calls, c))
    BY <2>1, <2>2 DEF EmbedderSound, SameWindow
  <2> QED BY <2>1, <2>3, <1>1 DEF EmbedderSound, SameWindow, BackoffIsDue, EmbedWait
<1>4. EmbeddersSound'
  BY <1>1, <1>2, <1>3 DEF EmbedInv, EmbeddersSound
<1>5. RequestsSound'
  BY <1>1 DEF EmbedInv, RequestsSound, RequestSound
<1>6. ASSUME NEW d \in Embedders PROVE OverrunAt(d)'
  <2>1. PICK oks \in Seq(Int) : oks = embed_past[d].oks
    BY DEF EmbedInv, EmbeddersSound, EmbedderSound, EmbedPasts
  <2>2. /\ now - EmbedMinute \in Int /\ now' - EmbedMinute \in Int
        /\ now' - EmbedMinute >= now - EmbedMinute
    BY <1>1
  <2>3. \A i \in 1..Len(oks) : oks[i] \in Int
    BY <2>1
  <2>4. Young(oks, now' - EmbedMinute) \subseteq Young(oks, now - EmbedMinute)
    BY <2>2, <2>3 DEF Young
  <2>5. /\ Cardinality(Young(oks, now' - EmbedMinute)) \in Nat
        /\ Cardinality(Young(oks, now - EmbedMinute)) \in Nat
        /\ Cardinality(Young(oks, now' - EmbedMinute)) <= Cardinality(Young(oks, now - EmbedMinute))
    BY <2>2, <2>4, YoungFinite, FS_Subset
  <2>6. Cardinality(UnderWay(d)) \in Nat /\ Cardinality(EmbedTasks) \in Nat
    <3>1. UnderWay(d) \subseteq EmbedTasks /\ IsFiniteSet(EmbedTasks)
      BY EmbedAssumption DEF UnderWay
    <3> QED BY <3>1, Counts
  <2>7. EmbedRpm[d] \in Nat
    BY EmbedAssumption
  <2>8. OverrunAt(d)
    BY DEF EmbedInv
  <2>9. UnderWay(d)' = UnderWay(d)
    BY <1>1 DEF UnderWay
  <2> QED BY <1>1, <2>1, <2>5, <2>6, <2>7, <2>8, <2>9 DEF OverrunAt
<1> QED BY <1>4, <1>5, <1>6 DEF EmbedInv

LEMMA NextEmbed == EmbedInv /\ [EmbedNext]_<<now, embed_vars>> => EmbedInv'
<1> SUFFICES ASSUME EmbedInv, [EmbedNext]_<<now, embed_vars>> PROVE EmbedInv'
  OBVIOUS
<1>1. ASSUME NEW r \in EmbedTasks, EmbedAnswers(r) PROVE EmbedInv'
  BY <1>1, EmbedAnswersKeeps
<1>2. ASSUME NEW r \in EmbedTasks, EmbedFails(r) PROVE EmbedInv'
  BY <1>2, EmbedFailsKeeps
<1>3. ASSUME NEW r \in EmbedTasks, NEW name \in Embedders \union {NoEmbedder}, EmbedBegin(r, name)
      PROVE  EmbedInv'
  BY <1>3, EmbedBeginKeeps
<1>4. CASE Passes /\ UNCHANGED embed_vars
  BY <1>4, EmbedPassesKeeps
<1>5. CASE UNCHANGED <<now, embed_vars>>
  BY <1>5 DEF embed_vars, EmbedInv, EmbeddersSound, EmbedderSound, SameWindow, BackoffIsDue,
              EmbedWait, RequestsSound, RequestSound, OverrunAt, UnderWay
<1> QED BY <1>1, <1>2, <1>3, <1>4, <1>5 DEF EmbedNext

(* Successes of a minute and calls under way together exceed the limit of  *)
(* an embedder by less than the number of requests at a time, however      *)
(* these interleave.                                                       *)
THEOREM EmbedOverrunIsBounded == EmbedSpec => []EmbedOverrunBounded
<1>1. EmbedInv => EmbedOverrunBounded
  BY DEF EmbedInv, OverrunAt, UnderWay, Young, EmbedOverrunBounded
<1> QED BY <1>1, InitEmbed, NextEmbed, PTL DEF EmbedSpec

(* Whichever request calls an embedder, it does so when the wait after all *)
(* failures since the last success is over.                                *)
THEOREM EmbedsCallWhenDue == EmbedSpec => EmbedCallsWhenDue
<1> DEFINE Due(r) ==
      embed'[r].pc = "calling" /\ embed'[r] # embed[r] =>
         LET failures == embed_past[embed'[r].left[1]].failures
             n == Len(failures)
         IN  n > 0 => now >= failures[n] + EmbedSteps[IF n < Len(EmbedSteps) THEN n
                                                      ELSE Len(EmbedSteps)]
<1>1. ASSUME EmbedInv, NEW r \in EmbedTasks, EmbedInv',
             embed'[r].pc = "calling" => EmbedCanUse(embed'[r].left[1])
      PROVE  Due(r)
  <2> SUFFICES ASSUME embed'[r].pc = "calling",
                      Len(embed_past[embed'[r].left[1]].failures) > 0
               PROVE  LET failures == embed_past[embed'[r].left[1]].failures
                          n == Len(failures)
                      IN  now >= failures[n] + EmbedWait(n)
    BY DEF EmbedWait
  <2>1. PICK e : e = embed'[r].left[1]
    OBVIOUS
  <2>2. e \in Embedders /\ EmbedCanUse(e)
    <3>1. PICK left \in Seq(Embedders) : left = embed'[r].left /\ left # << >>
      BY <1>1 DEF EmbedInv, RequestsSound, RequestSound, EmbedLocals
    <3>2. left[1] \in Embedders
      BY <3>1, Tailed
    <3> QED BY <3>1, <3>2, <2>1, <1>1
  <2>3. EmbedderSound(embedder[e], embed_past[e])
    BY <2>2, <1>1 DEF EmbedInv, EmbeddersSound
  <2>4. now >= embedder[e].until
    <3>1. EmbedGc(embedder[e]).until = embedder[e].until
      BY <2>3 DEF EmbedGc, EmbedderSound, EmbedStates
    <3> QED BY <2>2, <3>1 DEF EmbedCanUse
  <2> QED BY <2>1, <2>3, <2>4 DEF EmbedderSound, BackoffIsDue
<1>2. EmbedInv /\ EmbedInv' /\ [EmbedNext]_<<now, embed_vars>> => [\A r \in EmbedTasks : Due(r)]_embed
  <2> SUFFICES ASSUME EmbedInv, EmbedInv', [EmbedNext]_<<now, embed_vars>>, embed' # embed
               PROVE  \A r \in EmbedTasks : Due(r)
    OBVIOUS
  <2>1. ASSUME NEW r \in EmbedTasks, \A q \in EmbedTasks : q # r => embed'[q] = embed[q],
               embed'[r].pc = "calling" => EmbedCanUse(embed'[r].left[1])
        PROVE  \A q \in EmbedTasks : Due(q)
    <3>1. Due(r)
      BY <2>1, <1>1
    <3>2. ASSUME NEW q \in EmbedTasks, q # r PROVE Due(q)
      BY <3>2, <2>1
    <3> HIDE DEF Due
    <3> QED BY <3>1, <3>2
  <2> HIDE DEF Due
  <2>2. ASSUME NEW r \in EmbedTasks, EmbedAnswers(r) PROVE \A q \in EmbedTasks : Due(q)
    BY <2>1, <2>2, EmbedAnswersKeeps
  <2>3. ASSUME NEW r \in EmbedTasks, EmbedFails(r) PROVE \A q \in EmbedTasks : Due(q)
    BY <2>1, <2>3, EmbedFailsKeeps
  <2>4. ASSUME NEW r \in EmbedTasks, NEW name \in Embedders \union {NoEmbedder}, EmbedBegin(r, name)
        PROVE  \A q \in EmbedTasks : Due(q)
    BY <2>1, <2>4, EmbedBeginKeeps
  <2> QED BY <2>2, <2>3, <2>4 DEF EmbedNext, embed_vars
<1>3. EmbedCallsWhenDue <=> [][\A r \in EmbedTasks : Due(r)]_embed
  BY PTL DEF EmbedCallsWhenDue
<1> HIDE DEF Due
<1> QED BY <1>2, <1>3, InitEmbed, NextEmbed, PTL DEF EmbedSpec

-------------------------------------------------------------------------------
(***************************************************************************)
(* TierRing: for any order and limits of the routers, and any finite       *)
(* number of requests at a time.                                           *)
(*                                                                         *)
(* The routers that are left to a request were not asked for it before     *)
(* (AskedOnce).  A router's calls and what its window remembers differ     *)
(* only in times that are too old to count (TierWindow), so that a call    *)
(* made where there is room in the window is within the limit.             *)
(***************************************************************************)
TierPosts == [router : Routers, at : Int]
Recorded(n, c) == {i \in 1..Len(tier_posts) : tier_posts[i].router = n /\ tier_posts[i].at >= c}
PostsOf(n) == {i \in 1..Len(tier_posts) : tier_posts[i].router = n}
AskingNow(n) == {t \in TierTasks : classify[t].pc = "asked" /\ classify[t].by = n}

TierTypes ==
  /\ now \in Nat /\ tier_posts \in Seq(TierPosts)
  /\ router_calls \in [Routers -> Seq(Int)]
  /\ tier_rows \in [Routers -> Nat] /\ died \in [Routers -> Nat]
  /\ classify = [t \in TierTasks |-> classify[t]]

TierWindow ==
  \A n \in Routers, c \in Int : c >= now - TierMinute =>
    Cardinality(Recorded(n, c)) = Cardinality(Young(router_calls[n], c))

TierLimits ==
  \A i \in 1..Len(tier_posts) :
    LET p == tier_posts[i] IN
    Cardinality({j \in 1..i : tier_posts[j].router = p.router
                              /\ tier_posts[j].at >= p.at - TierMinute}) <= TierRpm[p.router]

TierRowsCounted ==
  \A n \in Routers :
    tier_rows[n] + died[n] + Cardinality(AskingNow(n)) = Cardinality(PostsOf(n))

Apart(asked, left) ==
  /\ asked \in Seq(Routers) /\ left \in Seq(Routers)
  /\ IsInjective(asked) /\ IsInjective(left)
  /\ \A i \in 1..Len(asked), j \in 1..Len(left) : asked[i] # left[j]

AskedSound(l) ==
  /\ l.size \in Sizes /\ l.size # "above 8000"
  /\ l.by \in Routers /\ l.asked # << >> /\ Last(l.asked) = l.by
  /\ Apart(l.asked, l.left)

DecidedSound(l) ==
  /\ l.tier = "HUGE" <=> l.size = "above 8000"
  /\ IF l.by = NoRouter THEN l.tier = TierFromCount(l.size) ELSE l.by = Last(l.asked)
  /\ IsInjective(l.asked)

LocalSound(l) ==
  \/ l = TierIdle
  \/ l.pc = "asked" /\ AskedSound(l)
  \/ l.pc = "decided" /\ DecidedSound(l)

LocalsSound == \A t \in TierTasks : LocalSound(classify[t])

TierInv == TierTypes /\ TierWindow /\ TierLimits /\ TierRowsCounted /\ LocalsSound

LEMMA InitTier == ClockInit /\ TierInit => TierInv
<1> SUFFICES ASSUME ClockInit, TierInit PROVE TierInv
  OBVIOUS
<1>1. TierTypes
  BY DEF ClockInit, TierInit, TierTypes
<1>2. /\ \A n \in Routers : router_calls[n] = << >> /\ tier_rows[n] = 0 /\ died[n] = 0
      /\ tier_posts = << >>
  BY DEF TierInit
<1>3. \A n \in Routers, c \in Int :
        Recorded(n, c) = {} /\ Young(router_calls[n], c) = {} /\ PostsOf(n) = {}
  BY <1>2 DEF Recorded, Young, PostsOf
<1>4. TierWindow
  BY <1>3 DEF TierWindow
<1>5. TierLimits
  BY <1>2 DEF TierLimits
<1>6. \A n \in Routers : AskingNow(n) = {}
  BY DEF TierInit, AskingNow, TierIdle
<1>7. TierRowsCounted
  <2>1. \A n \in Routers : PostsOf(n) = {}
    BY <1>2 DEF PostsOf
  <2>2. ASSUME NEW n \in Routers
        PROVE  tier_rows[n] + died[n] + Cardinality(AskingNow(n)) = Cardinality(PostsOf(n))
    <3>1. Cardinality(AskingNow(n)) = 0 /\ Cardinality(PostsOf(n)) = 0
      BY <2>1, <1>6, FS_EmptySet
    <3>2. tier_rows[n] = 0 /\ died[n] = 0
      BY <1>2
    <3> QED BY <3>1, <3>2
  <2> QED BY <2>2 DEF TierRowsCounted
<1>8. LocalsSound
  BY DEF TierInit, LocalsSound, LocalSound
<1> QED BY <1>1, <1>4, <1>5, <1>7, <1>8 DEF TierInv

LEMMA PostsFinite ==
  ASSUME TierTypes, NEW n
  PROVE  /\ IsFiniteSet(PostsOf(n)) /\ Cardinality(PostsOf(n)) \in Nat
         /\ \A c : IsFiniteSet(Recorded(n, c)) /\ Cardinality(Recorded(n, c)) \in Nat
<1>1. Len(tier_posts) \in Nat
  BY DEF TierTypes
<1>2. IsFiniteSet(1..Len(tier_posts))
  BY <1>1, FS_Interval
<1>3. PostsOf(n) \subseteq 1..Len(tier_posts) /\ \A c : Recorded(n, c) \subseteq 1..Len(tier_posts)
  BY DEF PostsOf, Recorded
<1> QED BY <1>2, <1>3, FS_Subset, FS_CardinalityType

LEMMA AskingFinite ==
  ASSUME NEW n
  PROVE  IsFiniteSet(AskingNow(n)) /\ Cardinality(AskingNow(n)) \in Nat
<1>1. IsFiniteSet(TierTasks)
  BY TierAssumption
<1>2. AskingNow(n) \subseteq TierTasks
  BY DEF AskingNow
<1> QED BY <1>1, <1>2, FS_Subset, FS_CardinalityType

(* A router that is called after those asked before it.                    *)
LEMMA ApartNext ==
  ASSUME NEW asked, NEW left, Apart(asked, left), NEW k \in 1..Len(left)
  PROVE  /\ Apart(Append(asked, left[k]), SubSeq(left, k + 1, Len(left)))
         /\ Append(asked, left[k]) # << >> /\ Last(Append(asked, left[k])) = left[k]
         /\ left[k] \in Routers
<1> DEFINE n == left[k]
           rest == SubSeq(left, k + 1, Len(left))
           more == Append(asked, n)
<1>1. /\ asked \in Seq(Routers) /\ left \in Seq(Routers) /\ IsInjective(asked) /\ IsInjective(left)
      /\ \A i \in 1..Len(asked), j \in 1..Len(left) : asked[i] # left[j]
  BY DEF Apart
<1>2. Len(left) \in Nat /\ k \in Nat /\ 1 <= k /\ k <= Len(left) /\ n \in Routers /\ Len(asked) \in Nat
      /\ DOMAIN left = 1..Len(left) /\ DOMAIN asked = 1..Len(asked)
  BY <1>1
<1>3. /\ more \in Seq(Routers) /\ Len(more) = Len(asked) + 1 /\ more[Len(asked) + 1] = n
      /\ \A i \in 1..Len(asked) : more[i] = asked[i]
      /\ 1..(Len(asked) + 1) = 1..Len(asked) \union {Len(asked) + 1}
      /\ DOMAIN more = 1..(Len(asked) + 1)
  <2> HIDE DEF n
  <2> QED BY <1>1, <1>2, Appended
<1>4. /\ rest \in Seq(Routers) /\ Len(rest) = Len(left) - k /\ DOMAIN rest = 1..(Len(left) - k)
      /\ \A i \in 1..(Len(left) - k) : rest[i] = left[i + k]
  <2>1. left \in Seq(Routers) /\ k + 1 \in 1..(Len(left) + 1) /\ Len(left) \in Nat /\ k \in Nat
    BY <1>1, <1>2
  <2>2. rest \in Seq(Routers) /\ Len(rest) = Len(left) - k
    BY <2>1
  <2>3. DOMAIN rest = 1..Len(rest)
    BY <2>2
  <2>4. \A i \in 1..(Len(left) - k) : rest[i] = left[i + k]
    BY <2>1
  <2> QED BY <2>2, <2>3, <2>4
<1> HIDE DEF rest, more
<1>5. IsInjective(more)
  <2>1. ASSUME NEW i \in DOMAIN more, NEW j \in DOMAIN more, more[i] = more[j] PROVE i = j
    <3>1. i \in 1..Len(asked) \/ i = Len(asked) + 1
      BY <1>3
    <3>2. j \in 1..Len(asked) \/ j = Len(asked) + 1
      BY <1>3
    <3>3. \A l \in 1..Len(asked) : asked[l] # n
      BY <1>1
    <3> QED BY <2>1, <3>1, <3>2, <3>3, <1>1, <1>2, <1>3 DEF IsInjective
  <2> QED BY <2>1 DEF IsInjective
<1>6. \A i \in 1..(Len(left) - k) : i + k \in 1..Len(left) /\ i + k # k /\ i \in Nat
  BY <1>2
<1>7. IsInjective(rest)
  <2>1. ASSUME NEW i \in DOMAIN rest, NEW j \in DOMAIN rest, rest[i] = rest[j] PROVE i = j
    <3>1. i + k = j + k
      <4>1. i + k \in DOMAIN left /\ j + k \in DOMAIN left
        BY <1>2, <1>4, <1>6
      <4>2. left[i + k] = left[j + k]
        BY <2>1, <1>4
      <4> QED BY <4>1, <4>2, <1>1 DEF IsInjective
    <3> QED BY <3>1, <1>2, <1>4, <1>6
  <2> QED BY <2>1 DEF IsInjective
<1>8. \A i \in 1..Len(rest) : rest[i] # n
  <2>1. ASSUME NEW i \in 1..Len(rest), rest[i] = n PROVE FALSE
    <3>1. i + k = k
      <4>1. i \in 1..(Len(left) - k) /\ rest[i] = left[i + k]
        BY <2>1, <1>4
      <4>2. left[i + k] = left[k]
        BY <4>1, <2>1, <1>2
      <4>3. i + k \in DOMAIN left /\ k \in DOMAIN left
        BY <4>1, <1>2, <1>6
      <4> QED BY <4>2, <4>3, <1>1 DEF IsInjective
    <3> QED BY <3>1, <2>1, <1>4, <1>6
  <2> QED BY <2>1
<1>9. \A i \in 1..Len(more), j \in 1..Len(rest) : more[i] # rest[j]
  <2>1. ASSUME NEW i \in 1..Len(more), NEW j \in 1..Len(rest), more[i] = rest[j] PROVE FALSE
    <3>1. CASE i = Len(asked) + 1
      BY <2>1, <3>1, <1>3, <1>8
    <3>2. CASE i \in 1..Len(asked)
      BY <2>1, <3>2, <1>1, <1>3, <1>4, <1>6
    <3> QED BY <3>1, <3>2, <1>3
  <2> QED BY <2>1
<1>10. Last(more) = n /\ more # << >>
  BY <1>2, <1>3 DEF Last
<1> QED BY <1>2, <1>3, <1>4, <1>5, <1>7, <1>9, <1>10 DEF Apart, rest, more

(* The step to the next router: the window and the calls stay together,    *)
(* and the new call is within the limit.                                   *)
LEMMA PostKeeps ==
  ASSUME TierInv, NEW n \in Routers, RouterUsable(n), now' = now,
         router_calls' = [router_calls EXCEPT ![n] = Append(RecentCalls(n), now)],
         tier_posts' = Append(tier_posts, [router |-> n, at |-> now])
  PROVE  /\ router_calls' \in [Routers -> Seq(Int)] /\ tier_posts' \in Seq(TierPosts)
         /\ TierWindow' /\ TierLimits'
         /\ Cardinality(PostsOf(n)') = Cardinality(PostsOf(n)) + 1
         /\ \A m \in Routers : m # n => PostsOf(m)' = PostsOf(m)
<1> DEFINE p == [router |-> n, at |-> now]
<1>0. PICK cut : cut = now - TierMinute
  OBVIOUS
<1>a. PICK len : len = Len(tier_posts)
  OBVIOUS
<1>1. /\ now \in Nat /\ now \in Int /\ TierMinute \in Nat /\ cut \in Int
      /\ tier_posts \in Seq(TierPosts) /\ router_calls \in [Routers -> Seq(Int)]
      /\ TierRpm \in [Routers -> Nat]
  <2>1. TierMinute \in Nat /\ TierRpm \in [Routers -> Nat \ {0}]
    BY TierAssumption DEF Routers
  <2>2. TierRpm \in [Routers -> Nat]
    BY <2>1
  <2>3. now \in Nat
    BY DEF TierInv, TierTypes
  <2>4. cut \in Int
    BY <1>0, <2>1, <2>3
  <2>5. tier_posts \in Seq(TierPosts) /\ router_calls \in [Routers -> Seq(Int)]
    BY DEF TierInv, TierTypes
  <2>6. now \in Int
    BY <2>3
  <2> QED BY <2>1, <2>2, <2>3, <2>4, <2>5, <2>6
<1>2. p \in TierPosts /\ p.router = n /\ p.at = now
  BY <1>1 DEF TierPosts
<1>3. /\ tier_posts' \in Seq(TierPosts) /\ len \in Nat /\ Len(tier_posts') = len + 1
      /\ tier_posts'[len + 1] = p /\ \A i \in 1..len : tier_posts'[i] = tier_posts[i]
      /\ 1..(len + 1) = 1..len \union {len + 1}
  BY <1>a, <1>1, <1>2, Appended
<1>4. \A i \in 1..len : tier_posts[i].router \in Routers /\ tier_posts[i].at \in Int
  <2>1. \A i \in 1..len : tier_posts[i] \in TierPosts
    BY <1>a, <1>1
  <2> QED BY <2>1 DEF TierPosts
<1>5. RecentCalls(n) \in Seq(Int) /\ RecentCalls(n) = NotBefore(router_calls[n], cut)
      /\ router_calls[n] \in Seq(Int)
  BY <1>0, <1>1, Swept DEF RecentCalls
<1> HIDE DEF p
<1>6. /\ router_calls'[n] = Append(RecentCalls(n), now)
      /\ \A m \in Routers : m # n => router_calls'[m] = router_calls[m]
      /\ router_calls' \in [Routers -> Seq(Int)]
  BY <1>1, <1>5
<1>7. /\ PostsOf(n)' = PostsOf(n) \union {len + 1} /\ len + 1 \notin PostsOf(n)
      /\ \A m \in Routers : m # n => PostsOf(m)' = PostsOf(m)
  BY <1>a, <1>2, <1>3 DEF PostsOf
<1>8. Cardinality(PostsOf(n)') = Cardinality(PostsOf(n)) + 1
  BY <1>7, PostsFinite, FS_AddElement DEF TierInv
<1>9. ASSUME NEW c \in Int, c >= cut
      PROVE  Cardinality(Recorded(n, c)) = Cardinality(Young(RecentCalls(n), c))
  <2>1. Cardinality(Young(RecentCalls(n), c)) = Cardinality(Young(router_calls[n], c))
    BY <1>1, <1>5, <1>9, YoungSwept
  <2> QED BY <2>1, <1>0, <1>9 DEF TierInv, TierWindow
<1>10. ASSUME NEW c \in Int
       PROVE  Cardinality(Recorded(n, c)') = Cardinality(Recorded(n, c)) + (IF now >= c THEN 1 ELSE 0)
  <2>1. len + 1 \notin Recorded(n, c) /\ IsFiniteSet(Recorded(n, c)) /\ Cardinality(Recorded(n, c)) \in Nat
    <3>1. len + 1 \notin Recorded(n, c)
      BY <1>a, <1>3 DEF Recorded
    <3> QED BY <3>1, PostsFinite DEF TierInv
  <2>2. CASE now >= c
    <3>1. Recorded(n, c)' = Recorded(n, c) \union {len + 1}
      BY <2>2, <1>a, <1>2, <1>3 DEF Recorded
    <3> QED BY <2>1, <2>2, <3>1, FS_AddElement
  <2>3. CASE ~(now >= c)
    <3>1. Recorded(n, c)' = Recorded(n, c)
      BY <2>3, <1>a, <1>2, <1>3 DEF Recorded
    <3> QED BY <2>1, <2>3, <3>1
  <2> QED BY <2>2, <2>3
<1>11. TierWindow'
  <2>1. ASSUME NEW m \in Routers, NEW c \in Int, c >= cut
        PROVE  Cardinality(Recorded(m, c)') = Cardinality(Young(router_calls'[m], c))
    <3>1. CASE m = n
      <4>1. Cardinality(Young(router_calls'[n], c))
              = Cardinality(Young(RecentCalls(n), c)) + (IF now >= c THEN 1 ELSE 0)
        BY <1>1, <1>5, <1>6, YoungAppended
      <4> QED BY <3>1, <4>1, <1>9, <1>10, <2>1
    <3>2. CASE m # n
      <4>1. Recorded(m, c)' = Recorded(m, c)
        BY <3>2, <1>a, <1>2, <1>3 DEF Recorded
      <4>2. router_calls'[m] = router_calls[m]
        BY <3>2, <1>6
      <4> QED BY <4>1, <4>2, <2>1, <1>0 DEF TierInv, TierWindow
    <3> QED BY <3>1, <3>2
  <2> QED BY <2>1, <1>0 DEF TierWindow
<1>12. Cardinality(Recorded(n, cut)') <= TierRpm[n]
  <2>1. Cardinality(Recorded(n, cut)) = Cardinality(Young(RecentCalls(n), cut))
    BY <1>1, <1>9
  <2>2. Cardinality(Young(RecentCalls(n), cut)) <= Len(RecentCalls(n))
        /\ Cardinality(Young(RecentCalls(n), cut)) \in Nat /\ Len(RecentCalls(n)) \in Nat
    BY <1>1, <1>5, YoungFinite
  <2>3. Len(RecentCalls(n)) < TierRpm[n] /\ TierRpm[n] \in Nat
    BY <1>1 DEF RouterUsable
  <2>4. now >= cut
    BY <1>0, <1>1
  <2>5. Cardinality(Recorded(n, cut)') = Cardinality(Recorded(n, cut)) + 1
    BY <2>4, <1>1, <1>10
  <2> QED BY <2>1, <2>2, <2>3, <2>5
<1>13. TierLimits'
  <2>1. ASSUME NEW i \in 1..(len + 1)
        PROVE  Cardinality({j \in 1..i : tier_posts'[j].router = tier_posts'[i].router
                                         /\ tier_posts'[j].at >= tier_posts'[i].at - TierMinute})
                 <= TierRpm[tier_posts'[i].router]
    <3>1. CASE i = len + 1
      <4>1. {j \in 1..(len + 1) : tier_posts'[j].router = n /\ tier_posts'[j].at >= cut}
              = Recorded(n, cut)'
        BY <1>a, <1>3 DEF Recorded
      <4>2. tier_posts'[i].router = n /\ tier_posts'[i].at - TierMinute = cut
        BY <3>1, <1>0, <1>2, <1>3
      <4> QED BY <3>1, <4>1, <4>2, <1>12
    <3>2. CASE i \in 1..len
      <4>1. \A j \in 1..i : j \in 1..len
        BY <3>2, <1>3
      <4>2. {j \in 1..i : tier_posts'[j].router = tier_posts'[i].router
                          /\ tier_posts'[j].at >= tier_posts'[i].at - TierMinute}
            = {j \in 1..i : tier_posts[j].router = tier_posts[i].router
                            /\ tier_posts[j].at >= tier_posts[i].at - TierMinute}
        BY <3>2, <4>1, <1>3
      <4> QED BY <3>2, <4>2, <1>a, <1>3 DEF TierInv, TierLimits
    <3> QED BY <3>1, <3>2, <1>3
  <2> QED BY <2>1, <1>3 DEF TierLimits
<1> QED BY <1>3, <1>6, <1>7, <1>8, <1>11, <1>13

LEMMA ApartTypes ==
  ASSUME NEW asked, NEW left, Apart(asked, left)
  PROVE  left \in Seq(Routers) /\ Len(left) \in Nat /\ IsInjective(asked)
BY DEF Apart

(* What AskNext leaves behind, for a request that is idle or was asked.    *)
LEMMA AskNextKeeps ==
  ASSUME TierInv, NEW t \in TierTasks, NEW c, NEW left, AskNext(t, c, left), now' = now,
         c.size \in Sizes, c.size # "above 8000", Apart(c.asked, left)
  PROVE  /\ now' = now /\ tier_posts' \in Seq(TierPosts)
         /\ router_calls' \in [Routers -> Seq(Int)]
         /\ TierWindow' /\ TierLimits' /\ LocalsSound'
         /\ classify' = [q \in TierTasks |-> classify'[q]]
         /\ \A q \in TierTasks : q # t => classify'[q] = classify[q]
         /\ \/ /\ classify'[t].pc = "decided" /\ tier_posts' = tier_posts
            \/ \E n \in Routers :
                 /\ classify'[t].pc = "asked" /\ classify'[t].by = n
                 /\ Cardinality(PostsOf(n)') = Cardinality(PostsOf(n)) + 1
                 /\ \A m \in Routers : m # n => PostsOf(m)' = PostsOf(m)
<1> DEFINE usable == {i \in 1..Len(left) : RouterUsable(left[i])}
           first == CHOOSE i \in usable : \A j \in usable : i <= j
<1>1. left \in Seq(Routers) /\ Len(left) \in Nat /\ IsInjective(c.asked)
  BY ApartTypes
<1>2. /\ classify = [q \in TierTasks |-> classify[q]] /\ LocalsSound
      /\ tier_posts \in Seq(TierPosts) /\ router_calls \in [Routers -> Seq(Int)]
      /\ TierWindow /\ TierLimits
  BY DEF TierInv, TierTypes
<1>3. CASE usable = {}
  <2> DEFINE new == [pc |-> "decided", size |-> c.size, tier |-> TierFromCount(c.size),
                     by |-> NoRouter, asked |-> c.asked]
  <2>1. classify' = [classify EXCEPT ![t] = new] /\ router_calls' = router_calls /\ tier_posts' = tier_posts
    BY <1>3 DEF AskNext, Decided
  <2>2. DecidedSound(new) /\ new.pc = "decided"
    BY <1>1 DEF DecidedSound, TierFromCount, Sizes
  <2> HIDE DEF new
  <2>3. /\ classify'[t] = new /\ \A q \in TierTasks : q # t => classify'[q] = classify[q]
        /\ classify' = [q \in TierTasks |-> classify'[q]]
    BY <2>1, <1>2
  <2>4. LocalsSound'
    BY <2>2, <2>3, <1>2 DEF LocalsSound, LocalSound
  <2>5. TierWindow' /\ TierLimits'
    <3>1. TierWindow'
      <4>1. ASSUME NEW n \in Routers, NEW d \in Int, d >= now - TierMinute
            PROVE  Cardinality(Recorded(n, d)) = Cardinality(Young(router_calls[n], d))
        BY <1>2, <4>1 DEF TierWindow
      <4>2. \A n, d : Recorded(n, d)' = Recorded(n, d)
        BY <2>1 DEF Recorded
      <4> QED BY <4>1, <4>2, <2>1 DEF TierWindow
    <3>2. TierLimits'
      BY <2>1, <1>2 DEF TierLimits
    <3> QED BY <3>1, <3>2
  <2> QED BY <2>1, <2>2, <2>3, <2>4, <2>5, <1>2
<1>4. CASE usable # {}
  <2>1. usable \subseteq 1..Len(left)
    OBVIOUS
  <2>2. first \in usable
    <3> HIDE DEF usable
    <3> QED BY <2>1, <1>1, <1>4, LeastIn DEF first
  <2>4. PICK k \in 1..Len(left) : k = first /\ RouterUsable(left[k])
    <3> HIDE DEF first
    <3> QED BY <2>2
  <2> DEFINE n == left[k]
             new == [pc |-> "asked", size |-> c.size, by |-> n,
                     left |-> SubSeq(left, k + 1, Len(left)), asked |-> Append(c.asked, n)]
  <2>5. /\ classify' = [classify EXCEPT ![t] = new]
        /\ router_calls' = [router_calls EXCEPT ![n] = Append(RecentCalls(n), now)]
        /\ tier_posts' = Append(tier_posts, [router |-> n, at |-> now])
    BY <1>4, <2>4 DEF AskNext
  <2>6. /\ Apart(Append(c.asked, n), SubSeq(left, k + 1, Len(left)))
        /\ Append(c.asked, n) # << >> /\ Last(Append(c.asked, n)) = n /\ n \in Routers
    BY ApartNext
  <2>7. AskedSound(new) /\ new.pc = "asked" /\ new.by = n
    BY <2>6 DEF AskedSound
  <2>8. n \in Routers /\ RouterUsable(n)
    BY <2>4, <2>6
  <2> HIDE DEF new, n, usable, first
  <2>9. /\ classify'[t] = new /\ \A q \in TierTasks : q # t => classify'[q] = classify[q]
        /\ classify' = [q \in TierTasks |-> classify'[q]]
    BY <2>5, <1>2
  <2>10. LocalsSound'
    BY <2>7, <2>9, <1>2 DEF LocalsSound, LocalSound
  <2>11. /\ router_calls' \in [Routers -> Seq(Int)] /\ tier_posts' \in Seq(TierPosts)
         /\ TierWindow' /\ TierLimits'
         /\ Cardinality(PostsOf(n)') = Cardinality(PostsOf(n)) + 1
         /\ \A m \in Routers : m # n => PostsOf(m)' = PostsOf(m)
    BY <2>5, <2>8, PostKeeps
  <2>12. /\ classify'[t].pc = "asked" /\ classify'[t].by = n
         /\ Cardinality(PostsOf(n)') = Cardinality(PostsOf(n)) + 1
         /\ \A m \in Routers : m # n => PostsOf(m)' = PostsOf(m)
    BY <2>7, <2>9, <2>11
  <2> QED BY <2>8, <2>9, <2>10, <2>11, <2>12
<1> QED BY <1>3, <1>4

(* Steps without a call of a router: nothing is counted...                 *)
LEMMA QuietKeeps ==
  ASSUME TierInv, now' = now, router_calls' = router_calls, tier_posts' = tier_posts,
         tier_rows' = tier_rows, died' = died, LocalsSound',
         classify' = [q \in TierTasks |-> classify'[q]],
         \A n : AskingNow(n)' = AskingNow(n)
  PROVE  TierInv'
<1>1. TierTypes'
  BY DEF TierInv, TierTypes
<1>2. \A n, c : Recorded(n, c)' = Recorded(n, c) /\ PostsOf(n)' = PostsOf(n)
  BY DEF Recorded, PostsOf
<1>3. TierWindow' /\ TierLimits'
  <2>1. TierWindow'
    <3>1. ASSUME NEW n \in Routers, NEW c \in Int, c >= now - TierMinute
          PROVE  Cardinality(Recorded(n, c)) = Cardinality(Young(router_calls[n], c))
      BY <3>1 DEF TierInv, TierWindow
    <3> QED BY <3>1, <1>2 DEF TierWindow
  <2>2. TierLimits'
    BY DEF TierInv, TierLimits
  <2> QED BY <2>1, <2>2
<1>4. TierRowsCounted'
  <2>1. \A n \in Routers :
          tier_rows[n] + died[n] + Cardinality(AskingNow(n)) = Cardinality(PostsOf(n))
    BY DEF TierInv, TierRowsCounted
  <2> QED BY <2>1, <1>2 DEF TierRowsCounted
<1> QED BY <1>1, <1>3, <1>4 DEF TierInv

(* ... or the call under way of t gets its row, or its request dies.       *)
LEMMA AnsweredKeeps ==
  ASSUME TierInv, now' = now, router_calls' = router_calls, tier_posts' = tier_posts,
         NEW n \in Routers, NEW t, t \in AskingNow(n), AskingNow(n)' = AskingNow(n) \ {t},
         \A m \in Routers : m # n =>
           AskingNow(m)' = AskingNow(m) /\ tier_rows'[m] = tier_rows[m] /\ died'[m] = died[m],
         \/ tier_rows'[n] = tier_rows[n] + 1 /\ died'[n] = died[n]
         \/ tier_rows'[n] = tier_rows[n] /\ died'[n] = died[n] + 1,
         tier_rows' \in [Routers -> Nat], died' \in [Routers -> Nat], LocalsSound',
         classify' = [q \in TierTasks |-> classify'[q]]
  PROVE  TierInv'
<1>1. TierTypes'
  BY DEF TierInv, TierTypes
<1>2. \A m, c : Recorded(m, c)' = Recorded(m, c) /\ PostsOf(m)' = PostsOf(m)
  BY DEF Recorded, PostsOf
<1>3. TierWindow' /\ TierLimits'
  <2>1. TierWindow'
    <3>1. ASSUME NEW m \in Routers, NEW c \in Int, c >= now - TierMinute
          PROVE  Cardinality(Recorded(m, c)) = Cardinality(Young(router_calls[m], c))
      BY <3>1 DEF TierInv, TierWindow
    <3> QED BY <3>1, <1>2 DEF TierWindow
  <2>2. TierLimits'
    BY DEF TierInv, TierLimits
  <2> QED BY <2>1, <2>2
<1>4. ASSUME NEW m \in Routers
      PROVE  tier_rows'[m] + died'[m] + Cardinality(AskingNow(m)') = Cardinality(PostsOf(m))
  <2>1. tier_rows[m] + died[m] + Cardinality(AskingNow(m)) = Cardinality(PostsOf(m))
    BY DEF TierInv, TierRowsCounted
  <2>2. CASE m = n
    <3>1. /\ tier_rows[n] \in Nat /\ died[n] \in Nat
          /\ IsFiniteSet(AskingNow(n)) /\ Cardinality(AskingNow(n)) \in Nat
      BY AskingFinite DEF TierInv, TierTypes
    <3>2. Cardinality(AskingNow(n)') = Cardinality(AskingNow(n)) - 1
      BY <3>1, FS_RemoveElement
    <3>3. tier_rows'[n] + died'[n] = tier_rows[n] + died[n] + 1
      BY <3>1
    <3>4. tier_rows'[n] \in Nat /\ died'[n] \in Nat
      OBVIOUS
    <3>5. tier_rows[n] + died[n] + Cardinality(AskingNow(n)) = Cardinality(PostsOf(n))
      BY <2>1, <2>2
    <3>6. tier_rows'[n] + died'[n] + Cardinality(AskingNow(n)') = Cardinality(PostsOf(n))
      BY <3>1, <3>2, <3>3, <3>5
    <3> QED BY <2>2, <3>6
  <2>3. CASE m # n
    BY <2>1, <2>3
  <2> QED BY <2>2, <2>3
<1>5. TierRowsCounted'
  BY <1>2, <1>4 DEF TierRowsCounted
<1> QED BY <1>1, <1>3, <1>5 DEF TierInv

LEMMA ClassifyBeginsKeeps ==
  ASSUME TierInv, NEW t \in TierTasks, NEW size \in Sizes, ClassifyBegins(t, size)
  PROVE  TierInv'
<1> DEFINE c == [size |-> size, asked |-> << >>]
<1>1. /\ classify[t] = TierIdle /\ now' = now /\ tier_rows' = tier_rows /\ died' = died
      /\ IF size = "above 8000"
         THEN Decided(t, c, "HUGE", NoRouter) /\ router_calls' = router_calls /\ tier_posts' = tier_posts
         ELSE AskNext(t, c, TierOrder)
  BY DEF ClassifyBegins
<1>2. /\ classify = [q \in TierTasks |-> classify[q]] /\ LocalsSound /\ TierTypes
      /\ TierWindow /\ TierLimits
  BY DEF TierInv, TierTypes
<1>3. classify[t].pc # "asked"
  <2>1. TierIdle.pc # "asked"
    BY DEF TierIdle
  <2> QED BY <2>1, <1>1
<1>4. CASE size = "above 8000"
  <2> DEFINE new == [pc |-> "decided", size |-> size, tier |-> "HUGE", by |-> NoRouter, asked |-> << >>]
  <2>1. classify' = [classify EXCEPT ![t] = new] /\ router_calls' = router_calls /\ tier_posts' = tier_posts
    BY <1>1, <1>4 DEF Decided
  <2>2. DecidedSound(new) /\ new.pc = "decided"
    <3>1. IsInjective(<< >>)
      BY DEF IsInjective
    <3>2. new.pc = "decided" /\ new.tier = "HUGE" /\ new.size = "above 8000" /\ new.by = NoRouter
          /\ new.asked = << >>
      BY <1>4
    <3>3. TierFromCount("above 8000") = "HUGE"
      BY DEF TierFromCount
    <3> HIDE DEF new
    <3> QED BY <3>1, <3>2, <3>3 DEF DecidedSound
  <2> HIDE DEF new
  <2>3. /\ classify'[t] = new /\ \A q \in TierTasks : q # t => classify'[q] = classify[q]
        /\ classify' = [q \in TierTasks |-> classify'[q]]
    BY <2>1, <1>2
  <2>4. LocalsSound'
    BY <2>2, <2>3, <1>2 DEF LocalsSound, LocalSound
  <2>5. \A n : AskingNow(n)' = AskingNow(n)
    BY <2>2, <2>3, <1>3 DEF AskingNow
  <2> QED BY <2>1, <2>3, <2>4, <2>5, <1>1, QuietKeeps
<1>5. CASE size # "above 8000"
  <2>1. AskNext(t, c, TierOrder) /\ c.size = size /\ c.asked = << >>
    BY <1>1, <1>5
  <2>2. Apart(<< >>, TierOrder)
    BY TierAssumption DEF Apart, IsInjective, Routers
  <2> HIDE DEF c
  <2>3. /\ tier_posts' \in Seq(TierPosts) /\ router_calls' \in [Routers -> Seq(Int)]
        /\ TierWindow' /\ TierLimits' /\ LocalsSound'
        /\ classify' = [q \in TierTasks |-> classify'[q]]
        /\ \A q \in TierTasks : q # t => classify'[q] = classify[q]
    BY <2>1, <2>2, <1>1, <1>5, AskNextKeeps
  <2>4. \/ classify'[t].pc = "decided" /\ tier_posts' = tier_posts
        \/ \E n \in Routers :
             /\ classify'[t].pc = "asked" /\ classify'[t].by = n
             /\ Cardinality(PostsOf(n)') = Cardinality(PostsOf(n)) + 1
             /\ \A m \in Routers : m # n => PostsOf(m)' = PostsOf(m)
    BY <2>1, <2>2, <1>1, <1>5, AskNextKeeps
  <2>5. ASSUME NEW m \in Routers
        PROVE  tier_rows[m] + died[m] + Cardinality(AskingNow(m)') = Cardinality(PostsOf(m)')
    <3>1. tier_rows[m] + died[m] + Cardinality(AskingNow(m)) = Cardinality(PostsOf(m))
      BY DEF TierInv, TierRowsCounted
    <3>2. /\ tier_rows[m] \in Nat /\ died[m] \in Nat
          /\ IsFiniteSet(AskingNow(m)) /\ Cardinality(AskingNow(m)) \in Nat
          /\ Cardinality(PostsOf(m)) \in Nat
      BY <1>2, AskingFinite, PostsFinite DEF TierTypes
    <3>3. t \notin AskingNow(m)
      BY <1>3 DEF AskingNow
    <3>4. CASE classify'[t].pc = "decided" /\ tier_posts' = tier_posts
      <4>1. AskingNow(m)' = AskingNow(m) /\ PostsOf(m)' = PostsOf(m)
        BY <3>4, <2>3, <1>3 DEF AskingNow, PostsOf
      <4> QED BY <4>1, <3>1
    <3>5. ASSUME NEW n \in Routers, classify'[t].pc = "asked", classify'[t].by = n,
                 Cardinality(PostsOf(n)') = Cardinality(PostsOf(n)) + 1,
                 \A k \in Routers : k # n => PostsOf(k)' = PostsOf(k)
          PROVE  tier_rows[m] + died[m] + Cardinality(AskingNow(m)') = Cardinality(PostsOf(m)')
      <4>1. CASE m = n
        <5>1. AskingNow(m)' = AskingNow(m) \union {t}
          BY <3>5, <4>1, <2>3 DEF AskingNow
        <5>2. Cardinality(AskingNow(m)') = Cardinality(AskingNow(m)) + 1
          BY <5>1, <3>2, <3>3, FS_AddElement
        <5> QED BY <5>2, <3>1, <3>2, <3>5, <4>1
      <4>2. CASE m # n
        <5>1. AskingNow(m)' = AskingNow(m)
          BY <3>5, <4>2, <2>3, <1>3 DEF AskingNow
        <5> QED BY <5>1, <3>1, <3>5, <4>2
      <4> QED BY <4>1, <4>2
    <3> QED BY <3>4, <3>5, <2>4
  <2>6. TierRowsCounted'
    BY <2>5, <1>1 DEF TierRowsCounted
  <2>7. TierTypes'
    BY <2>3, <1>1, <1>2 DEF TierTypes
  <2> QED BY <2>3, <2>6, <2>7 DEF TierInv
<1> QED BY <1>4, <1>5

LEMMA RouterSaysKeeps ==
  ASSUME TierInv, NEW t \in TierTasks, NEW said \in {"TINY", "LARGE", "HUGE"}, RouterSays(t, said)
  PROVE  TierInv'
<1> DEFINE l == classify[t]
           new == [pc |-> "decided", size |-> l.size, tier |-> TierSaid(said), by |-> l.by,
                   asked |-> l.asked]
<1>0. PICK n : n = classify[t].by
  OBVIOUS
<1>1. /\ l.pc = "asked" /\ classify' = [classify EXCEPT ![t] = new]
      /\ tier_rows' = [tier_rows EXCEPT ![n] = @ + 1]
      /\ now' = now /\ router_calls' = router_calls /\ tier_posts' = tier_posts /\ died' = died
  BY <1>0 DEF RouterSays, Decided, LogRow
<1>2. AskedSound(l)
  BY <1>1 DEF TierInv, LocalsSound, LocalSound, TierIdle
<1>3. n \in Routers /\ n # NoRouter
  BY <1>0, <1>2, TierAssumption DEF AskedSound, Routers
<1>4. DecidedSound(new) /\ new.pc = "decided"
  <2>1. TierSaid(said) # "HUGE"
    BY DEF TierSaid
  <2>2. l.size # "above 8000" /\ l.by = Last(l.asked) /\ IsInjective(l.asked)
    BY <1>2 DEF AskedSound, Apart
  <2> HIDE DEF l
  <2> QED BY <2>1, <2>2, <1>0, <1>3 DEF DecidedSound, l
<1> HIDE DEF new
<1>5. classify = [q \in TierTasks |-> classify[q]] /\ LocalsSound /\ TierTypes
  BY DEF TierInv, TierTypes
<1>6. /\ classify'[t] = new /\ \A q \in TierTasks : q # t => classify'[q] = classify[q]
      /\ classify' = [q \in TierTasks |-> classify'[q]]
  BY <1>1, <1>5
<1>7. LocalsSound'
  BY <1>4, <1>6, <1>5 DEF LocalsSound, LocalSound
<1>8. AskingNow(n)' = AskingNow(n) \ {t} /\ t \in AskingNow(n)
      /\ \A m \in Routers : m # n => AskingNow(m)' = AskingNow(m)
  BY <1>0, <1>1, <1>4, <1>6 DEF AskingNow
<1>9. tier_rows' \in [Routers -> Nat] /\ tier_rows'[n] = tier_rows[n] + 1
      /\ \A m \in Routers : m # n => tier_rows'[m] = tier_rows[m]
  BY <1>1, <1>3, <1>5 DEF TierTypes
<1>10. tier_rows' \in [Routers -> Nat] /\ died' \in [Routers -> Nat]
  BY <1>1, <1>5, <1>9 DEF TierTypes
<1>11. now' = now /\ router_calls' = router_calls /\ tier_posts' = tier_posts
  BY <1>1
<1>12. \/ tier_rows'[n] = tier_rows[n] + 1 /\ died'[n] = died[n]
       \/ tier_rows'[n] = tier_rows[n] /\ died'[n] = died[n] + 1
  BY <1>1, <1>9
<1>13. \A m \in Routers : m # n =>
         AskingNow(m)' = AskingNow(m) /\ tier_rows'[m] = tier_rows[m] /\ died'[m] = died[m]
  BY <1>1, <1>8, <1>9
<1> QED BY <1>3, <1>6, <1>7, <1>8, <1>10, <1>11, <1>12, <1>13, AnsweredKeeps

LEMMA ClassifyDiesKeeps ==
  ASSUME TierInv, NEW t \in TierTasks, ClassifyDies(t)
  PROVE  TierInv'
<1>0. PICK n : n = classify[t].by
  OBVIOUS
<1>1. /\ classify[t].pc = "asked" /\ classify' = [classify EXCEPT ![t] = TierIdle]
      /\ died' = [died EXCEPT ![n] = @ + 1]
      /\ now' = now /\ router_calls' = router_calls /\ tier_posts' = tier_posts
      /\ tier_rows' = tier_rows
  BY <1>0 DEF ClassifyDies
<1>2. AskedSound(classify[t])
  BY <1>1 DEF TierInv, LocalsSound, LocalSound, TierIdle
<1>3. n \in Routers
  BY <1>0, <1>2 DEF AskedSound
<1>5. classify = [q \in TierTasks |-> classify[q]] /\ LocalsSound /\ TierTypes
  BY DEF TierInv, TierTypes
<1>6. /\ classify'[t] = TierIdle /\ \A q \in TierTasks : q # t => classify'[q] = classify[q]
      /\ classify' = [q \in TierTasks |-> classify'[q]]
  BY <1>1, <1>5
<1>7. LocalsSound'
  BY <1>6, <1>5 DEF LocalsSound, LocalSound
<1>8. AskingNow(n)' = AskingNow(n) \ {t} /\ t \in AskingNow(n)
      /\ \A m \in Routers : m # n => AskingNow(m)' = AskingNow(m)
  BY <1>0, <1>1, <1>6 DEF AskingNow, TierIdle
<1>9. died' \in [Routers -> Nat] /\ died'[n] = died[n] + 1
      /\ \A m \in Routers : m # n => died'[m] = died[m]
  BY <1>1, <1>3, <1>5 DEF TierTypes
<1>10. tier_rows' \in [Routers -> Nat] /\ died' \in [Routers -> Nat]
  BY <1>1, <1>5, <1>9 DEF TierTypes
<1>11. now' = now /\ router_calls' = router_calls /\ tier_posts' = tier_posts
  BY <1>1
<1>12. \/ tier_rows'[n] = tier_rows[n] + 1 /\ died'[n] = died[n]
       \/ tier_rows'[n] = tier_rows[n] /\ died'[n] = died[n] + 1
  BY <1>1, <1>9
<1>13. \A m \in Routers : m # n =>
         AskingNow(m)' = AskingNow(m) /\ tier_rows'[m] = tier_rows[m] /\ died'[m] = died[m]
  BY <1>1, <1>8, <1>9
<1> QED BY <1>3, <1>6, <1>7, <1>8, <1>10, <1>11, <1>12, <1>13, AnsweredKeeps

(* A row, and the next router.                                             *)
LEMMA RouterFailsKeeps ==
  ASSUME TierInv, NEW t \in TierTasks, RouterFails(t)
  PROVE  TierInv'
<1>0. PICK n, c : n = classify[t].by /\ c = classify[t]
  OBVIOUS
<1>1. /\ c.pc = "asked" /\ AskNext(t, c, c.left) /\ tier_rows' = [tier_rows EXCEPT ![n] = @ + 1]
      /\ now' = now /\ died' = died
  BY <1>0 DEF RouterFails, LogRow
<1>2. AskedSound(c)
  BY <1>0, <1>1 DEF TierInv, LocalsSound, LocalSound, TierIdle
<1>3. n \in Routers /\ c.size \in Sizes /\ c.size # "above 8000" /\ Apart(c.asked, c.left)
  BY <1>0, <1>2 DEF AskedSound
<1>4. /\ tier_posts' \in Seq(TierPosts) /\ router_calls' \in [Routers -> Seq(Int)]
      /\ TierWindow' /\ TierLimits' /\ LocalsSound'
      /\ classify' = [q \in TierTasks |-> classify'[q]]
      /\ \A q \in TierTasks : q # t => classify'[q] = classify[q]
  BY <1>1, <1>3, AskNextKeeps
<1>5. \/ classify'[t].pc = "decided" /\ tier_posts' = tier_posts
      \/ \E k \in Routers :
           /\ classify'[t].pc = "asked" /\ classify'[t].by = k
           /\ Cardinality(PostsOf(k)') = Cardinality(PostsOf(k)) + 1
           /\ \A m \in Routers : m # k => PostsOf(m)' = PostsOf(m)
  BY <1>1, <1>3, AskNextKeeps
<1>6. tier_rows' \in [Routers -> Nat] /\ tier_rows'[n] = tier_rows[n] + 1
      /\ \A m \in Routers : m # n => tier_rows'[m] = tier_rows[m]
  <2>1. tier_rows \in [Routers -> Nat]
    BY DEF TierInv, TierTypes
  <2>2. ASSUME NEW rows \in [Routers -> Nat], NEW k \in Routers
        PROVE  /\ [rows EXCEPT ![k] = @ + 1] \in [Routers -> Nat]
               /\ [rows EXCEPT ![k] = @ + 1][k] = rows[k] + 1
               /\ \A m \in Routers : m # k => [rows EXCEPT ![k] = @ + 1][m] = rows[m]
    <3>1. rows[k] + 1 \in Nat
      OBVIOUS
    <3> QED BY <3>1
  <2>3. tier_rows' = [tier_rows EXCEPT ![n] = @ + 1]
    BY <1>1
  <2> QED BY <2>1, <2>2, <2>3, <1>3
<1>7. ASSUME NEW m \in Routers
      PROVE  tier_rows'[m] + died[m] + Cardinality(AskingNow(m)') = Cardinality(PostsOf(m)')
  <2> DEFINE others == AskingNow(m) \ {t}
  <2>1. tier_rows[m] + died[m] + Cardinality(AskingNow(m)) = Cardinality(PostsOf(m))
    BY DEF TierInv, TierRowsCounted
  <2>2. /\ tier_rows[m] \in Nat /\ died[m] \in Nat
        /\ IsFiniteSet(AskingNow(m)) /\ Cardinality(AskingNow(m)) \in Nat
        /\ Cardinality(PostsOf(m)) \in Nat
    BY AskingFinite, PostsFinite DEF TierInv, TierTypes
  <2>3. /\ t \in AskingNow(m) <=> m = n
        /\ IsFiniteSet(others) /\ Cardinality(others) \in Nat /\ t \notin others
    <3>1. t \in AskingNow(m) <=> m = n
      BY <1>0, <1>1 DEF AskingNow
    <3>2. others \subseteq AskingNow(m)
      OBVIOUS
    <3> QED BY <3>1, <3>2, <2>2, FS_Subset, FS_CardinalityType
  <2>4. tier_rows'[m] + died[m] + Cardinality(others) = Cardinality(PostsOf(m))
    <3>1. CASE m = n
      <4>1. Cardinality(AskingNow(m)) = Cardinality(others) + 1
        BY <3>1, <2>2, <2>3, FS_RemoveElement
      <4> HIDE DEF others
      <4> QED BY <3>1, <4>1, <1>6, <2>1, <2>2, <2>3
    <3>2. CASE m # n
      <4>1. others = AskingNow(m)
        BY <3>2, <2>3
      <4> QED BY <3>2, <4>1, <1>6, <2>1
    <3> QED BY <3>1, <3>2
  <2>5. AskingNow(m)' = IF classify'[t].pc = "asked" /\ classify'[t].by = m
                        THEN others \union {t} ELSE others
    BY <1>4 DEF AskingNow
  <2>6. CASE classify'[t].pc = "decided" /\ tier_posts' = tier_posts
    <3>1. AskingNow(m)' = others /\ PostsOf(m)' = PostsOf(m)
      BY <2>5, <2>6 DEF PostsOf
    <3> QED BY <3>1, <2>4
  <2>7. ASSUME NEW k \in Routers, classify'[t].pc = "asked", classify'[t].by = k,
               Cardinality(PostsOf(k)') = Cardinality(PostsOf(k)) + 1,
               \A j \in Routers : j # k => PostsOf(j)' = PostsOf(j)
        PROVE  tier_rows'[m] + died[m] + Cardinality(AskingNow(m)') = Cardinality(PostsOf(m)')
    <3>1. CASE m = k
      <4>1. AskingNow(m)' = others \union {t}
        BY <2>5, <2>7, <3>1
      <4>2. Cardinality(AskingNow(m)') = Cardinality(others) + 1
        BY <4>1, <2>3, FS_AddElement
      <4>3. tier_rows'[m] \in Nat
        BY <1>6
      <4> HIDE DEF others
      <4> QED BY <3>1, <4>2, <4>3, <2>2, <2>3, <2>4, <2>7
    <3>2. CASE m # k
      <4>1. AskingNow(m)' = others /\ PostsOf(m)' = PostsOf(m)
        BY <2>5, <2>7, <3>2
      <4> QED BY <4>1, <2>4
    <3> QED BY <3>1, <3>2
  <2> QED BY <2>6, <2>7, <1>5
<1>8. TierRowsCounted'
  BY <1>7, <1>1 DEF TierRowsCounted
<1>9. TierTypes'
  BY <1>1, <1>4, <1>6 DEF TierInv, TierTypes
<1> QED BY <1>4, <1>8, <1>9 DEF TierInv

LEMMA RoutedKeeps ==
  ASSUME TierInv, NEW t \in TierTasks, Routed(t)
  PROVE  TierInv'
<1>1. /\ classify[t].pc = "decided" /\ classify' = [classify EXCEPT ![t] = TierIdle]
      /\ now' = now /\ router_calls' = router_calls /\ tier_posts' = tier_posts
      /\ tier_rows' = tier_rows /\ died' = died
  BY DEF Routed
<1>2. classify = [q \in TierTasks |-> classify[q]] /\ LocalsSound
  BY DEF TierInv, TierTypes
<1>3. /\ classify'[t] = TierIdle /\ \A q \in TierTasks : q # t => classify'[q] = classify[q]
      /\ classify' = [q \in TierTasks |-> classify'[q]]
  BY <1>1, <1>2
<1>4. LocalsSound'
  BY <1>2, <1>3 DEF LocalsSound, LocalSound
<1>5. \A n : AskingNow(n)' = AskingNow(n)
  BY <1>1, <1>3 DEF AskingNow, TierIdle
<1> QED BY <1>1, <1>3, <1>4, <1>5, QuietKeeps

LEMMA TierPassesKeeps ==
  ASSUME TierInv, Passes, UNCHANGED tier_vars
  PROVE  TierInv'
<1>1. /\ now' = now + 1 /\ router_calls' = router_calls /\ classify' = classify
      /\ tier_rows' = tier_rows /\ tier_posts' = tier_posts /\ died' = died
      /\ now \in Nat /\ TierMinute \in Nat
  BY TierAssumption DEF Passes, tier_vars, TierInv, TierTypes
<1>2. TierTypes'
  BY <1>1 DEF TierInv, TierTypes
<1>3. TierWindow'
  <2>1. ASSUME NEW n \in Routers, NEW c \in Int, c >= now' - TierMinute
        PROVE  Cardinality(Recorded(n, c)) = Cardinality(Young(router_calls[n], c))
    <3>1. c >= now - TierMinute
      BY <2>1, <1>1
    <3> QED BY <3>1 DEF TierInv, TierWindow
  <2>2. \A n, c : Recorded(n, c)' = Recorded(n, c)
    BY <1>1 DEF Recorded
  <2> QED BY <2>1, <2>2, <1>1 DEF TierWindow
<1>4. TierLimits'
  BY <1>1 DEF TierInv, TierLimits
<1>5. \A n : AskingNow(n)' = AskingNow(n) /\ PostsOf(n)' = PostsOf(n)
  BY <1>1 DEF AskingNow, PostsOf
<1>6. TierRowsCounted'
  BY <1>1, <1>5 DEF TierInv, TierRowsCounted
<1>7. LocalsSound'
  BY <1>1 DEF TierInv, LocalsSound
<1> QED BY <1>2, <1>3, <1>4, <1>6, <1>7 DEF TierInv

LEMMA NextTier == TierInv /\ [TierNext]_<<now, tier_vars>> => TierInv'
<1> SUFFICES ASSUME TierInv, [TierNext]_<<now, tier_vars>> PROVE TierInv'
  OBVIOUS
<1>1. ASSUME NEW t \in TierTasks, NEW size \in Sizes, ClassifyBegins(t, size) PROVE TierInv'
  BY <1>1, ClassifyBeginsKeeps
<1>2. ASSUME NEW t \in TierTasks, NEW said \in {"TINY", "LARGE", "HUGE"}, RouterSays(t, said)
      PROVE  TierInv'
  BY <1>2, RouterSaysKeeps
<1>3. ASSUME NEW t \in TierTasks, RouterFails(t) PROVE TierInv'
  BY <1>3, RouterFailsKeeps
<1>4. ASSUME NEW t \in TierTasks, ClassifyDies(t) PROVE TierInv'
  BY <1>4, ClassifyDiesKeeps
<1>5. ASSUME NEW t \in TierTasks, Routed(t) PROVE TierInv'
  BY <1>5, RoutedKeeps
<1>6. CASE Passes /\ UNCHANGED tier_vars
  BY <1>6, TierPassesKeeps
<1>7. CASE UNCHANGED <<now, tier_vars>>
  <2>1. \A n : AskingNow(n)' = AskingNow(n)
    BY <1>7 DEF tier_vars, AskingNow
  <2> QED BY <1>7, <2>1, QuietKeeps DEF tier_vars, TierInv, TierTypes, LocalsSound
<1> QED BY <1>1, <1>2, <1>3, <1>4, <1>5, <1>6, <1>7 DEF TierNext

(* The classification of a prompt is honest about who gave it: HUGE is     *)
(* what the count says and nothing else, no router is asked twice for one  *)
(* request or beyond its limit by all, and each call has its row.          *)
THEOREM TiersAreHonest == TierSpec => []TierHonest
<1>1. TierInv => TierHonest
  <2> SUFFICES ASSUME TierInv PROVE TierHonest
    OBVIOUS
  <2>1. ASSUME NEW t \in TierTasks, classify[t].pc = "decided" PROVE DecidedSound(classify[t])
    BY <2>1 DEF TierInv, LocalsSound, LocalSound, TierIdle
  <2>2. DOMAIN tier_posts = 1..Len(tier_posts)
    BY DEF TierInv, TierTypes
  <2>3. TierLimits /\ TierRowsCounted
    BY DEF TierInv
  <2> QED BY <2>1, <2>2, <2>3 DEF TierHonest, DecidedSound, TierLimits, TierRowsCounted, PostsOf, AskingNow
<1> QED BY <1>1, InitTier, NextTier, PTL DEF TierSpec
-------------------------------------------------------------------------------
(***************************************************************************)
(* ToolDialogue: conversations of any length, with any tools.              *)
(*                                                                         *)
(* Each result belongs to the turn before it, from which only results      *)
(* separate it, and has the id of one of its calls (AnswersTurn).  The     *)
(* translation drops at most the first message, when that is the system's, *)
(* so that places shift by one at most (TranslationShifts) and what is a   *)
(* turn with its results in the dialogue is one for the vendor.            *)
(***************************************************************************)
Call == [id : Nat, name : ToolNames, signed : BOOLEAN]
CallsById == {calls \in Seq(Call) : \A k \in DOMAIN calls : calls[k].id = k}

Message ==
  [role : {"system", "user"}] \union [role : {"assistant"}, calls : CallsById]
  \union [role : {"tool"}, id : Nat, name : ToolNames \union {NoToolName}]

AnswersTurn(d, c, i) ==
  /\ d[c].role = "assistant" /\ \A m \in (c + 1)..i : d[m].role = "tool"
  /\ d[i].id \in DOMAIN d[c].calls
  /\ client.names => d[i].name = d[c].calls[d[i].id].name

MessageSound(d, i) ==
  /\ d[i].role = "system" => i = 1
  /\ d[i].role = "tool" => \E c \in 1..(i - 1) : AnswersTurn(d, c, i)

DialogueSound ==
  /\ dialogue \in Seq(Message)
  /\ \A i \in 1..Len(dialogue) : MessageSound(dialogue, i)
  /\ \/ request = NoRequest
     \/ \E f \in Families : request = [family |-> f, out |-> Translation(f)]

(* What a message has, by its role.                                        *)
LEMMA MessageKinds ==
  ASSUME NEW m \in Message
  PROVE  /\ m.role \in {"system", "user", "assistant", "tool"}
         /\ m.role = "assistant" =>
              m.calls \in Seq(Call) /\ \A k \in DOMAIN m.calls : m.calls[k].id = k
         /\ m.role = "tool" => m.id \in Nat
<1>1. CASE m \in [role : {"system", "user"}]
  <2>1. m.role = "system" \/ m.role = "user"
    BY <1>1
  <2> QED BY <2>1
<1>2. CASE m \in [role : {"assistant"}, calls : CallsById]
  <2>1. m.role = "assistant" /\ m.calls \in CallsById
    BY <1>2
  <2> QED BY <2>1 DEF CallsById
<1>3. CASE m \in [role : {"tool"}, id : Nat, name : ToolNames \union {NoToolName}]
  <2>1. m.role = "tool" /\ m.id \in Nat
    BY <1>3
  <2> QED BY <2>1
<1> QED BY <1>1, <1>2, <1>3 DEF Message

(* What each family makes of a message: nothing, of some system texts, or  *)
(* one item.                                                               *)
Dropped(family, i) ==
  dialogue[i].role = "system" /\ (client.blocks \/ family \in {"gemini", "prompted"})

MarksOf(family, i) ==
  LET m == dialogue[i]
  IN  CASE m.role \in {"system", "user"} -> << >>
        [] m.role = "tool" ->
             (CASE family = "openai" -> <<m.id>>
                [] family = "gemini" -> <<[name |-> m.name, signed |-> FALSE]>>
                [] family = "ollama" -> << >>
                [] family = "prompted" -> <<m.id>>)
        [] m.role = "assistant" ->
             (CASE family = "openai" -> CallIds(m)
                [] family = "gemini" ->
                     [k \in DOMAIN m.calls |-> [name |-> m.calls[k].name, signed |-> m.calls[k].signed]]
                [] family \in {"ollama", "prompted"} -> CallNames(m))

LEMMA ItemOfMessage ==
  ASSUME NEW family \in Families, NEW i, dialogue[i] \in Message
  PROVE  /\ Dropped(family, i) => ItemFor(family, i) = << >>
         /\ ~Dropped(family, i) =>
              \E e : /\ ItemFor(family, i) = <<e>>
                     /\ e.src = i /\ e.marks = MarksOf(family, i)
<1>1. dialogue[i].role \in {"system", "user", "assistant", "tool"}
  BY MessageKinds
<1>2. \A role, marks : /\ Item(i, role, marks) = <<[src |-> i, role |-> role, marks |-> marks]>>
                       /\ [src |-> i, role |-> role, marks |-> marks].src = i
                       /\ [src |-> i, role |-> role, marks |-> marks].marks = marks
  BY DEF Item
<1>3. family \in {"openai", "gemini", "ollama", "prompted"}
  BY DEF Families
<1>4. ASSUME NEW role, NEW marks, ItemFor(family, i) = Item(i, role, marks), marks = MarksOf(family, i)
      PROVE  \E e : /\ ItemFor(family, i) = <<e>>
                    /\ e.src = i /\ e.marks = MarksOf(family, i)
  <2> DEFINE e == [src |-> i, role |-> role, marks |-> marks]
  <2>1. Item(i, role, marks) = <<e>> /\ e.src = i /\ e.marks = marks
    BY <1>2
  <2> HIDE DEF e
  <2> QED BY <1>4, <2>1
<1>5. CASE dialogue[i].role = "system"
  <2>1. CASE Dropped(family, i)
    BY <1>3, <1>5, <2>1 DEF Dropped, ItemFor, OpenAIItem, GeminiItem, OllamaItem, InlineSystem
  <2>2. CASE ~Dropped(family, i)
    <3>1. ItemFor(family, i) = Item(i, "system", << >>)
      BY <1>3, <1>5, <2>2 DEF Dropped, ItemFor, OpenAIItem, GeminiItem, OllamaItem, InlineSystem
    <3>2. MarksOf(family, i) = << >>
      BY <1>5 DEF MarksOf
    <3> QED BY <1>4, <2>2, <3>1, <3>2
  <2> QED BY <2>1, <2>2
<1>6. CASE dialogue[i].role = "user"
  <2>1. ItemFor(family, i) = Item(i, "user", << >>)
    BY <1>3, <1>6 DEF ItemFor, OpenAIItem, GeminiItem, OllamaItem
  <2>2. MarksOf(family, i) = << >> /\ ~Dropped(family, i)
    BY <1>6 DEF MarksOf, Dropped
  <2> QED BY <1>4, <2>1, <2>2
<1>7. CASE dialogue[i].role = "tool"
  <2>1. \E role : ItemFor(family, i) = Item(i, role, MarksOf(family, i))
    <3>1. CASE family = "openai"
      <4>1. MarksOf(family, i) = <<dialogue[i].id>>
        BY <1>7, <3>1 DEF MarksOf
      <4>2. ItemFor(family, i) = Item(i, "tool", <<dialogue[i].id>>)
        BY <1>7, <3>1 DEF ItemFor, OpenAIItem
      <4> QED BY <4>1, <4>2
    <3>2. CASE family = "gemini"
      <4>1. MarksOf(family, i) = <<[name |-> dialogue[i].name, signed |-> FALSE]>>
        BY <1>7, <3>2 DEF MarksOf
      <4>2. ItemFor(family, i) = Item(i, "user", <<[name |-> dialogue[i].name, signed |-> FALSE]>>)
        BY <1>7, <3>2 DEF ItemFor, GeminiItem
      <4> QED BY <4>1, <4>2
    <3>3. CASE family = "ollama"
      <4>1. MarksOf(family, i) = << >>
        BY <1>7, <3>3 DEF MarksOf
      <4>2. ItemFor(family, i) = Item(i, "tool", << >>)
        BY <1>7, <3>3 DEF ItemFor, OllamaItem
      <4> QED BY <4>1, <4>2
    <3>4. CASE family = "prompted"
      <4>1. MarksOf(family, i) = <<dialogue[i].id>>
        BY <1>7, <3>4 DEF MarksOf
      <4>2. ItemFor(family, i) = Item(i, "user", <<dialogue[i].id>>)
        BY <1>7, <3>4 DEF ItemFor, OllamaItem
      <4> QED BY <4>1, <4>2
    <3> QED BY <1>3, <3>1, <3>2, <3>3, <3>4
  <2>2. ~Dropped(family, i)
    BY <1>7 DEF Dropped
  <2> QED BY <1>4, <2>1, <2>2
<1>8. CASE dialogue[i].role = "assistant"
  <2>1. \E role : ItemFor(family, i) = Item(i, role, MarksOf(family, i))
    <3>1. CASE family = "openai"
      <4>1. MarksOf(family, i) = CallIds(dialogue[i])
        BY <1>8, <3>1 DEF MarksOf
      <4>2. ItemFor(family, i) = Item(i, "assistant", CallIds(dialogue[i]))
        BY <1>8, <3>1 DEF ItemFor, OpenAIItem
      <4> QED BY <4>1, <4>2
    <3>2. CASE family = "gemini"
      <4> DEFINE signed == [k \in DOMAIN dialogue[i].calls |->
                              [name |-> dialogue[i].calls[k].name, signed |-> dialogue[i].calls[k].signed]]
      <4>1. MarksOf(family, i) = signed
        BY <1>8, <3>2 DEF MarksOf
      <4>2. ItemFor(family, i) = Item(i, "model", signed)
        BY <1>8, <3>2 DEF ItemFor, GeminiItem
      <4> QED BY <4>1, <4>2
    <3>3. CASE family \in {"ollama", "prompted"}
      <4>1. MarksOf(family, i) = CallNames(dialogue[i])
        BY <1>8, <3>3 DEF MarksOf
      <4>2. ItemFor(family, i) = Item(i, "assistant", CallNames(dialogue[i]))
        BY <1>8, <3>3 DEF ItemFor, OllamaItem
      <4> QED BY <4>1, <4>2
    <3> QED BY <1>3, <3>1, <3>2, <3>3
  <2>2. ~Dropped(family, i)
    BY <1>8 DEF Dropped
  <2> QED BY <1>4, <2>1, <2>2
<1> QED BY <1>1, <1>5, <1>6, <1>7, <1>8

(* The loop over the messages, as a function of how far it came.           *)
LEMMA TranslationLoops ==
  ASSUME NEW family, Len(dialogue) \in Nat
  PROVE  \E f : /\ f = [i \in 0..Len(dialogue) |->
                          IF i = 0 THEN << >> ELSE f[i - 1] \o ItemFor(family, i)]
                /\ Translation(family) = f[Len(dialogue)]
<1> DEFINE Turn(i, e) == IF i = 0 THEN << >> ELSE e \o ItemFor(family, i)
           Is(f, n) == f = [i \in 0..n |-> Turn(i, f[i - 1])]
           g == CHOOSE f : Is(f, Len(dialogue))
<1>1. Translation(family) = g[Len(dialogue)]
  BY DEF Translation
<1>2. \A n \in Nat : \E f : Is(f, n)
  <2> DEFINE S == {n \in Nat : ~\E f : Is(f, n)}
  <2>1. SUFFICES ASSUME S # {} PROVE FALSE
    OBVIOUS
  <2>2. PICK n \in S : \A m \in S : n <= m
    <3>1. S \subseteq Nat
      OBVIOUS
    <3> HIDE DEF S
    <3> QED BY <2>1, <3>1, LeastElement
  <2>3. \A e, d : Turn(0, e) = Turn(0, d)
    OBVIOUS
  <2> HIDE DEF Turn
  <2>4. n # 0
    <3> DEFINE f0 == [i \in 0..0 |-> Turn(0, 0)]
    <3>1. f0 = [i \in 0..0 |-> Turn(i, f0[i - 1])]
      BY <2>3
    <3> QED BY <2>2, <3>1
  <2>5. PICK f : Is(f, n - 1)
    BY <2>2, <2>4
  <2> DEFINE h == [i \in 0..n |-> IF i = n THEN Turn(n, f[n - 1]) ELSE f[i]]
  <2>6. Is(h, n)
    <3>1. ASSUME NEW i \in 0..n PROVE h[i] = Turn(i, h[i - 1])
      <4>1. CASE i = n
        BY <4>1, <2>2, <2>4
      <4>2. CASE i # n /\ i # 0
        <5>1. i \in 0..(n - 1) /\ i - 1 \in 0..(n - 1) /\ i - 1 # n
          BY <4>2, <2>2, <2>4
        <5>2. f[i] = Turn(i, f[i - 1])
          BY <5>1, <2>5
        <5>3. h[i] = f[i] /\ h[i - 1] = f[i - 1]
          BY <5>1, <4>2, <2>2
        <5> QED BY <5>2, <5>3
      <4>3. CASE i # n /\ i = 0
        <5>1. 0 \in 0..(n - 1) /\ i = 0
          BY <4>3, <2>2, <2>4
        <5>2. f[0] = Turn(0, f[0 - 1]) /\ h[0] = f[0]
          BY <5>1, <4>3, <2>5
        <5> QED BY <2>3, <5>1, <5>2
      <4> QED BY <4>1, <4>2, <4>3
    <3> QED BY <3>1
  <2> QED BY <2>2, <2>6
<1>3. Is(g, Len(dialogue))
  BY <1>2
<1> HIDE DEF g
<1> QED BY <1>1, <1>3

(* A sequence with one element more, as a function.                        *)
LEMMA OneAppended ==
  ASSUME NEW T, NEW s \in Seq(T), NEW e \in T, NEW k \in Nat, Len(s) = k
  PROVE  s \o <<e>> = [j \in 1..(k + 1) |-> IF j = k + 1 THEN e ELSE s[j]]
<1>1. <<e>> \in Seq(T) /\ Len(<<e>>) = 1 /\ <<e>>[1] = e
  OBVIOUS
<1>2. /\ s \o <<e>> \in Seq(T) /\ Len(s \o <<e>>) = k + 1
      /\ \A j \in 1..(k + 1) : (s \o <<e>>)[j] = IF j = k + 1 THEN e ELSE s[j]
  BY <1>1
<1>3. DOMAIN (s \o <<e>>) = 1..(k + 1)
  BY <1>2
<1>4. s \o <<e>> = [j \in DOMAIN (s \o <<e>>) |-> (s \o <<e>>)[j]]
  BY <1>2
<1> QED BY <1>2, <1>3, <1>4

(* At most the first message is dropped, and each other has one item.      *)
LEMMA TranslationShifts ==
  ASSUME NEW family \in Families, dialogue \in Seq(Message),
         \A i \in 1..Len(dialogue) : dialogue[i].role = "system" => i = 1
  PROVE  \E shift \in {0, 1} :
           /\ shift = 1 => Len(dialogue) > 0 /\ Dropped(family, 1)
           /\ Len(Translation(family)) = Len(dialogue) - shift
           /\ DOMAIN Translation(family) = 1..(Len(dialogue) - shift)
           /\ \A j \in 1..(Len(dialogue) - shift) :
                /\ Translation(family)[j].src = j + shift
                /\ Translation(family)[j].marks = MarksOf(family, j + shift)
<1> DEFINE n == Len(dialogue)
           shift == IF n > 0 /\ Dropped(family, 1) THEN 1 ELSE 0
           X(i) == ItemFor(family, i)[1]
           G(i) == ItemFor(family, i)
<1>1. n \in Nat /\ shift \in {0, 1}
  OBVIOUS
<1>2. ASSUME NEW i \in 1..n
      PROVE  /\ i <= shift => G(i) = << >>
             /\ i > shift => G(i) = <<X(i)>> /\ X(i).src = i /\ X(i).marks = MarksOf(family, i)
  <2>1. dialogue[i] \in Message
    OBVIOUS
  <2>2. i <= shift <=> Dropped(family, i)
    BY DEF Dropped
  <2>3. CASE Dropped(family, i)
    BY <2>1, <2>2, <2>3, ItemOfMessage
  <2>4. CASE ~Dropped(family, i)
    <3>1. PICK e : ItemFor(family, i) = <<e>> /\ e.src = i /\ e.marks = MarksOf(family, i)
      BY <2>1, <2>4, ItemOfMessage
    <3>2. X(i) = e
      BY <3>1
    <3>3. ~(i <= shift)
      BY <2>2, <2>4
    <3> QED BY <3>1, <3>2, <3>3
  <2> QED BY <2>3, <2>4
<1>3. PICK f : /\ f = [i \in 0..n |-> IF i = 0 THEN << >> ELSE f[i - 1] \o G(i)]
               /\ Translation(family) = f[n]
  BY <1>1, TranslationLoops
<1>4. shift <= n
  OBVIOUS
<1> HIDE DEF n, shift, G, X
<1> DEFINE Shifted(i) == [j \in 1..(i - shift) |-> X(j + shift)]
           S == {i \in 0..n : f[i] # Shifted(i)}
<1>5. S = {}
  <2> SUFFICES ASSUME S # {} PROVE FALSE
    OBVIOUS
  <2>1. PICK i \in S : \A m \in S : i <= m
    <3>1. S \subseteq Nat
      BY <1>1
    <3> HIDE DEF S
    <3> QED BY <3>1, LeastElement
  <2>2. i \in 0..n /\ f[i] # Shifted(i)
    OBVIOUS
  <2>3. i # 0
    <3> SUFFICES ASSUME i = 0 PROVE FALSE
      OBVIOUS
    <3>1. f[0] = << >>
      BY <1>1, <1>3
    <3>2. 1..(0 - shift) = {}
      BY <1>1
    <3>3. Shifted(0) = << >>
      BY <3>2
    <3> QED BY <2>2, <3>1, <3>3
  <2>4. i \in 1..n /\ i - 1 \in 0..n /\ i - 1 \notin S
    BY <2>1, <2>2, <2>3, <1>1
  <2>5. f[i - 1] = Shifted(i - 1)
    BY <2>4
  <2>6. f[i] = f[i - 1] \o G(i)
    BY <1>3, <2>2, <2>3
  <2>7. CASE i <= shift
    <3>1. i = 1 /\ shift = 1
      BY <1>1, <2>4, <2>7
    <3>2. 1..(i - shift) = {} /\ 1..(i - 1 - shift) = {}
      BY <3>1
    <3>3. Shifted(i) = << >> /\ Shifted(i - 1) = << >>
      BY <3>2
    <3>4. f[i] = << >> \o << >>
      BY <1>2, <2>4, <2>5, <2>6, <2>7, <3>3
    <3> QED BY <2>2, <3>3, <3>4
  <2>8. CASE i > shift
    <3> DEFINE T == {X(j + shift) : j \in 1..(i - shift)}
    <3>1. i - 1 - shift \in Nat /\ i - shift \in Nat /\ i - shift = (i - 1 - shift) + 1
      BY <1>1, <2>4, <2>8
    <3>2. Shifted(i - 1) \in Seq(T) /\ Len(Shifted(i - 1)) = i - 1 - shift
      <4> DEFINE k == i - 1 - shift
      <4>1. k \in Nat /\ \A j \in 1..k : j \in 1..(i - shift)
        BY <3>1
      <4>2. \A j \in 1..k : X(j + shift) \in T
        BY <4>1
      <4>3. Shifted(i - 1) = [j \in 1..k |-> X(j + shift)]
        OBVIOUS
      <4> HIDE DEF k, T
      <4>4. [j \in 1..k |-> X(j + shift)] \in Seq(T) /\ Len([j \in 1..k |-> X(j + shift)]) = k
        BY <4>1, <4>2
      <4> QED BY <4>3, <4>4 DEF k
    <3>3. (i - shift) + shift = i /\ i - shift \in 1..(i - shift)
      BY <1>1, <2>4, <2>8
    <3>4. X(i) \in T
      BY <3>3
    <3>5. f[i] = Shifted(i - 1) \o <<X(i)>>
      BY <1>2, <2>4, <2>5, <2>6, <2>8
    <3>6. \A j \in 1..(i - 1 - shift) : Shifted(i - 1)[j] = X(j + shift)
      OBVIOUS
    <3>8. f[i] = [j \in 1..(i - shift) |-> IF j = i - shift THEN X(i) ELSE Shifted(i - 1)[j]]
      <4> DEFINE k == i - 1 - shift
      <4>1. k \in Nat /\ Len(Shifted(i - 1)) = k /\ k + 1 = i - shift
        BY <3>1, <3>2
      <4>2. Shifted(i - 1) \in Seq(T) /\ X(i) \in T /\ f[i] = Shifted(i - 1) \o <<X(i)>>
        BY <3>2, <3>4, <3>5
      <4>3. PICK sq, el : sq = Shifted(i - 1) /\ el = X(i)
        OBVIOUS
      <4> HIDE DEF T, Shifted, k
      <4>4. sq \in Seq(T) /\ el \in T /\ Len(sq) = k
        BY <4>1, <4>2, <4>3
      <4>5. sq \o <<el>> = [j \in 1..(k + 1) |-> IF j = k + 1 THEN el ELSE sq[j]]
        BY ONLY <4>1, <4>4, OneAppended
      <4>6. f[i] = sq \o <<el>>
        BY <4>2, <4>3
      <4>7. f[i] = [j \in 1..(i - shift) |-> IF j = i - shift THEN el ELSE sq[j]]
        BY ONLY <4>1, <4>5, <4>6
      <4> QED BY ONLY <4>3, <4>7
    <3>9. ASSUME NEW j \in 1..(i - shift)
          PROVE  (IF j = i - shift THEN X(i) ELSE Shifted(i - 1)[j]) = X(j + shift)
      <4>1. CASE j = i - shift
        BY <3>3, <4>1
      <4>2. CASE j # i - shift
        BY <3>1, <3>6, <4>2
      <4> QED BY <4>1, <4>2
    <3> HIDE DEF T
    <3>10. f[i] = Shifted(i)
      BY <3>8, <3>9
    <3> QED BY <2>2, <3>10
  <2> QED BY <1>1, <2>4, <2>7, <2>8
<1>6. Translation(family) = [j \in 1..(n - shift) |-> X(j + shift)]
  <2>1. n \in 0..n
    BY <1>1
  <2>2. f[n] = Shifted(n)
    BY <1>5, <2>1
  <2> QED BY <1>3, <2>2
<1>7. n - shift \in Nat
  BY <1>1, <1>4
<1>8. DOMAIN Translation(family) = 1..(n - shift) /\ Len(Translation(family)) = n - shift
  BY <1>6, <1>7
<1>9. ASSUME NEW j \in 1..(n - shift)
      PROVE  /\ Translation(family)[j].src = j + shift
             /\ Translation(family)[j].marks = MarksOf(family, j + shift)
  <2>1. j + shift \in 1..n /\ j + shift > shift
    BY <1>1, <1>4
  <2>2. Translation(family)[j] = X(j + shift)
    BY <1>6
  <2> QED BY <1>2, <2>1, <2>2
<1>10. shift = 1 => n > 0 /\ Dropped(family, 1)
  BY DEF shift
<1> QED BY <1>1, <1>8, <1>9, <1>10 DEF n

(* What was said stays as sound as it was while the dialogue grows.        *)
LEMMA MessagesStaySound ==
  ASSUME NEW d, NEW e, NEW i \in Nat, \A m \in 1..i : e[m] = d[m], i > 0, MessageSound(d, i)
  PROVE  MessageSound(e, i)
<1>1. e[i] = d[i]
  OBVIOUS
<1>2. ASSUME NEW c \in 1..(i - 1), AnswersTurn(d, c, i) PROVE AnswersTurn(e, c, i)
  <2>1. e[c] = d[c] /\ \A m \in (c + 1)..i : e[m] = d[m]
    OBVIOUS
  <2> QED BY <1>1, <1>2, <2>1 DEF AnswersTurn
<1> QED BY <1>1, <1>2 DEF MessageSound

LEMMA InitDialogue == DialogueInit => DialogueSound
<1> SUFFICES ASSUME DialogueInit PROVE DialogueSound
  OBVIOUS
<1>1. CASE dialogue = << >>
  BY <1>1 DEF DialogueInit, DialogueSound
<1>2. CASE dialogue = <<[role |-> "system"]>>
  <2>1. [role |-> "system"] \in Message
    BY DEF Message
  <2>2. dialogue \in Seq(Message) /\ Len(dialogue) = 1 /\ dialogue[1].role = "system"
    BY <1>2, <2>1
  <2>3. MessageSound(dialogue, 1)
    BY <2>2 DEF MessageSound
  <2> QED BY <2>2, <2>3 DEF DialogueInit, DialogueSound
<1> QED BY <1>1, <1>2 DEF DialogueInit

(* One more message, not of the system nor a result.                       *)
LEMMA OneMore ==
  ASSUME DialogueSound, NEW m \in Message, m.role \in {"user", "assistant"},
         dialogue' = Append(dialogue, m), request' = NoRequest, client' = client
  PROVE  DialogueSound'
<1>1. /\ dialogue' \in Seq(Message) /\ Len(dialogue) \in Nat /\ Len(dialogue') = Len(dialogue) + 1
      /\ dialogue'[Len(dialogue) + 1] = m /\ \A i \in 1..Len(dialogue) : dialogue'[i] = dialogue[i]
  BY Appended DEF DialogueSound
<1>2. ASSUME NEW i \in 1..Len(dialogue') PROVE MessageSound(dialogue, i)'
  <2>1. CASE i \in 1..Len(dialogue)
    <3>1. MessageSound(dialogue, i)
      BY <2>1 DEF DialogueSound
    <3>2. i \in Nat /\ i > 0 /\ \A k \in 1..i : dialogue'[k] = dialogue[k]
      BY <1>1, <2>1
    <3>3. MessageSound(dialogue', i)
      BY <3>1, <3>2, MessagesStaySound
    <3> QED BY <3>3 DEF MessageSound, AnswersTurn
  <2>2. CASE i = Len(dialogue) + 1
    BY <1>1, <2>2 DEF MessageSound
  <2> QED BY <1>1, <2>1, <2>2
<1> QED BY <1>1, <1>2 DEF DialogueSound, NoRequest

(* What vendors answer is calls with their places for ids.                 *)
LEMMA AnswersById ==
  ASSUME NEW family \in Families, NEW calls \in AnswersOf(family)
  PROVE  calls \in CallsById
<1>1. PICK most \in {1, 2}, signatures \in SUBSET BOOLEAN : calls \in CallLists(most, signatures)
  <2>1. family \in {"openai", "gemini", "ollama", "prompted"}
    BY DEF Families
  <2>2. calls \in CallLists(2, {FALSE}) \/ calls \in CallLists(2, BOOLEAN) \/ calls \in CallLists(1, {FALSE})
    BY <2>1 DEF AnswersOf, OpenAIAnswers, GeminiAnswers, OllamaAnswers, PromptedAnswers
  <2> QED BY <2>2
<1>2. PICK names \in UNION {[1..n -> ToolNames] : n \in 0..most}, s \in signatures :
        calls = [k \in DOMAIN names |-> [id |-> k, name |-> names[k], signed |-> s /\ k = 1]]
  BY <1>1 DEF CallLists
<1>3. PICK n \in 0..most : names \in [1..n -> ToolNames]
  BY <1>2
<1>4. n \in Nat /\ DOMAIN names = 1..n
  BY <1>1, <1>3
<1>5. ASSUME NEW k \in 1..n
      PROVE  [id |-> k, name |-> names[k], signed |-> s /\ k = 1] \in Call
  <2>1. k \in Nat /\ names[k] \in ToolNames /\ (s /\ k = 1) \in BOOLEAN
    BY <1>3, <1>4
  <2> QED BY <2>1 DEF Call
<1>6. calls = [k \in 1..n |-> [id |-> k, name |-> names[k], signed |-> s /\ k = 1]]
  BY <1>2, <1>4
<1>7. calls \in [1..n -> Call]
  BY <1>5, <1>6
<1>8. \A k \in DOMAIN calls : calls[k].id = k
  BY <1>6
<1>9. calls \in Seq(Call)
  BY <1>4, <1>7
<1> QED BY <1>8, <1>9 DEF CallsById

(* One sequence after another.                                             *)
LEMMA Joined ==
  ASSUME NEW S, NEW s \in Seq(S), NEW t \in Seq(S)
  PROVE  /\ s \o t \in Seq(S) /\ Len(s \o t) = Len(s) + Len(t)
         /\ \A i \in 1..Len(s) : (s \o t)[i] = s[i]
         /\ \A i \in 1..Len(t) : (s \o t)[Len(s) + i] = t[i]
OBVIOUS

(* The results of the last turn, in whatever order.                        *)
LEMMA Replied == ASSUME DialogueSound, ClientReplies PROVE DialogueSound'
<1> DEFINE n == Len(dialogue)
           calling == dialogue[n].calls
           Result(c) == [role |-> "tool", id |-> c.id,
                         name |-> IF client.names THEN c.name ELSE NoToolName]
<1>1. dialogue \in Seq(Message) /\ n \in Nat /\ client' = client /\ request' = NoRequest
  BY DEF DialogueSound, ClientReplies
<1>2. n \in 1..n /\ dialogue[n].role = "assistant" /\ Last(dialogue) = dialogue[n]
  <2>1. dialogue # << >> /\ Last(dialogue).role = "assistant"
    BY DEF ClientReplies, LastRole
  <2> QED BY <1>1, <2>1 DEF Last
<1>3. PICK order \in SetToSeqs(DOMAIN calling) :
        dialogue' = dialogue \o [k \in DOMAIN order |-> Result(calling[order[k]])]
  BY <1>2 DEF ClientReplies
<1>4. calling \in Seq(Call) /\ \A k \in DOMAIN calling : calling[k].id = k
  <2>1. dialogue[n] \in Message
    BY <1>1, <1>2
  <2> QED BY <1>2, <2>1, MessageKinds
<1>5. PICK size \in Nat : order \in [1..size -> DOMAIN calling]
  <2>1. DOMAIN calling = 1..Len(calling) /\ Len(calling) \in Nat
    BY <1>4
  <2>2. Cardinality(DOMAIN calling) \in Nat
    <3>1. IsFiniteSet(1..Len(calling))
      <4>1. Len(calling) \in Int /\ 1 \in Int
        BY <2>1
      <4> HIDE DEF calling
      <4> QED BY <4>1, FS_Interval
    <3> QED BY <2>1, <3>1, FS_CardinalityType
  <2> QED BY <2>2, <1>3 DEF SetToSeqs
<1> DEFINE results == [k \in 1..size |-> Result(calling[order[k]])]
<1>6. dialogue' = dialogue \o results
  BY <1>3, <1>5
<1>7. ASSUME NEW k \in 1..size
      PROVE  /\ order[k] \in DOMAIN calling /\ calling[order[k]].id = order[k]
             /\ Result(calling[order[k]]) \in Message
             /\ results[k].role = "tool" /\ results[k].id = order[k]
             /\ client.names => results[k].name = calling[order[k]].name
  <2>1. order[k] \in DOMAIN calling /\ calling[order[k]].id = order[k] /\ calling[order[k]] \in Call
    BY <1>4, <1>5
  <2>2. calling[order[k]].id \in Nat /\ calling[order[k]].name \in ToolNames
    BY <2>1 DEF Call
  <2> HIDE DEF calling
  <2>3. (IF client.names THEN calling[order[k]].name ELSE NoToolName) \in ToolNames \union {NoToolName}
    BY <2>2
  <2>4. Result(calling[order[k]]) \in Message
    BY <2>2, <2>3 DEF Message
  <2>5. results[k] = Result(calling[order[k]])
    OBVIOUS
  <2>6. /\ Result(calling[order[k]]).role = "tool" /\ Result(calling[order[k]]).id = calling[order[k]].id
        /\ client.names => Result(calling[order[k]]).name = calling[order[k]].name
    OBVIOUS
  <2> HIDE DEF results, Result
  <2> QED BY <2>1, <2>4, <2>5, <2>6
<1>8. results \in Seq(Message) /\ Len(results) = size
  BY <1>7
<1> HIDE DEF results, Result
<1>9. /\ dialogue' \in Seq(Message) /\ Len(dialogue') = n + size
      /\ \A i \in 1..n : dialogue'[i] = dialogue[i]
      /\ \A k \in 1..size : dialogue'[n + k] = results[k]
  <2>1. dialogue \in Seq(Message) /\ Len(dialogue) = n /\ n \in Nat /\ size \in Nat
    BY <1>1
  <2>2. /\ dialogue \o results \in Seq(Message) /\ Len(dialogue \o results) = n + size
        /\ \A i \in 1..n : (dialogue \o results)[i] = dialogue[i]
        /\ \A k \in 1..size : (dialogue \o results)[n + k] = results[k]
    <3> HIDE DEF n
    <3>1. /\ dialogue \o results \in Seq(Message)
          /\ Len(dialogue \o results) = Len(dialogue) + Len(results)
          /\ \A i \in 1..Len(dialogue) : (dialogue \o results)[i] = dialogue[i]
          /\ \A k \in 1..Len(results) : (dialogue \o results)[Len(dialogue) + k] = results[k]
      <4>1. results \in Seq(Message) /\ dialogue \in Seq(Message)
        BY <1>8, <2>1
      <4> HIDE DEF calling
      <4> QED BY ONLY <4>1, Joined
    <3> QED BY <1>8, <2>1, <3>1
  <2> QED BY <1>6, <2>2
<1>10. ASSUME NEW i \in 1..Len(dialogue') PROVE MessageSound(dialogue', i)
  <2>1. CASE i \in 1..n
    <3>1. MessageSound(dialogue, i)
      BY <2>1 DEF DialogueSound
    <3>2. i \in Nat /\ i > 0 /\ \A m \in 1..i : dialogue'[m] = dialogue[m]
      BY <1>1, <1>9, <2>1
    <3> QED BY <3>1, <3>2, MessagesStaySound
  <2>2. CASE i \notin 1..n
    <3>1. i - n \in 1..size /\ n + (i - n) = i /\ n \in 1..(i - 1)
      BY <1>1, <1>2, <1>9, <2>2
    <3>2. dialogue'[i] = results[i - n] /\ dialogue'[n] = dialogue[n]
      BY <1>2, <1>9, <3>1
    <3>3. ASSUME NEW m \in (n + 1)..i PROVE dialogue'[m].role = "tool"
      <4>1. m - n \in 1..size /\ n + (m - n) = m
        BY <1>1, <1>9
      <4>2. dialogue'[m] = results[m - n]
        BY <1>9, <4>1
      <4> QED BY <1>7, <4>1, <4>2
    <3>4. AnswersTurn(dialogue', n, i)
      <4>1. dialogue'[i].id = order[i - n] /\ order[i - n] \in DOMAIN calling
        BY <1>7, <3>1, <3>2
      <4>2. client.names => dialogue'[i].name = calling[order[i - n]].name
        BY <1>7, <3>1, <3>2
      <4> QED BY <1>2, <3>2, <3>3, <4>1, <4>2 DEF AnswersTurn
    <3>5. dialogue'[i].role = "tool"
      BY <1>7, <3>1, <3>2
    <3> QED BY <3>1, <3>4, <3>5 DEF MessageSound
  <2> QED BY <2>1, <2>2
<1>11. ASSUME NEW i \in 1..Len(dialogue') PROVE MessageSound(dialogue, i)'
  BY <1>1, <1>10 DEF MessageSound, AnswersTurn
<1> QED BY <1>1, <1>9, <1>11 DEF DialogueSound, NoRequest

LEMMA NextDialogue == DialogueSound /\ [DialogueNext]_dialogue_vars => DialogueSound'
<1> SUFFICES ASSUME DialogueSound, [DialogueNext]_dialogue_vars PROVE DialogueSound'
  OBVIOUS
<1>1. CASE UserSays
  <2> DEFINE m == [role |-> "user"]
  <2>1. m \in Message /\ m.role \in {"user", "assistant"}
    BY DEF Message
  <2>2. dialogue' = Append(dialogue, m) /\ request' = NoRequest /\ client' = client
    BY <1>1 DEF UserSays
  <2> QED BY <2>1, <2>2, OneMore
<1>2. CASE VendorAnswers
  <2>1. PICK f \in Families : request = [family |-> f, out |-> Translation(f)]
    BY <1>2 DEF VendorAnswers, DialogueSound
  <2>2. PICK calls \in AnswersOf(f) :
          dialogue' = Append(dialogue, [role |-> "assistant", calls |-> calls])
    BY <1>2, <2>1 DEF VendorAnswers
  <2> DEFINE m == [role |-> "assistant", calls |-> calls]
  <2>3. m \in Message /\ m.role \in {"user", "assistant"}
    BY AnswersById DEF Message
  <2>4. request' = NoRequest /\ client' = client
    BY <1>2 DEF VendorAnswers
  <2> QED BY <2>2, <2>3, <2>4, OneMore
<1>3. CASE ClientReplies
  BY <1>3, Replied
<1>4. CASE (\E f \in Families : Sends(f)) \/ UNCHANGED dialogue_vars
  <2>1. dialogue' = dialogue /\ client' = client
    BY <1>4 DEF Sends, dialogue_vars
  <2>2. \A f : Translation(f)' = Translation(f)
    BY <2>1 DEF Translation, ItemFor, OpenAIItem, GeminiItem, OllamaItem, InlineSystem, Item,
                CallIds, CallNames
  <2>3. \A i \in 1..Len(dialogue) : MessageSound(dialogue, i)'
    BY <2>1 DEF DialogueSound, MessageSound, AnswersTurn
  <2>4. \/ request' = NoRequest
        \/ \E f \in Families : request' = [family |-> f, out |-> Translation(f)]
    BY <1>4 DEF DialogueSound, Sends, dialogue_vars
  <2> QED BY <2>1, <2>2, <2>3, <2>4 DEF DialogueSound, NoRequest
<1> QED BY <1>1, <1>2, <1>3, <1>4 DEF DialogueNext

(* What the translation of a sound dialogue says, for one vendor.          *)
LEMMA SoundTranslation ==
  ASSUME DialogueSound, request.family \in Families, request.out = Translation(request.family)
  PROVE  ResultsFindTheirCalls
<1> DEFINE n == Len(dialogue)
           out == request.out
           family == request.family
<1>1. family \in Families /\ out = Translation(family)
  OBVIOUS
<1> HIDE DEF out, family
<1>2. dialogue \in Seq(Message) /\ n \in Nat /\ DOMAIN dialogue = 1..n
  BY DEF DialogueSound
<1>3. \A i \in 1..n : dialogue[i].role = "system" => i = 1
  BY DEF DialogueSound, MessageSound
<1>4. PICK shift \in {0, 1} :
           /\ shift = 1 => n > 0 /\ Dropped(family, 1)
           /\ Len(out) = n - shift
           /\ DOMAIN out = 1..(n - shift)
           /\ \A j \in 1..(n - shift) : out[j].src = j + shift /\ out[j].marks = MarksOf(family, j + shift)
  BY <1>1, <1>2, <1>3, TranslationShifts
<1> HIDE DEF n
<1>5. ASSUME NEW j \in DOMAIN out
      PROVE  /\ j \in 1..(n - shift) /\ j + shift \in 1..n
             /\ out[j].src = j + shift /\ out[j].marks = MarksOf(family, j + shift)
             /\ Of(out[j]) = dialogue[j + shift] /\ dialogue[j + shift] \in Message
  <2>1. j \in 1..(n - shift) /\ j + shift \in 1..n
    BY <1>2, <1>4
  <2>2. out[j].src = j + shift /\ out[j].marks = MarksOf(family, j + shift)
    BY <1>4, <2>1
  <2> QED BY <1>2, <2>1, <2>2 DEF Of, n
<1>6. \A i, j \in DOMAIN out : i < j => out[i].src < out[j].src
  BY <1>2, <1>4, <1>5
<1>7. ASSUME NEW i \in DOMAIN dialogue
      PROVE  \/ \E j \in DOMAIN out : out[j].src = i
             \/ dialogue[i].role = "system" /\ (client.blocks \/ family \in {"gemini", "prompted"})
  <2>1. CASE i > shift
    <3>1. i - shift \in DOMAIN out /\ (i - shift) + shift = i
      BY <1>2, <1>4, <2>1
    <3> QED BY <1>5, <3>1
  <2>2. CASE ~(i > shift)
    <3>1. i = 1 /\ shift = 1
      BY <1>2, <1>4, <2>2
    <3> QED BY <1>4, <3>1 DEF Dropped
  <2> QED BY <2>1, <2>2
<1>8. ASSUME NEW j \in DOMAIN out, family = "gemini", Of(out[j]).role = "assistant"
      PROVE  \A k \in DOMAIN out[j].marks : out[j].marks[k].signed = Of(out[j]).calls[k].signed
  <2> DEFINE m == dialogue[j + shift]
  <2>1. m.role = "assistant" /\ Of(out[j]) = m /\ out[j].marks = MarksOf(family, j + shift)
    BY <1>5, <1>8
  <2>2. MarksOf(family, j + shift) =
          [k \in DOMAIN m.calls |-> [name |-> m.calls[k].name, signed |-> m.calls[k].signed]]
    BY <1>8, <2>1 DEF MarksOf
  <2> QED BY <2>1, <2>2
<1>9. ASSUME NEW j \in DOMAIN out, Of(out[j]).role = "tool"
      PROVE  \E c \in 1..(j - 1) :
                /\ Of(out[c]).role = "assistant" /\ \A i \in (c + 1)..j : Of(out[i]).role = "tool"
                /\ LET found == FoundCall(family, out[c], out[j], j - c)
                       meant == MeantCall(out[c], out[j])
                       named == {k \in DOMAIN Of(out[c]).calls :
                                   Of(out[c]).calls[k].name = Of(out[c]).calls[meant].name}
                       in_order == \A i \in (c + 1)..j : MeantCall(out[c], out[i]) = i - c
                   IN  CASE family = "openai" -> found = {meant}
                         [] family = "gemini" -> client.names => found = named
                         [] family \in {"ollama", "prompted"} -> in_order => found = {meant}
  <2> DEFINE i0 == j + shift
             m == dialogue[i0]
  <2>1. i0 \in 1..n /\ m.role = "tool" /\ MessageSound(dialogue, i0) /\ Of(out[j]) = m
    BY <1>5, <1>9 DEF DialogueSound, n
  <2>2. PICK c0 \in 1..(i0 - 1) : AnswersTurn(dialogue, c0, i0)
    BY <2>1 DEF MessageSound
  <2> DEFINE c == c0 - shift
             calling == dialogue[c0]
  <2>3. c0 > shift
    <3> SUFFICES ASSUME ~(c0 > shift) PROVE FALSE
      OBVIOUS
    <3>1. c0 = 1 /\ shift = 1
      BY <1>2, <1>4, <2>1, <2>2
    <3>2. dialogue[1].role = "system"
      BY <1>4, <3>1 DEF Dropped
    <3> QED BY <2>2, <3>1, <3>2 DEF AnswersTurn
  <2>4. c \in 1..(j - 1) /\ c \in DOMAIN out /\ c + shift = c0 /\ j \in 1..(n - shift)
    BY <1>2, <1>4, <1>5, <2>1, <2>2, <2>3
  <2>5. /\ Of(out[c]) = calling /\ calling \in Message /\ calling.role = "assistant"
        /\ out[c].marks = MarksOf(family, c0)
    BY <1>5, <2>2, <2>4 DEF AnswersTurn
  <2>6. ASSUME NEW i \in (c + 1)..j PROVE i \in DOMAIN out /\ Of(out[i]).role = "tool"
    <3>1. i \in DOMAIN out /\ i + shift \in (c0 + 1)..i0
      BY <1>2, <1>4, <2>1, <2>2, <2>4
    <3>2. Of(out[i]) = dialogue[i + shift]
      BY <1>5, <3>1
    <3> QED BY <2>2, <3>1, <3>2 DEF AnswersTurn
  <2>7. calling.calls \in Seq(Call) /\ \A k \in DOMAIN calling.calls : calling.calls[k].id = k
    BY <2>5, MessageKinds
  <2>8. m.id \in DOMAIN calling.calls /\ client.names => m.name = calling.calls[m.id].name
    BY <2>2 DEF AnswersTurn
  <2>9. m.id \in DOMAIN calling.calls
    BY <2>2 DEF AnswersTurn
  <2>10. MeantCall(out[c], out[j]) = m.id
    <3> DEFINE Same(k) == k \in DOMAIN calling.calls /\ calling.calls[k].id = m.id
    <3>1. MeantCall(out[c], out[j]) = CHOOSE k \in DOMAIN calling.calls : calling.calls[k].id = m.id
      BY <2>1, <2>5 DEF MeantCall
    <3>2. \A k \in DOMAIN calling.calls : calling.calls[k].id = m.id <=> k = m.id
      BY <2>7
    <3> HIDE DEF m, calling
    <3> QED BY <2>9, <3>1, <3>2
  <2> DEFINE found == FoundCall(family, out[c], out[j], j - c)
             named == {k \in DOMAIN calling.calls : calling.calls[k].name = calling.calls[m.id].name}
  <2>11. CASE family = "openai"
    <3>1. out[c].marks = CallIds(calling)
      BY <2>5, <2>11 DEF MarksOf
    <3>2. out[j].marks = <<m.id>>
      BY <1>5, <2>1, <2>11 DEF MarksOf
    <3>3. found = {k \in DOMAIN calling.calls : calling.calls[k].id = m.id}
      BY <2>11, <3>1, <3>2 DEF FoundCall, CallIds
    <3>4. found = {m.id}
      BY <2>7, <2>9, <3>3
    <3> QED BY <2>4, <2>5, <2>6, <2>10, <2>11, <3>4
  <2>12. CASE family = "gemini"
    <3>1. out[c].marks = [k \in DOMAIN calling.calls |->
                            [name |-> calling.calls[k].name, signed |-> calling.calls[k].signed]]
      BY <2>5, <2>12 DEF MarksOf
    <3>2. out[j].marks = <<[name |-> m.name, signed |-> FALSE]>>
      BY <1>5, <2>1, <2>12 DEF MarksOf
    <3>3. found = {k \in DOMAIN calling.calls : calling.calls[k].name = m.name}
      BY <2>12, <3>1, <3>2 DEF FoundCall
    <3>4. client.names => found = named
      BY <2>8, <2>9, <3>3
    <3> QED BY <2>4, <2>5, <2>6, <2>10, <2>12, <3>4
  <2>13. CASE family \in {"ollama", "prompted"}
    <3>1. found = {j - c}
      BY <2>13 DEF FoundCall
    <3>2. (\A i \in (c + 1)..j : MeantCall(out[c], out[i]) = i - c) => found = {m.id}
      BY <1>2, <2>4, <2>10, <3>1
    <3> QED BY <2>4, <2>5, <2>6, <2>10, <2>13, <3>2
  <2> QED BY <1>1, <2>11, <2>12, <2>13 DEF Families
<1> QED BY <1>6, <1>7, <1>8, <1>9 DEF ResultsFindTheirCalls, out, family

(* Whichever vendors take turns in a conversation: each message reaches    *)
(* the vendor once and in order, and each result finds its call as the     *)
(* vendor tells them apart (the _translate_messages() of providers.py); of *)
(* conversations of any length.                                            *)
THEOREM ResultsAlwaysFindTheirCalls == DialogueSpec => []ResultsFindTheirCalls
<1>1. DialogueSound => ResultsFindTheirCalls
  <2> SUFFICES ASSUME DialogueSound PROVE ResultsFindTheirCalls
    OBVIOUS
  <2>1. CASE request = NoRequest
    BY <2>1 DEF ResultsFindTheirCalls, NoRequest
  <2>2. CASE \E f \in Families : request = [family |-> f, out |-> Translation(f)]
    <3>1. request.family \in Families /\ request.out = Translation(request.family)
      BY <2>2
    <3> QED BY <3>1, SoundTranslation
  <2> QED BY <2>1, <2>2 DEF DialogueSound
<1> QED BY <1>1, InitDialogue, NextDialogue, PTL DEF DialogueSpec
===============================================================================
