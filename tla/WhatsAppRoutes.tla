---------------------------- MODULE WhatsAppRoutes ----------------------------
(***************************************************************************)
(* The WhatsApp adapter serves two vendors.  Module-wide, provider_cache   *)
(* remembers through which of them a sender wrote last; it is a dict used  *)
(* as a queue, the oldest entry goes when it is full.  send() uses what is *)
(* remembered; else it tries Meta, then Twilio if Meta says the recipient  *)
(* is not in its list (131030), and remembers what worked, after the await.*)
(***************************************************************************)
EXTENDS Naturals, Sequences, FiniteSets, SequencesExt

CONSTANTS
  WaUsers,       \* senders
  WaTasks,       \* replies that are being sent at a time
  WaCacheMax     \* _PROVIDER_CACHE_MAX, 100

ASSUME WaAssumption == WaCacheMax \in Nat \ {0}

VARIABLES
  provider_cache,   \* its items in order, [user, via]
  wa_send,          \* wa_send[t]: the locals of send() in t
  heard,            \* history: heard[u], the vendor of the latest message of u in this process
  since,            \* history: since[u], the others remembered after that message
  overlapped        \* history: the users whose latest message came during a trial, see WaInbound

wa_vars == <<provider_cache, wa_send, heard, since, overlapped>>

WaProviders == {"meta", "twilio"}
WaIdle == [pc |-> "idle", user |-> "", via |-> ""]

WaInit ==
  /\ provider_cache = << >>
  /\ wa_send = [t \in WaTasks |-> WaIdle]
  /\ heard = [u \in WaUsers |-> "nothing"]
  /\ since = [u \in WaUsers |-> {}]
  /\ overlapped = {}

CachedProvider(u) == {item.via : item \in {x \in ToSet(provider_cache) : x.user = u}}

(* Mutant: an entry that is there keeps its place.                         *)
RememberInPlace(u, via) ==
  IF CachedProvider(u) # {}
  THEN provider_cache' = [i \in 1..Len(provider_cache) |->
         IF provider_cache[i].user = u THEN [user |-> u, via |-> via] ELSE provider_cache[i]]
  ELSE provider_cache' = Append(IF Len(provider_cache) >= WaCacheMax THEN Tail(provider_cache)
                                ELSE provider_cache, [user |-> u, via |-> via])

(* _remember_provider(): to the end of the queue; who is new may push the  *)
(* first out.                                                              *)
Remember(u, via) ==
  LET mine == {i \in 1..Len(provider_cache) : provider_cache[i].user = u}
      kept == IF mine # {} THEN RemoveAt(provider_cache, CHOOSE i \in mine : TRUE)
              ELSE IF Len(provider_cache) >= WaCacheMax THEN Tail(provider_cache)
              ELSE provider_cache
  IN  provider_cache' = Append(kept, [user |-> u, via |-> via])

TryingFor(u) == {t \in WaTasks : wa_send[t].user = u /\ wa_send[t].pc \in {"try meta", "try twilio"}}

Since(u) == [v \in WaUsers |-> IF v = u \/ heard[v] = "nothing" THEN since[v] ELSE since[v] \union {u}]

(* on_message(): signed by the vendor, and let through by the allowlist    *)
(* when public; it does not wait for anything.                             *)
WaInbound(u, via) ==
  /\ Remember(u, via)
  /\ heard' = [heard EXCEPT ![u] = via]
  /\ since' = [Since(u) EXCEPT ![u] = {}]
  /\ overlapped' = IF TryingFor(u) # {} THEN overlapped \union {u} ELSE overlapped \ {u}
  /\ UNCHANGED wa_send

(* send() to a user who is paired; who it is no longer matters when the    *)
(* vendor is remembered.                                                   *)
WaSendBegins(t, u) ==
  /\ wa_send[t] = WaIdle
  /\ wa_send' = [wa_send EXCEPT ![t] =
       IF CachedProvider(u) # {}
       THEN [pc |-> "direct", user |-> "", via |-> CHOOSE via \in CachedProvider(u) : TRUE]
       ELSE [pc |-> "try meta", user |-> u, via |-> "meta"]]
  /\ UNCHANGED <<provider_cache, heard, since, overlapped>>

(* The vendor's answer to a trial.                                         *)
WaTrialWorks(t) ==
  LET u == wa_send[t].user
  IN  /\ wa_send[t].pc \in {"try meta", "try twilio"}
      /\ Remember(u, wa_send[t].via)
      /\ since' = Since(u)
      /\ wa_send' = [wa_send EXCEPT ![t] = WaIdle]
      /\ UNCHANGED <<heard, overlapped>>

WaNotInMetasList(t) ==
  /\ wa_send[t].pc = "try meta"
  /\ wa_send' = [wa_send EXCEPT ![t].pc = "try twilio", ![t].via = "twilio"]
  /\ UNCHANGED <<provider_cache, heard, since, overlapped>>

(* A reply by the remembered vendor is over, or any failed.                *)
WaSendEnds(t) ==
  /\ wa_send[t] # WaIdle
  /\ wa_send' = [wa_send EXCEPT ![t] = WaIdle]
  /\ UNCHANGED <<provider_cache, heard, since, overlapped>>

WaRestarts == provider_cache # << >> /\ wa_send' = [t \in WaTasks |-> WaIdle]
  /\ provider_cache' = << >> /\ heard' = [u \in WaUsers |-> "nothing"]
  /\ since' = [u \in WaUsers |-> {}] /\ overlapped' = {}

WaNext ==
  \/ \E u \in WaUsers, via \in WaProviders : WaInbound(u, via)
  \/ \E t \in WaTasks : \/ \E u \in WaUsers : WaSendBegins(t, u)
                        \/ WaTrialWorks(t) \/ WaNotInMetasList(t) \/ WaSendEnds(t)
  \/ WaRestarts

WaSpec == WaInit /\ [][WaNext]_wa_vars
-------------------------------------------------------------------------------
(* A reply goes out by the vendor of its recipient's latest message, who   *)
(* is forgotten only when WaCacheMax others were remembered since; except  *)
(* that a trial which began before that message and ended after it may     *)
(* have replaced the vendor.  And the cache stays within its bound.        *)
RouteIsLatest ==
  /\ Len(provider_cache) <= WaCacheMax
  /\ \A u \in WaUsers :
       heard[u] # "nothing" /\ Cardinality(since[u]) < WaCacheMax /\ u \notin overlapped
         => CachedProvider(u) = {heard[u]}
===============================================================================
