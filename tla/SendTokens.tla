------------------------------- MODULE SendTokens -------------------------------
(***************************************************************************)
(* The tokens that send() needs and keeps: LINE's reply tokens, one with   *)
(* each inbound event and good for one reply (line/adapter.py and the      *)
(* transport of line/dev/live_bridge.py), and the access token of Teams,   *)
(* which all replies share until a minute before it expires                *)
(* (teams/adapter.py).  Handlers interleave where they await.              *)
(***************************************************************************)
EXTENDS Naturals, Sequences, FiniteSets, SequencesExt, Clock

CONSTANTS
  LineUsers,       \* senders of the LINE channel
  LineTtl,         \* ttl_s of set_reply_token()
  MaxLineEvents,   \* bound: inbound events
  TeamsTasks,      \* replies at a time
  TeamsMargin,     \* the 60 of _fetch_token()
  TeamsTimeout,    \* the timeout of a call
  Lifetimes,       \* lifetimes of the tokens issued
  MaxTeamsPosts    \* bound: replies

ASSUME TokenAssumption ==
  /\ LineTtl \in Nat /\ MaxLineEvents \in Nat /\ TeamsTimeout \in Nat /\ MaxTeamsPosts \in Nat
  /\ TeamsMargin \in Nat /\ TeamsMargin >= 2 * TeamsTimeout
  /\ Lifetimes \subseteq Nat /\ \A life \in Lifetimes : life >= 2 * TeamsTimeout

VARIABLES
  reply_tokens,    \* _reply_tokens[u]: event whose token it is (0: none) and its end
  line_events,     \* history: the events, each with its sender and time
  line_sends,      \* history: what was sent, each to whom, when, with which event's token (0: push),
                   \*   after how many events
  token_cache,     \* _TOKEN_CACHE: the token (its true end) and the end that is believed
  teams,           \* teams[t]: the reply in t: where it is, since when, its token
  teams_posts      \* history: replies posted, each with its time and the end of its token

token_vars == <<reply_tokens, line_events, line_sends, token_cache, teams, teams_posts>>

NoReplyToken == [event |-> 0, ends |-> 0]
TeamsIdle == [step |-> "idle", since |-> 0, token |-> 0]

TokensInit ==
  /\ reply_tokens = [u \in LineUsers |-> NoReplyToken] /\ line_events = << >> /\ line_sends = << >>
  /\ token_cache = [token |-> 0, ends |-> 0]
  /\ teams = [t \in TeamsTasks |-> TeamsIdle] /\ teams_posts = << >>

(* on_message(): a token replaces the one before.                          *)
LineInbound(u) ==
  /\ Len(line_events) < MaxLineEvents
  /\ line_events' = Append(line_events, [user |-> u, at |-> now])
  /\ reply_tokens' = [reply_tokens EXCEPT ![u] = [event |-> Len(line_events'), ends |-> now + LineTtl]]
  /\ UNCHANGED <<now, line_sends, token_cache, teams, teams_posts>>

(* Mutant: a token that is used stays.                                     *)
TokensLeftKept(u) == reply_tokens

(* consume_reply_token(): the token goes, also an old one.                 *)
TokensLeft(u) == [reply_tokens EXCEPT ![u] = NoReplyToken]

LineSend(u) ==
  LET kept == reply_tokens[u]
      event == IF kept # NoReplyToken /\ kept.ends >= now THEN kept.event ELSE 0
  IN  /\ Len(line_sends) < MaxLineEvents
      /\ \E i \in DOMAIN line_events : line_events[i].user = u
      /\ line_sends' = Append(line_sends, [user |-> u, at |-> now, event |-> event,
                                         events |-> Len(line_events)])
      /\ reply_tokens' = TokensLeft(u)
      /\ UNCHANGED <<now, line_events, token_cache, teams, teams_posts>>

TeamsTo(t, step, token) == teams' = [teams EXCEPT ![t] = [step |-> step, since |-> now, token |-> token]]

CacheServes == token_cache.ends > now + TeamsMargin

(* _fetch_token(): the cached token, or a call.                            *)
TeamsBegins(t) ==
  /\ teams[t].step = "idle"
  /\ Len(teams_posts) < MaxTeamsPosts
  /\ IF CacheServes THEN TeamsTo(t, "post", token_cache.token) ELSE TeamsTo(t, "ask", 0)
  /\ UNCHANGED <<now, reply_tokens, line_events, line_sends, token_cache, teams_posts>>

(* The token was issued at any time of the call, and counts from now.      *)
TokenArrives(t, life) ==
  /\ teams[t].step = "ask"
  /\ \E issued \in teams[t].since..now :
       /\ token_cache' = [token |-> issued + life, ends |-> now + life]
       /\ TeamsTo(t, "post", issued + life)
  /\ UNCHANGED <<now, reply_tokens, line_events, line_sends, teams_posts>>

TeamsPosts(t) ==
  /\ teams[t].step = "post"
  /\ Len(teams_posts) < MaxTeamsPosts
  /\ teams_posts' = Append(teams_posts, [token |-> teams[t].token, at |-> now])
  /\ TeamsTo(t, "idle", 0)
  /\ UNCHANGED <<now, reply_tokens, line_events, line_sends, token_cache>>

TeamsFails(t) ==
  /\ teams[t].step # "idle"
  /\ TeamsTo(t, "idle", 0)
  /\ UNCHANGED <<now, reply_tokens, line_events, line_sends, token_cache, teams_posts>>

(* No call lasts longer than its timeout.                                  *)
TokensTick ==
  /\ \A t \in TeamsTasks : teams[t].step # "idle" => now < teams[t].since + TeamsTimeout
  /\ Passes /\ UNCHANGED token_vars

TokensNext ==
  \/ \E u \in LineUsers : LineInbound(u) \/ LineSend(u)
  \/ \E t \in TeamsTasks :
       \/ TeamsBegins(t) \/ TeamsPosts(t) \/ TeamsFails(t)
       \/ \E life \in Lifetimes : TokenArrives(t, life)
  \/ TokensTick

TokensSpec == ClockInit /\ TokensInit /\ [][TokensNext]_<<now, token_vars>>
-------------------------------------------------------------------------------
LastEvent(s) == CHOOSE e \in 1..s.events :
  /\ line_events[e].user = s.user
  /\ \A i \in (e + 1)..s.events : line_events[i].user # s.user

(* A reply token is posted once, to the sender of its event, in time, and  *)
(* never after a later event of that sender; a reply is a push, which      *)
(* counts against the quota, only if the sender's last token was used or   *)
(* is too old.  A reply of Teams is never posted with an expired token,    *)
(* however long the calls take that fetched and carry it.                  *)
TokensGood ==
  /\ \A k \in DOMAIN line_sends :
       LET s == line_sends[k]
           last == LastEvent(s)
           used == \E j \in 1..(k - 1) : line_sends[j].event = last
           late == s.at > line_events[last].at + LineTtl
       IN  s.event = IF used \/ late THEN 0 ELSE last
  /\ \A k \in DOMAIN teams_posts : teams_posts[k].at <= teams_posts[k].token
===============================================================================
