---------------------------- MODULE RateLimiter ----------------------------
(***************************************************************************)
(* The sliding-window limiter of glc/security/rate_limits.py: for every    *)
(* channel, user and kind of call, the times of the calls accepted in the  *)
(* last Window seconds, at most as many as channels.yaml allows.           *)
(*                                                                         *)
(* The limiter lives in memory: it is built and reads its limits on the    *)
(* first call after a start, never reads them again, and forgets           *)
(* everything when the process ends.  A check holds the limiter's lock     *)
(* throughout, so it is one step.  time.time() is taken not to step back.  *)
(***************************************************************************)
EXTENDS Integers, Sequences

CONSTANTS
  Channels, Users, Kinds,   \* Kinds: "messages" and "tool_calls"
  Yamls,                    \* rate_limits blocks channels.yaml may hold
  NotLoaded,                \* the limits before the first get_rate_limiter()
  Window,                   \* 60 seconds in the code
  MaxTime                   \* bound: the clock

Key == [channel : Channels, user : Users, kind : Kinds]
Limits == [Channels -> [Kinds -> Nat]]

(* configure_from_yaml(): a channel's own number where it has one, the     *)
(* default otherwise.                                                      *)
ConfigureFromYaml(yaml) ==
  [c \in Channels |->
    [k \in Kinds |->
      IF c \in DOMAIN yaml.channels /\ k \in DOMAIN yaml.channels[c]
      THEN yaml.channels[c][k] ELSE yaml.defaults[k]]]

ASSUME WindowAssumption == Window \in Nat
ASSUME YamlsAssumption == \A yaml \in Yamls : ConfigureFromYaml(yaml) \in Limits
ASSUME NotLoadedAssumption == NotLoaded \notin Limits

VARIABLES
  now,        \* time.time(), in seconds
  limits,     \* default_mpm, default_tpm and per_channel, merged
  window,     \* RateLimiter._state: per key, the times still remembered
  accepted    \* history: per key, the times accepted since the start

limiterVars == <<now, limits, window, accepted>>

Init ==
  /\ now = 0
  /\ limits = NotLoaded
  /\ window = [k \in Key |-> <<>>]
  /\ accepted = [k \in Key |-> <<>>]

Cap(lims, k) == lims[k.channel][k.kind]

(* get_rate_limiter(): built from the file on the first call, kept since.  *)
GetLimits(yaml) == IF limits = NotLoaded THEN ConfigureFromYaml(yaml) ELSE limits

(* Mutant: a call exactly Window seconds old is forgotten too early.       *)
GcInclusive(dq, horizon) ==
  LET live == {i \in 1..Len(dq) : dq[i] > horizon}
  IN  IF live = {} THEN <<>>
      ELSE SubSeq(dq, CHOOSE i \in live : \A j \in live : i <= j, Len(dq))

(* Mutant: entries are never forgotten.                                    *)
GcNothing(dq, horizon) == dq

(* _gc(): times leave from the left as long as they are before the horizon.*)
Gc(dq, horizon) ==
  LET live == {i \in 1..Len(dq) : dq[i] >= horizon}
  IN  IF live = {} THEN <<>>
      ELSE SubSeq(dq, CHOOSE i \in live : \A j \in live : i <= j, Len(dq))

Live(k) == Gc(window[k], now - Window)

Admits(lims, k) == Len(Live(k)) < Cap(lims, k)

(* A caller that only fetches the limiter.                                 *)
Load(yaml) ==
  /\ limits' = GetLimits(yaml)
  /\ UNCHANGED <<now, window, accepted>>

(* _check() on the limiter just fetched: accepted, and remembered...       *)
Accept(k, yaml) ==
  /\ Admits(GetLimits(yaml), k)
  /\ limits' = GetLimits(yaml)
  /\ window' = [window EXCEPT ![k] = Append(Live(k), now)]
  /\ accepted' = [accepted EXCEPT ![k] = Append(@, now)]
  /\ UNCHANGED now

(* ... or refused; what is too old is forgotten all the same.              *)
Refuse(k, yaml) ==
  /\ ~Admits(GetLimits(yaml), k)
  /\ limits' = GetLimits(yaml)
  /\ window' = [window EXCEPT ![k] = Live(k)]
  /\ UNCHANGED <<now, accepted>>

Tick ==
  /\ now < MaxTime
  /\ now' = now + 1
  /\ UNCHANGED <<limits, window, accepted>>

(* The process ends and a new one starts, with an empty limiter.           *)
Restart ==
  /\ limits' = NotLoaded
  /\ window' = [k \in Key |-> <<>>]
  /\ accepted' = [k \in Key |-> <<>>]
  /\ UNCHANGED now

Next ==
  \/ \E yaml \in Yamls :
       \/ Load(yaml)
       \/ \E k \in Key : Accept(k, yaml) \/ Refuse(k, yaml)
  \/ Tick
  \/ Restart

Spec == Init /\ [][Next]_limiterVars
-----------------------------------------------------------------------------
TypeOK ==
  /\ now \in Nat
  /\ limits \in Limits \union {NotLoaded}
  /\ window \in [Key -> Seq(Nat)]
  /\ accepted \in [Key -> Seq(Nat)]

(* No sender gets more than the limit into any Window seconds, whichever   *)
(* way the window slides: of limit + 1 accepted calls in a row, the last   *)
(* is more than Window seconds after the first.                            *)
WindowRespected ==
  limits # NotLoaded =>
    \A k \in Key : \A i \in 1..Len(accepted[k]) :
      i + Cap(limits, k) <= Len(accepted[k]) =>
        accepted[k][i + Cap(limits, k)] > accepted[k][i] + Window

(* The last n calls of the sequence were accepted within Window seconds.   *)
Full(times, n) ==
  /\ Len(times) >= n
  /\ n > 0 => times[Len(times) - n + 1] >= now - Window

(* What the limiter has forgotten never matters: the next call of a sender *)
(* is refused exactly when the calls accepted since the start fill the     *)
(* window that ends now.                                                   *)
RefusesExactlyWhenFull ==
  limits # NotLoaded =>
    \A k \in Key : ~Admits(limits, k) <=> Full(accepted[k], Cap(limits, k))
=============================================================================
