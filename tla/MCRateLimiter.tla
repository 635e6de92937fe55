--------------------------- MODULE MCRateLimiter ---------------------------
(* RateLimiter with one sender making both kinds of calls, and two         *)
(* contents of channels.yaml: a limit of two and one of nothing by         *)
(* default, or one of one by default and the channel's own two.            *)
EXTENDS RateLimiter, TLC

CONSTANTS ch1, alice

MCChannels == {ch1}
MCUsers == {alice}
MCKinds == {"messages", "tool_calls"}
MCYamls ==
  {[defaults |-> [messages |-> 2, tool_calls |-> 0], channels |-> << >>],
   [defaults |-> [messages |-> 1, tool_calls |-> 1], channels |-> ch1 :> [messages |-> 2]]}
=============================================================================
