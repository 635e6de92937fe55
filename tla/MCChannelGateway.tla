-------------------------- MODULE MCChannelGateway --------------------------
(* ChannelGateway on two channels of one sender each, one connection and   *)
(* one webhook request, and two contents of channels.yaml.                 *)
EXTENDS ChannelGateway, TLC

CONSTANTS ch1, ch2, alice

MCChannels == {ch1, ch2}
MCAdapters == {ch1}
MCUsers == {alice}

(* Owner-only, with a limit of one message; and one listed sender on ch1,  *)
(* twice the limit there, and ch2 switched off.                            *)
Strict ==
  [limits |-> [defaults |-> [messages |-> 1, tool_calls |-> 1], channels |-> << >>],
   disabled |-> {}, allowed |-> << >>, default_allowed |-> {}, mention_only |-> TRUE]

Listed ==
  [limits |-> [defaults |-> [messages |-> 1, tool_calls |-> 1],
               channels |-> ch1 :> [messages |-> 2]],
   disabled |-> {ch2}, allowed |-> ch1 :> {alice}, default_allowed |-> {}, mention_only |-> FALSE]

MCYamls == {Strict, Listed}
=============================================================================
