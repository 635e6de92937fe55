---------------------------- MODULE TelegramBridge ----------------------------
(***************************************************************************)
(* poll_telegram() of catalogue/telegram/dev/live_poll.py with on_message()*)
(* of the adapter.  getUpdates with an offset returns the updates from it  *)
(* on and confirms those before, which Telegram then forgets; the loop     *)
(* advances the offset before it translates an update and sends it to the  *)
(* gateway's WebSocket.  When that is closed receive_from_gateway() ends,  *)
(* but not this loop.                                                      *)
(***************************************************************************)
EXTENDS Naturals, Sequences, FiniteSets

CONSTANTS
  MaxUpdates, MaxRuns,   \* bounds: updates, and starts of the process
  UpdatePage             \* how many updates getUpdates returns at a time

ASSUME TelegramAssumption ==
  MaxUpdates \in Nat /\ MaxRuns \in Nat /\ UpdatePage \in Nat \ {0}

VARIABLES
  update_id,     \* the latest update; they are numbered from 1
  confirmed,     \* Telegram has forgotten the updates before this one
  run,           \* which process this is
  offset,
  updates,       \* data["result"], what is left of it
  ws_open,       \* the WebSocket
  owner,         \* owner_id: none, known, or also in the pairing store
  relayed,       \* history: the updates that went to the gateway, and in which run
  passed_over    \* history: the updates that did not, although they were taken

telegram_vars == <<update_id, confirmed, run, offset, updates, ws_open, owner,
                   relayed, passed_over>>

TelegramInit ==
  /\ update_id = 0 /\ confirmed = 1 /\ run = 1
  /\ offset = 0 /\ updates = << >> /\ ws_open = TRUE
  /\ owner \in {"none", "stored"}         \* TELEGRAM_OWNER_ID
  /\ relayed = << >> /\ passed_over = {}

UpdateArrives ==
  /\ update_id < MaxUpdates
  /\ update_id' = update_id + 1
  /\ UNCHANGED <<confirmed, run, offset, updates, ws_open, owner, relayed, passed_over>>

(* getUpdates; an answer that is lost has confirmed all the same.          *)
GetUpdates(lost) ==
  LET from == IF offset > confirmed THEN offset ELSE confirmed
      n == update_id + 1 - from
  IN  /\ updates = << >>
      /\ confirmed' = from
      /\ updates' = IF lost THEN << >>
                    ELSE [i \in 1..(IF n < UpdatePage THEN n ELSE UpdatePage) |-> from + i - 1]
      /\ UNCHANGED <<update_id, run, offset, ws_open, owner, relayed, passed_over>>

(* Mutant: the offset goes past the page at once.                          *)
OffsetAfterPage(id) == id + Len(updates)

OffsetAfter(id) == id + 1

(* The next update: the first sender becomes the owner, then the message   *)
(* goes to the gateway, or is not for it (on_message() returns None, as it *)
(* does for an update that is no message).                                 *)
TakeUpdate(sender, relays) ==
  LET id == Head(updates)
  IN  /\ updates # << >>
      /\ relays => ws_open /\ sender
      /\ offset' = OffsetAfter(id) /\ updates' = Tail(updates)
      /\ owner' = IF sender /\ owner = "none" THEN "stored" ELSE owner
      /\ relayed' = IF relays THEN Append(relayed, [id |-> id, run |-> run]) ELSE relayed
      /\ passed_over' = IF relays THEN passed_over ELSE passed_over \union {id}
      /\ UNCHANGED <<update_id, confirmed, run, ws_open>>

(* An exception: the pairing store or on_message() raises, or the socket   *)
(* is closed.  It ends the round, not the loop, and the update is consumed;*)
(* its sender counts as the owner, whether the store has it or not.        *)
UpdateRaises(sender) ==
  LET id == Head(updates)
  IN  /\ updates # << >>
      /\ offset' = OffsetAfter(id) /\ updates' = << >>
      /\ owner' \in IF sender /\ owner = "none" THEN {"known", "stored"} ELSE {owner}
      /\ passed_over' = passed_over \union {id}
      /\ UNCHANGED <<update_id, confirmed, run, ws_open, relayed>>

SocketCloses ==
  /\ ws_open /\ ws_open' = FALSE
  /\ UNCHANGED <<update_id, confirmed, run, offset, updates, owner, relayed, passed_over>>

(* The process ends, at any point, and another starts from offset 0.       *)
BridgeRestarts ==
  /\ run < MaxRuns
  /\ run' = run + 1
  /\ offset' = 0 /\ updates' = << >> /\ ws_open' = TRUE /\ owner' \in {"none", "stored"}
  /\ UNCHANGED <<update_id, confirmed, relayed, passed_over>>

TelegramNext ==
  \/ UpdateArrives \/ SocketCloses \/ BridgeRestarts
  \/ \E b \in BOOLEAN : GetUpdates(b) \/ UpdateRaises(b) \/ TakeUpdate(b, FALSE) \/ TakeUpdate(TRUE, b)

TelegramSpec == TelegramInit /\ [][TelegramNext]_telegram_vars
-------------------------------------------------------------------------------
(* The values of the variables.                                            *)
RelayRecords == [id : Nat, run : Nat]

TelegramTypes ==
  /\ update_id \in Nat /\ confirmed \in Nat \ {0} /\ run \in Nat /\ offset \in Nat
  /\ updates \in Seq(Nat) /\ relayed \in Seq(RelayRecords)

(* Within a run updates reach the gateway in order and none twice; over    *)
(* restarts those come again that the earlier run had not confirmed, which *)
(* are a page at most; and an update that the loop has advanced past went  *)
(* to the gateway or was passed over in sight of it: whatever rounds were  *)
(* cut short, nothing is skipped.                                          *)
UpdatesInOrder ==
  /\ \A i, j \in 1..Len(relayed) : i < j =>
       IF relayed[i].run = relayed[j].run THEN relayed[i].id < relayed[j].id
       ELSE relayed[i].id < relayed[j].id + UpdatePage
  /\ \A id \in 1..(offset - 1) :
       id \in passed_over \/ \E i \in 1..Len(relayed) : relayed[i].id = id

(* Over lost answers, rounds cut short and restarts: Telegram is told to   *)
(* forget an update only when it was relayed or passed over.               *)
TelegramAtLeastOnce ==
  INSTANCE AtLeastOnce WITH
    settled <- passed_over \union {relayed[i].id : i \in 1..Len(relayed)},
    forgotten <- 1..(confirmed - 1)
TelegramImplementsAtLeastOnce == TelegramAtLeastOnce!Spec

(* With the types: what the bridge promises of updates, in each state and in each step.*)
TelegramPromiseKept == [](TelegramTypes /\ UpdatesInOrder) /\ TelegramImplementsAtLeastOnce
===============================================================================
