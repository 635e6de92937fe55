------------------------------ MODULE AtLeastOnce ------------------------------
(***************************************************************************)
(* What a channel whose vendor delivers again promises: the vendor is told *)
(* to forget an item only when it has been settled, and what was settled   *)
(* or forgotten stays so, whatever raises or restarts.                     *)
(* Modules TelegramBridge and WebhookDelivery implement it.                *)
(***************************************************************************)
VARIABLES
  settled,     \* items that were handled, or left alone on purpose
  forgotten    \* items that the vendor will not deliver again

Init == settled = {} /\ forgotten = {}

Settle == settled \subseteq settled' /\ UNCHANGED forgotten

Forget ==
  /\ forgotten \subseteq forgotten' /\ forgotten' \ forgotten \subseteq settled
  /\ UNCHANGED settled

Next == Settle \/ Forget

Spec == Init /\ [][Next]_<<settled, forgotten>>
================================================================================
