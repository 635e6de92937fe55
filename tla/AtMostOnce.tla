------------------------------ MODULE AtMostOnce ------------------------------
(***************************************************************************)
(* What a channel that reads mail promises about each mail, whatever       *)
(* raises, hangs up or restarts: each time it asks for attention it is     *)
(* handed on once, or let go, or still waits; and neither is taken back.   *)
(* Modules ImapSession and MailPoll implement it.                          *)
(***************************************************************************)
EXTENDS Naturals

CONSTANT Items

VARIABLES
  asked,     \* asked[i]: how often i asked for attention
  handed,    \* handed[i]: how often it was handed on
  let_go     \* let_go[i]: how often it never will be

Init ==
  /\ asked = [i \in Items |-> 0] /\ handed = asked /\ let_go = asked

Waits(i) == handed[i] + let_go[i] < asked[i]

Ask ==
  /\ asked' \in [Items -> Nat] /\ \A i \in Items : asked[i] <= asked'[i]
  /\ UNCHANGED <<handed, let_go>>

Hand(i) == Waits(i) /\ handed' = [handed EXCEPT ![i] = @ + 1] /\ UNCHANGED <<asked, let_go>>

LetGo(S) ==
  /\ let_go' = [i \in Items |-> IF i \in S THEN let_go[i] + 1 ELSE let_go[i]]
  /\ UNCHANGED <<asked, handed>>

Next ==
  \/ Ask
  \/ \E i \in Items : Hand(i)
  \/ \E S \in SUBSET {i \in Items : Waits(i)} : LetGo(S)

Spec == Init /\ [][Next]_<<asked, handed, let_go>>
===============================================================================
