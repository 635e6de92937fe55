--------------------------- MODULE AppendOnlyLog ---------------------------
(***************************************************************************)
(* What the audit store promises its callers, whatever threads, crashes or *)
(* failing statements do: one sequence of contents that is only ever       *)
(* extended, by one entry at a time, at its end.  Module AuditLog          *)
(* implements it.                                                          *)
(***************************************************************************)
EXTENDS Sequences

CONSTANT Payloads   \* the contents an entry may have

VARIABLE log        \* the contents recorded so far, oldest first

Init == log = <<>>

Record(p) == log' = Append(log, p)

Next == \E p \in Payloads : Record(p)

Spec == Init /\ [][Next]_log
=============================================================================
