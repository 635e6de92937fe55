---------------------------- MODULE TrustProofs ----------------------------
(***************************************************************************)
(* Proofs about who is trusted, and with what: the pairing store gives     *)
(* trust levels to senders, the policy engine decides on a tool call by    *)
(* the caller's level.  Neither reads the other's state.                   *)
(***************************************************************************)
EXTENDS PairingStore, PolicyEngine, NatLemmas, TLAPS

-------------------------------------------------------------------------------
(***************************************************************************)
(* PairingStore keeps its types, and every pairing comes from the installer*)
(* or from a code looked at within its lifetime, for any number of senders,*)
(* codes and processes and any Ttl.  PairingBacked is not inductive: a     *)
(* pairing is written from what a process has in hand, and that was read   *)
(* from the pending table, so both are in the invariant.  At the end: a    *)
(* code is spent by its use, and by nothing else.                          *)
(***************************************************************************)
TicketOf(c, issue) == [code |-> c, issue |-> issue]

(* What is pending was issued.                                             *)
PendingIssued ==
  \A c \in Codes : pending[c] # NoIssue => TicketOf(c, pending[c]) \in issued

(* What a process is about to grant was issued and had not expired when it *)
(* was looked at.                                                          *)
HandsBacked ==
  \A p \in Processes : confirms[p].step = "granting" =>
    /\ TicketOf(confirms[p].code, confirms[p].issue) \in issued
    /\ confirms[p].paired_at >= confirms[p].issue.at
    /\ confirms[p].paired_at <= confirms[p].issue.at + Ttl

IssuedBefore ==
  /\ IsFiniteSet(issued)
  /\ \A t \in issued : t.issue.at <= now

IInv ==
  /\ TypeOK
  /\ PendingIssued
  /\ HandsBacked
  /\ IssuedBefore
  /\ PairingBacked

LEMMA InitEstablishes == Init => IInv
<1> SUFFICES ASSUME Init PROVE IInv
  OBVIOUS
<1>1. TypeOK
  BY DEF Init, TypeOK
<1>2. PendingIssued /\ HandsBacked /\ PairingBacked
  BY DEF Init, PendingIssued, HandsBacked, PairingBacked, Outside
<1>3. IssuedBefore
  BY FS_EmptySet DEF Init, IssuedBefore
<1> QED
  BY <1>1, <1>2, <1>3 DEF IInv

LEMMA IssueKeeps ==
  ASSUME IInv, NEW p \in Processes, NEW c \in Codes, NEW s \in Senders, NEW level \in Levels,
         IssueCode(p, c, s, level)
  PROVE  IInv'
<1> USE DEF IInv
<1> DEFINE issue == [id |-> Cardinality(issued), sender |-> s, level |-> level, at |-> now]
<1>1. issue \in Issue
  BY FS_CardinalityType DEF Issue, TypeOK, IssuedBefore
<1>2. /\ pending' = [pending EXCEPT ![c] = issue]
      /\ issued' = issued \union {TicketOf(c, issue)}
      /\ UNCHANGED <<now, pairings, confirms, forced, grants, cuts, outOfBand>>
  BY DEF IssueCode, TicketOf
<1>3. issue.at = now
  OBVIOUS
<1> HIDE DEF issue
<1>4. TypeOK'
  BY <1>1, <1>2 DEF TypeOK, Ticket, TicketOf
<1>5. PendingIssued'
  BY <1>1, <1>2 DEF TypeOK, PendingIssued
<1>6. HandsBacked'
  BY <1>2 DEF HandsBacked
<1>7. IssuedBefore'
  <2>1. IsFiniteSet(issued')
    BY <1>2, FS_AddElement DEF IssuedBefore
  <2>2. ASSUME NEW t \in issued' PROVE t.issue.at <= now'
    <3>1. CASE t \in issued
      BY <1>2, <3>1 DEF IssuedBefore
    <3>2. CASE t = TicketOf(c, issue)
      BY <1>2, <1>3, <3>2 DEF TicketOf, TypeOK
    <3> QED
      BY <1>2, <3>1, <3>2
  <2> QED
    BY <2>1, <2>2 DEF IssuedBefore
<1>8. PairingBacked'
  BY <1>2 DEF PairingBacked
<1> QED
  BY <1>4, <1>5, <1>6, <1>7, <1>8

LEMMA FindKeeps ==
  ASSUME IInv, NEW p \in Processes, NEW c \in Codes, FindCode(p, c)
  PROVE  IInv'
<1> USE DEF IInv
<1> DEFINE hand == [step |-> IF Expired(pending[c]) THEN "expired" ELSE "granting",
                    code |-> c, issue |-> pending[c], paired_at |-> now]
<1>1. /\ pending[c] # NoIssue
      /\ confirms' = [confirms EXCEPT ![p] = hand]
      /\ UNCHANGED <<now, tables, history>>
  BY DEF FindCode
<1>2. pending[c] \in Issue /\ now \in Nat
  BY <1>1 DEF TypeOK
<1>3. hand \in InConfirm
  BY <1>2 DEF InConfirm
<1>4. hand.step = "granting" =>
        /\ TicketOf(hand.code, hand.issue) \in issued
        /\ hand.paired_at >= hand.issue.at
        /\ hand.paired_at <= hand.issue.at + Ttl
  <2> SUFFICES ASSUME hand.step = "granting"
               PROVE  /\ TicketOf(c, pending[c]) \in issued
                      /\ now >= pending[c].at
                      /\ now <= pending[c].at + Ttl
    OBVIOUS
  <2>1. TicketOf(c, pending[c]) \in issued
    BY <1>1 DEF PendingIssued
  <2>2. TicketOf(c, pending[c]).issue.at <= now
    BY <2>1 DEF IssuedBefore
  <2>3. pending[c].at <= now
    BY <2>2 DEF TicketOf
  <2>4. ~Expired(pending[c])
    OBVIOUS
  <2> QED
    BY <1>2, <2>1, <2>3, <2>4, TtlAssumption DEF Expired, Issue
<1> HIDE DEF hand
<1>5. TypeOK'
  BY <1>1, <1>3 DEF TypeOK, tables, history
<1>6. HandsBacked'
  BY <1>1, <1>4 DEF HandsBacked, TypeOK, tables, history
<1>7. PendingIssued' /\ IssuedBefore' /\ PairingBacked'
  BY <1>1 DEF PendingIssued, IssuedBefore, PairingBacked, tables, history
<1> QED
  BY <1>5, <1>6, <1>7

LEMMA GrantKeeps ==
  ASSUME IInv, NEW p \in Processes, Grant(p)
  PROVE  IInv'
<1> USE DEF IInv
<1> DEFINE call == confirms[p]
           ticket == TicketOf(call.code, call.issue)
           row == [level |-> call.issue.level, at |-> call.paired_at]
<1>1. /\ call.step = "granting"
      /\ pairings' = [pairings EXCEPT ![call.issue.sender] = row]
      /\ confirms' = [confirms EXCEPT ![p].step = "granted"]
      /\ DOMAIN grants' = DOMAIN grants \union {ticket}
      /\ UNCHANGED <<now, pending, issued, forced, cuts, outOfBand>>
  BY DEF Grant, TicketOf
<1>2. call \in InConfirm
  BY <1>1 DEF TypeOK, Outside
<1>3. call.issue \in Issue /\ call.issue.sender \in Senders
  BY <1>2 DEF InConfirm, Issue
<1>4. row \in Pairing
  BY <1>2, <1>3 DEF InConfirm, Issue, Pairing
<1>5. /\ ticket \in issued
      /\ call.paired_at \in call.issue.at..(call.issue.at + Ttl)
  BY <1>1, <1>2, <1>3, TtlAssumption DEF HandsBacked, InConfirm, Issue
<1>6. confirms'[p] = [call EXCEPT !.step = "granted"]
  BY <1>1 DEF TypeOK
<1>7. confirms'[p] \in InConfirm
  BY <1>2, <1>6 DEF InConfirm
<1>8. \A q \in Processes : q # p => confirms'[q] = confirms[q]
  BY <1>1 DEF TypeOK
<1>9. TypeOK'
  <2>1. pairings' \in [Senders -> Pairing \union {NoPairing}]
    BY <1>1, <1>3, <1>4 DEF TypeOK
  <2>2. confirms' \in [Processes -> InConfirm \union {Outside}]
    BY <1>1, <1>7, <1>8 DEF TypeOK
  <2>3. DOMAIN grants' \subseteq issued'
    BY <1>1, <1>5 DEF TypeOK
  <2> QED
    BY <1>1, <2>1, <2>2, <2>3 DEF TypeOK
<1>10. HandsBacked'
  <2>1. confirms'[p].step = "granted"
    BY <1>2, <1>6 DEF InConfirm
  <2> QED
    BY <1>1, <1>8, <2>1 DEF HandsBacked
<1>11. PairingBacked'
  <2> SUFFICES ASSUME NEW s \in Senders, pairings'[s] # NoPairing
               PROVE  \/ /\ pairings'[s].level = "owner_paired"
                         /\ [sender |-> s, at |-> pairings'[s].at] \in forced
                      \/ \E t \in issued :
                           /\ t.issue.sender = s /\ t.issue.level = pairings'[s].level
                           /\ pairings'[s].at \in t.issue.at..(t.issue.at + Ttl)
    BY <1>1 DEF PairingBacked
  <2>1. CASE s = call.issue.sender
    <3>1. pairings'[s] = row
      BY <1>1, <2>1 DEF TypeOK
    <3>2. ticket.issue = call.issue
      BY DEF TicketOf
    <3> QED
      BY <1>5, <2>1, <3>1, <3>2
  <2>2. CASE s # call.issue.sender
    <3>1. pairings'[s] = pairings[s]
      BY <1>1, <2>2 DEF TypeOK
    <3> QED
      BY <3>1 DEF PairingBacked
  <2> QED
    BY <2>1, <2>2
<1>12. PendingIssued' /\ IssuedBefore'
  BY <1>1 DEF PendingIssued, IssuedBefore
<1> QED
  BY <1>9, <1>10, <1>11, <1>12

(* Leaving confirm_code(), with or without the DELETE.                     *)
LEMMA LeavingKeeps ==
  ASSUME IInv, NEW p \in Processes, DeleteCode(p) \/ Cut(p)
  PROVE  IInv'
<1> USE DEF IInv
<1>1. /\ confirms' = [confirms EXCEPT ![p] = Outside]
      /\ UNCHANGED <<now, pairings, issued, forced, grants, outOfBand>>
  BY DEF DeleteCode, Cut, tables, history
<1>2. cuts' \in Nat
  BY DEF DeleteCode, Cut, TypeOK, history
<1>3. \A c \in Codes : pending'[c] = pending[c] \/ pending'[c] = NoIssue
  BY DEF DeleteCode, Cut, TypeOK, tables
<1>4. pending' \in [Codes -> Issue \union {NoIssue}]
  BY DEF DeleteCode, Cut, TypeOK, tables
<1>5. TypeOK'
  BY <1>1, <1>2, <1>4 DEF TypeOK
<1>6. HandsBacked'
  <2>1. Outside.step # "granting"
    BY DEF Outside
  <2> QED
    BY <1>1, <2>1 DEF HandsBacked, TypeOK
<1>7. PendingIssued'
  BY <1>1, <1>3 DEF PendingIssued
<1>8. IssuedBefore' /\ PairingBacked'
  BY <1>1 DEF IssuedBefore, PairingBacked
<1> QED
  BY <1>5, <1>6, <1>7, <1>8

LEMMA OutOfBandKeeps ==
  ASSUME IInv, NEW p \in Processes, NEW s \in Senders, Revoke(p, s) \/ ForcePairOwner(p, s)
  PROVE  IInv'
<1> USE DEF IInv
<1>1. /\ UNCHANGED <<now, pending, confirms, issued, grants, cuts>>
      /\ outOfBand' = outOfBand + 1
  BY DEF Revoke, ForcePairOwner
<1>2. PendingIssued' /\ HandsBacked' /\ IssuedBefore'
  BY <1>1 DEF PendingIssued, HandsBacked, IssuedBefore
<1>3. CASE Revoke(p, s)
  <2>1. pairings' = [pairings EXCEPT ![s] = NoPairing] /\ forced' = forced
    BY <1>3 DEF Revoke
  <2>2. TypeOK'
    BY <1>1, <2>1 DEF TypeOK
  <2>3. PairingBacked'
    BY <1>1, <2>1 DEF PairingBacked, TypeOK
  <2> QED
    BY <1>2, <2>2, <2>3
<1>4. CASE ForcePairOwner(p, s)
  <2> DEFINE row == [level |-> "owner_paired", at |-> now]
             mark == [sender |-> s, at |-> now]
  <2>1. pairings' = [pairings EXCEPT ![s] = row] /\ forced' = forced \union {mark}
    BY <1>4 DEF ForcePairOwner
  <2>2. row \in Pairing /\ mark \in [sender : Senders, at : Nat]
    BY DEF Pairing, Levels, TypeOK
  <2>3. row.level = "owner_paired" /\ mark = [sender |-> s, at |-> row.at]
    OBVIOUS
  <2> HIDE DEF row, mark
  <2>4. TypeOK'
    BY <1>1, <2>1, <2>2 DEF TypeOK
  <2>5. PairingBacked'
    <3> SUFFICES ASSUME NEW r \in Senders, pairings'[r] # NoPairing
                 PROVE  \/ /\ pairings'[r].level = "owner_paired"
                           /\ [sender |-> r, at |-> pairings'[r].at] \in forced'
                        \/ \E t \in issued :
                             /\ t.issue.sender = r /\ t.issue.level = pairings'[r].level
                             /\ pairings'[r].at \in t.issue.at..(t.issue.at + Ttl)
      BY <1>1 DEF PairingBacked
    <3>1. CASE r = s
      BY <2>1, <2>3, <3>1 DEF TypeOK
    <3>2. CASE r # s
      <4>1. pairings'[r] = pairings[r]
        BY <2>1, <3>2 DEF TypeOK
      <4> QED
        BY <2>1, <4>1 DEF PairingBacked
    <3> QED
      BY <3>1, <3>2
  <2> QED
    BY <1>2, <2>4, <2>5
<1> QED
  BY <1>3, <1>4

LEMMA TickKeeps == IInv /\ Tick => IInv'
<1> SUFFICES ASSUME IInv, Tick PROVE IInv'
  OBVIOUS
<1> USE DEF IInv, Tick, tables, history
<1>1. TypeOK' /\ PendingIssued' /\ HandsBacked' /\ PairingBacked'
  BY DEF TypeOK, PendingIssued, HandsBacked, PairingBacked
<1>2. \A t \in issued : t.issue.at \in Nat
  BY DEF TypeOK, Ticket, Issue
<1>3. IssuedBefore'
  BY <1>2 DEF IssuedBefore, TypeOK
<1> QED
  BY <1>1, <1>3

LEMMA StepKeeps == IInv /\ [Next]_vars => IInv'
<1> SUFFICES ASSUME IInv, [Next]_vars PROVE IInv'
  OBVIOUS
<1>1. CASE UNCHANGED vars
  BY <1>1 DEF vars, tables, history, IInv, TypeOK, PendingIssued, HandsBacked, IssuedBefore,
              PairingBacked
<1>2. ASSUME NEW p \in Processes, Confirm(p) PROVE IInv'
  BY <1>2, FindKeeps, GrantKeeps, LeavingKeeps DEF Confirm
<1>3. ASSUME NEW p \in Processes, NEW s \in Senders,
             \E c \in Codes, level \in Levels : IssueCode(p, c, s, level)
      PROVE  IInv'
  BY <1>3, IssueKeeps
<1>4. ASSUME NEW p \in Processes, NEW s \in Senders, Revoke(p, s) \/ ForcePairOwner(p, s)
      PROVE  IInv'
  BY <1>4, OutOfBandKeeps
<1> QED
  BY <1>1, <1>2, <1>3, <1>4, TickKeeps DEF Next

(* The inductive invariant of the store of glc/security/pairing.py holds   *)
(* throughout, whatever the two processes interleave and wherever a        *)
(* confirmation is cut.                                                    *)
THEOREM PairingInvariant == Spec => []IInv
<1> QED
  BY InitEstablishes, StepKeeps, PTL DEF Spec

(* Nobody is paired but by the installer or by a code issued for him, at   *)
(* that level, no more than Ttl before: for all Senders, Codes, Processes. *)
THEOREM NobodyPairedByAccident == Spec => []PairedByIntent
<1>1. IInv => PairedByIntent
  BY DEF IInv, PairedByIntent
<1> QED
  BY <1>1, PairingInvariant, PTL
-----------------------------------------------------------------------------
(* What a process is about to delete was granted, or has expired.          *)
HandOf(call) ==
  /\ call.step = "granted" => TicketOf(call.code, call.issue) \in DOMAIN grants
  /\ call.step = "expired" =>
       TicketOf(call.code, call.issue) \in issued /\ call.issue.at + Ttl < now

HandsKnown == \A p \in Processes : HandOf(confirms[p])

(* What is known of the others' hands stays so: histories and time grow.   *)
LEMMA OthersHands ==
  ASSUME IInv, IInv', HandsKnown, now' >= now, issued \subseteq issued',
         DOMAIN grants \subseteq DOMAIN grants',
         NEW p \in Processes, \A q \in Processes : q # p => confirms'[q] = confirms[q],
         /\ confirms'[p].step = "granted" =>
              TicketOf(confirms'[p].code, confirms'[p].issue) \in DOMAIN grants'
         /\ confirms'[p].step = "expired" =>
              /\ TicketOf(confirms'[p].code, confirms'[p].issue) \in issued'
              /\ confirms'[p].issue.at + Ttl < now'
  PROVE  HandsKnown'
<1> SUFFICES ASSUME NEW q \in Processes, q # p PROVE HandOf(confirms[q])'
  BY DEF HandsKnown, HandOf
<1>1. confirms'[q] = confirms[q] /\ HandOf(confirms[q])
  BY DEF HandsKnown
<1>2. confirms[q].step = "expired" => confirms[q] \in InConfirm
  BY DEF IInv, TypeOK, Outside
<1>3. confirms[q].step = "expired" => confirms[q].issue.at \in Nat
  BY <1>2 DEF InConfirm, Issue
<1>4. now \in Nat /\ now' \in Nat /\ Ttl \in Nat
  BY TtlAssumption DEF IInv, TypeOK
<1> QED BY <1>1, <1>3, <1>4 DEF HandOf

LEMMA HandsKnownKept == IInv /\ HandsKnown /\ [Next]_vars => HandsKnown'
<1> SUFFICES ASSUME IInv, HandsKnown, [Next]_vars PROVE HandsKnown'
  OBVIOUS
<1>1. IInv' /\ now \in Nat /\ confirms \in [Processes -> InConfirm \union {Outside}]
  BY StepKeeps DEF IInv, TypeOK
<1>2. ASSUME UNCHANGED confirms, now' >= now, issued \subseteq issued', grants' = grants
      PROVE  HandsKnown'
  <2>1. ASSUME NEW p \in Processes PROVE HandOf(confirms[p])'
    <3>1. confirms'[p] = confirms[p] /\ HandOf(confirms[p])
      BY <1>2 DEF HandsKnown
    <3>2. confirms[p].step = "expired" => confirms[p] \in InConfirm
      BY <1>1 DEF Outside
    <3>3. confirms[p].step = "expired" => confirms[p].issue.at \in Nat
      BY <3>2 DEF InConfirm, Issue
    <3>4. now' \in Nat /\ Ttl \in Nat
      BY <1>1, TtlAssumption DEF IInv, TypeOK
    <3> QED BY <1>1, <1>2, <3>1, <3>3, <3>4 DEF HandOf
  <2> QED BY <2>1 DEF HandsKnown
<1>3. ASSUME NEW p \in Processes, NEW c \in Codes, FindCode(p, c) PROVE HandsKnown'
  <2> DEFINE hand == [step |-> IF Expired(pending[c]) THEN "expired" ELSE "granting",
                      code |-> c, issue |-> pending[c], paired_at |-> now]
  <2>1. /\ pending[c] # NoIssue /\ confirms' = [confirms EXCEPT ![p] = hand]
        /\ UNCHANGED <<now, issued, grants>>
    BY <1>3 DEF FindCode, history
  <2>2. TicketOf(c, pending[c]) \in issued
    BY <2>1 DEF IInv, PendingIssued
  <2>3. /\ hand.step # "granted"
        /\ hand.step = "expired" => /\ TicketOf(hand.code, hand.issue) \in issued
                                    /\ hand.issue.at + Ttl < now
    BY <2>2 DEF Expired
  <2> HIDE DEF hand
  <2>4. confirms'[p] = hand /\ \A q \in Processes : q # p => confirms'[q] = confirms[q]
    BY <1>1, <2>1
  <2> QED BY <1>1, <2>1, <2>3, <2>4, OthersHands
<1>4. ASSUME NEW p \in Processes, Grant(p) PROVE HandsKnown'
  <2> DEFINE call == confirms[p]
  <2>1. /\ confirms' = [confirms EXCEPT ![p].step = "granted"] /\ call.step = "granting"
        /\ DOMAIN grants' = DOMAIN grants \union {TicketOf(call.code, call.issue)}
        /\ UNCHANGED <<now, issued>>
    BY <1>4 DEF Grant, TicketOf
  <2>2. call \in InConfirm
    BY <1>1, <2>1 DEF Outside
  <2>3. /\ confirms'[p] = [call EXCEPT !.step = "granted"]
        /\ \A q \in Processes : q # p => confirms'[q] = confirms[q]
    BY <1>1, <2>1
  <2>4. /\ confirms'[p].step = "granted" /\ confirms'[p].code = call.code
        /\ confirms'[p].issue = call.issue
    BY <2>2, <2>3 DEF InConfirm
  <2> HIDE DEF call
  <2> QED BY <1>1, <2>1, <2>3, <2>4, OthersHands
<1>5. ASSUME NEW p \in Processes, DeleteCode(p) \/ Cut(p) PROVE HandsKnown'
  <2>1. confirms' = [confirms EXCEPT ![p] = Outside] /\ UNCHANGED <<now, issued, grants>>
    BY <1>5 DEF DeleteCode, Cut, history
  <2>2. confirms'[p].step = "none" /\ \A q \in Processes : q # p => confirms'[q] = confirms[q]
    BY <1>1, <2>1 DEF Outside
  <2> QED BY <1>1, <2>1, <2>2, OthersHands
<1>6. ASSUME NEW p \in Processes, NEW s \in Senders,
             \/ \E c \in Codes, level \in Levels : IssueCode(p, c, s, level)
             \/ Revoke(p, s) \/ ForcePairOwner(p, s)
      PROVE  HandsKnown'
  <2>1. UNCHANGED <<now, confirms, grants>> /\ issued \subseteq issued'
    BY <1>6 DEF IssueCode, Revoke, ForcePairOwner
  <2> QED BY <1>1, <1>2, <2>1
<1>7. ASSUME Tick PROVE HandsKnown'
  <2>1. UNCHANGED <<confirms, grants, issued>> /\ now' = now + 1
    BY <1>7 DEF Tick, history
  <2> QED BY <1>1, <1>2, <2>1
<1>8. ASSUME UNCHANGED vars PROVE HandsKnown'
  BY <1>1, <1>2, <1>8 DEF vars, history
<1>9. ASSUME NEW p \in Processes, Confirm(p) PROVE HandsKnown'
  BY <1>3, <1>4, <1>5, <1>9 DEF Confirm
<1> QED BY <1>6, <1>7, <1>8, <1>9 DEF Next

(* A code that is pending, not expired and never drawn again is removed by *)
(* the confirmation that used it and by nothing else (the DELETE statements*)
(* of confirm_code go by code alone), for all Senders, Codes, Processes.   *)
THEOREM CodesGoWhenSpent == Spec => OnlySpentCodesGo
<1> DEFINE Spent == \A c \in Codes :
                      /\ pending[c] # NoIssue /\ pending'[c] # pending[c]
                      /\ ~Expired(pending[c])
                      /\ \A t \in issued' : t.code = c => t.issue = pending[c]
                      => [code |-> c, issue |-> pending[c]] \in DOMAIN grants
<1>1. Init => HandsKnown
  BY DEF Init, HandsKnown, HandOf, Outside
<1>2. IInv /\ HandsKnown /\ [Next]_vars => [Spent]_vars
  <2> SUFFICES ASSUME IInv, HandsKnown, Next, NEW c \in Codes,
                      pending[c] # NoIssue, pending'[c] # pending[c], ~Expired(pending[c]),
                      \A t \in issued' : t.code = c => t.issue = pending[c]
               PROVE  TicketOf(c, pending[c]) \in DOMAIN grants
    BY DEF TicketOf
  <2>1. pending \in [Codes -> Issue \union {NoIssue}] /\ DOMAIN grants \subseteq issued
    BY DEF IInv, TypeOK
  <2>2. ASSUME NEW p \in Processes, NEW d \in Codes, NEW s \in Senders, NEW level \in Levels,
               IssueCode(p, d, s, level)
        PROVE  FALSE
    <3>1. PICK issue : /\ pending' = [pending EXCEPT ![d] = issue]
                       /\ issued' = issued \union {TicketOf(d, issue)}
      BY <2>2 DEF IssueCode, TicketOf
    <3>2. d = c /\ pending'[c] = issue
      BY <2>1, <3>1
    <3>3. TicketOf(c, issue).code = c /\ TicketOf(c, issue).issue = issue
      BY DEF TicketOf
    <3>4. issue = pending[c]
      BY <3>1, <3>2, <3>3
    <3> QED BY <3>2, <3>4
  <2>3. ASSUME NEW p \in Processes, DeleteCode(p) PROVE TicketOf(c, pending[c]) \in DOMAIN grants
    <3> DEFINE call == confirms[p]
    <3>1. /\ call.step \in {"expired", "granted"} /\ pending' = [pending EXCEPT ![call.code] = NoIssue]
          /\ issued' = issued
      BY <2>3 DEF DeleteCode, history
    <3> HIDE DEF call
    <3>2. call.code = c
      BY <2>1, <3>1
    <3>3. HandOf(call)
      BY DEF HandsKnown, call
    <3>4. TicketOf(c, call.issue) \in issued
      BY <2>1, <3>1, <3>2, <3>3 DEF HandOf
    <3>5. call.issue = pending[c]
      BY <3>1, <3>4 DEF TicketOf
    <3> QED BY <3>1, <3>2, <3>3, <3>5 DEF HandOf, Expired
  <2>4. CASE UNCHANGED pending
    BY <2>4
  <2>5. ASSUME NEW p \in Processes, Confirm(p), ~DeleteCode(p) PROVE UNCHANGED pending
    BY <2>5 DEF Confirm, FindCode, Grant, Cut, tables
  <2>6. ASSUME NEW p \in Processes, NEW s \in Senders, Revoke(p, s) \/ ForcePairOwner(p, s)
        PROVE  UNCHANGED pending
    BY <2>6 DEF Revoke, ForcePairOwner
  <2>7. ASSUME Tick PROVE UNCHANGED pending
    BY <2>7 DEF Tick, tables
  <2> QED BY <2>2, <2>3, <2>4, <2>5, <2>6, <2>7 DEF Next
<1> QED BY <1>1, <1>2, InitEstablishes, StepKeeps, HandsKnownKept, PTL DEF Spec, OnlySpentCodesGo

-----------------------------------------------------------------------------
(* Each issue of a code is granted once, but for the processes that are    *)
(* between finding and deleting it, and for the cuts.  Holders: the        *)
(* processes that are at a step of confirm_code() with that issue.         *)
Holders(hands, t, step) ==
  {p \in Processes : hands[p].step = step /\ TicketOf(hands[p].code, hands[p].issue) = t}
GrantsIn(made, t) == IF t \in DOMAIN made THEN made[t] ELSE 0

Once(t, made, hands, table, n) ==
  /\ table[t.code] = t.issue =>
       GrantsIn(made, t) <= Cardinality(Holders(hands, t, "granted")) + n
  /\ GrantsIn(made, t) + Cardinality(Holders(hands, t, "granting")) <= Cardinality(Processes) + n

OnceEach ==
  /\ \A t \in DOMAIN grants : grants[t] \in Nat
  /\ \A t \in issued : t.issue.id < Cardinality(issued)
  /\ \A t \in Ticket : Once(t, grants, confirms, pending, cuts)

LEMMA HoldersFinite ==
  ASSUME NEW hands, NEW t, NEW step
  PROVE  /\ IsFiniteSet(Holders(hands, t, step)) /\ Cardinality(Holders(hands, t, step)) \in Nat
         /\ Cardinality(Processes) \in Nat
<1>1. Holders(hands, t, step) \in SUBSET Processes
  BY DEF Holders
<1> QED BY <1>1, ProcessesAssumption, FS_Subset, FS_CardinalityType

(* Who grants is not who has granted.                                      *)
LEMMA HoldersApart ==
  ASSUME NEW hands, NEW t
  PROVE  Cardinality(Holders(hands, t, "granting")) + Cardinality(Holders(hands, t, "granted"))
           <= Cardinality(Processes)
<1> DEFINE S == Holders(hands, t, "granting")
           T == Holders(hands, t, "granted")
<1>1. S \cap T = {} /\ S \union T \in SUBSET Processes
  BY DEF Holders
<1>2. IsFiniteSet(S) /\ IsFiniteSet(T) /\ Cardinality(S) \in Nat /\ Cardinality(T) \in Nat
  BY HoldersFinite
<1> HIDE DEF S, T
<1>3. Cardinality(S \union T) = Cardinality(S) + Cardinality(T) - Cardinality(S \cap T)
  BY <1>2, FS_Union
<1>4. Cardinality(S \cap T) = 0
  BY <1>1, FS_EmptySet
<1>5. Cardinality(S \union T) <= Cardinality(Processes)
  BY <1>1, ProcessesAssumption, FS_Subset
<1>6. Cardinality(S) + Cardinality(T) <= Cardinality(Processes)
  BY <1>2, <1>3, <1>4, <1>5
<1> QED BY <1>6 DEF S, T

(* One process moves: it leaves the holders, joins them, or neither.       *)
LEMMA HoldersMove ==
  ASSUME NEW h, NEW w, NEW p \in Processes, \A q \in Processes : q # p => w[q] = h[q],
         NEW t, NEW step
  PROVE  LET S == Holders(h, t, step)
             T == Holders(w, t, step)
         IN  /\ p \notin S /\ p \in T => Cardinality(T) = Cardinality(S) + 1
             /\ p \in S /\ p \notin T => Cardinality(S) = Cardinality(T) + 1
             /\ ~(p \in S /\ p \notin T) => Cardinality(T) >= Cardinality(S)
             /\ ~(p \notin S /\ p \in T) => Cardinality(T) <= Cardinality(S)
<1> DEFINE S == Holders(h, t, step)
           T == Holders(w, t, step)
<1>1. \A q \in Processes : q # p => (q \in S <=> q \in T)
  BY DEF Holders
<1>2. S \subseteq Processes /\ T \subseteq Processes
  BY DEF Holders
<1>3. IsFiniteSet(S) /\ IsFiniteSet(T) /\ Cardinality(S) \in Nat /\ Cardinality(T) \in Nat
  BY HoldersFinite
<1> HIDE DEF S, T
<1>4. CASE p \notin S /\ p \in T
  <2>1. T = S \union {p}
    BY <1>1, <1>2, <1>4
  <2> QED BY <1>3, <1>4, <2>1, FS_AddElement DEF S, T
<1>5. CASE p \in S /\ p \notin T
  <2>1. S = T \union {p}
    BY <1>1, <1>2, <1>5
  <2> QED BY <1>3, <1>5, <2>1, FS_AddElement DEF S, T
<1>6. CASE p \in S <=> p \in T
  <2>1. S = T
    BY <1>1, <1>2, <1>6
  <2> QED BY <1>3, <1>6, <2>1 DEF S, T
<1> QED BY <1>4, <1>5, <1>6

(* A new issue has an id of its own, so it was not granted, nor is anybody *)
(* about to grant it.                                                      *)
LEMMA IssueOnce ==
  ASSUME IInv, IInv', OnceEach, NEW p \in Processes, NEW c \in Codes, NEW s \in Senders,
         NEW level \in Levels, IssueCode(p, c, s, level)
  PROVE  OnceEach'
<1>1. PICK issue : /\ issue.id = Cardinality(issued)
                   /\ pending' = [pending EXCEPT ![c] = issue]
                   /\ issued' = issued \union {TicketOf(c, issue)}
                   /\ UNCHANGED <<confirms, grants, cuts>>
  BY DEF IssueCode, TicketOf
<1> DEFINE new == TicketOf(c, issue)
<1>2. new.issue = issue /\ new.code = c
  BY DEF TicketOf
<1>3. /\ IsFiniteSet(issued) /\ Cardinality(issued) \in Nat /\ issued \subseteq Ticket
      /\ DOMAIN grants \subseteq issued /\ cuts \in Nat
      /\ pending \in [Codes -> Issue \union {NoIssue}]
  BY FS_CardinalityType DEF IInv, IssuedBefore, TypeOK
<1> HIDE DEF new
<1>4. new \notin issued
  <2> SUFFICES ASSUME new \in issued PROVE FALSE
    OBVIOUS
  <2>1. new.issue.id < Cardinality(issued)
    BY DEF OnceEach
  <2> QED BY <1>1, <1>2, <1>3, <2>1
<1>5. issued' = issued \union {new}
  BY <1>1 DEF new
<1>6. Cardinality(issued') = Cardinality(issued) + 1
  BY <1>3, <1>4, <1>5, FS_AddElement
<1>7. \A t \in issued' : t.issue.id < Cardinality(issued')
  <2> SUFFICES ASSUME NEW t \in issued' PROVE t.issue.id < Cardinality(issued')
    OBVIOUS
  <2>1. CASE t = new
    BY <1>1, <1>2, <1>3, <1>6, <2>1
  <2>2. CASE t \in issued
    <3>1. t.issue.id < Cardinality(issued) /\ t.issue.id \in Nat
      BY <1>3, <2>2 DEF OnceEach, Ticket, Issue
    <3> QED BY <1>3, <1>6, <3>1
  <2> QED BY <1>5, <2>1, <2>2
<1>8. ASSUME NEW t \in Ticket PROVE Once(t, grants, confirms, pending', cuts)
  <2>1. Once(t, grants, confirms, pending, cuts)
    BY DEF OnceEach
  <2>2. CASE pending'[t.code] = t.issue /\ t.code = c
    <3>1. t.issue = issue
      BY <1>1, <1>3, <2>2
    <3>2. t = new
      BY <2>2, <3>1 DEF new, TicketOf, Ticket
    <3>3. GrantsIn(grants, t) = 0
      BY <1>3, <1>4, <3>2 DEF GrantsIn
    <3>4. 0 <= Cardinality(Holders(confirms, t, "granted")) + cuts
      BY <1>3, HoldersFinite
    <3> QED BY <2>1, <3>3, <3>4 DEF Once
  <2>3. CASE pending'[t.code] = t.issue /\ t.code # c
    <3>1. pending'[t.code] = pending[t.code]
      BY <1>1, <1>3, <2>3 DEF Ticket
    <3> QED BY <2>1, <3>1 DEF Once
  <2>4. CASE pending'[t.code] # t.issue
    BY <2>1, <2>4 DEF Once
  <2> QED BY <2>2, <2>3, <2>4
<1>9. \A t \in DOMAIN grants : grants[t] \in Nat
  BY DEF OnceEach
<1>10. \A t \in Ticket : Once(t, grants', confirms', pending', cuts')
  BY <1>1, <1>8
<1> QED BY <1>1, <1>7, <1>9, <1>10 DEF OnceEach

LEMMA GrantsInNat == ASSUME OnceEach, NEW t PROVE GrantsIn(grants, t) \in Nat
  BY DEF OnceEach, GrantsIn

(* Who finds a code that was granted may grant it again, while others hold *)
(* it: they are counted.                                                   *)
LEMMA FindOnce ==
  ASSUME IInv, OnceEach, NEW p \in Processes, NEW c \in Codes, FindCode(p, c)
  PROVE  OnceEach'
<1> DEFINE hand == [step |-> IF Expired(pending[c]) THEN "expired" ELSE "granting",
                    code |-> c, issue |-> pending[c], paired_at |-> now]
<1>1. /\ confirms[p] = Outside /\ confirms' = [confirms EXCEPT ![p] = hand]
      /\ UNCHANGED <<pending, issued, grants, cuts>>
  BY DEF FindCode, tables, history
<1>2. confirms \in [Processes -> InConfirm \union {Outside}] /\ cuts \in Nat
  BY DEF IInv, TypeOK
<1>3. hand.step # "granted" /\ hand.code = c /\ hand.issue = pending[c]
  OBVIOUS
<1> HIDE DEF hand
<1>4. confirms'[p] = hand /\ \A q \in Processes : q # p => confirms'[q] = confirms[q]
  BY <1>1, <1>2
<1>5. ASSUME NEW t \in Ticket PROVE Once(t, grants, confirms', pending, cuts)
  <2> DEFINE granted == Cardinality(Holders(confirms, t, "granted"))
             granting == Cardinality(Holders(confirms, t, "granting"))
             granted_p == Cardinality(Holders(confirms', t, "granted"))
             granting_p == Cardinality(Holders(confirms', t, "granting"))
             n == GrantsIn(grants, t)
             all == Cardinality(Processes)
  <2>1. {granted, granting, granted_p, granting_p, n, all} \subseteq Nat
    BY HoldersFinite, GrantsInNat
  <2>2. Once(t, grants, confirms, pending, cuts)
    BY DEF OnceEach
  <2>3. p \notin Holders(confirms, t, "granted") /\ p \notin Holders(confirms', t, "granted")
    BY <1>1, <1>3, <1>4 DEF Holders, Outside
  <2>4. granted_p = granted
    BY <1>4, <2>1, <2>3, HoldersMove
  <2>5. granting_p + granted_p <= all
    BY HoldersApart
  <2>6. CASE p \in Holders(confirms', t, "granting")
    <3>1. pending[t.code] = t.issue
      BY <1>3, <1>4, <2>6 DEF Holders, TicketOf
    <3>2. n <= granted + cuts
      BY <2>2, <3>1 DEF Once
    <3>3. n + granting_p <= all + cuts
      <4> HIDE DEF n, granted, granting_p, granted_p, all
      <4> QED BY <1>2, <2>1, <2>4, <2>5, <3>2
    <3> QED BY <2>2, <2>4, <3>3 DEF Once
  <2>7. CASE p \notin Holders(confirms', t, "granting")
    <3>1. granting_p <= granting
      BY <1>4, <2>7, HoldersMove
    <3>2. n + granting <= all + cuts
      BY <2>2 DEF Once
    <3>3. n + granting_p <= all + cuts
      <4> HIDE DEF n, granting, granting_p, all
      <4> QED BY <1>2, <2>1, <3>1, <3>2
    <3> QED BY <2>2, <2>4, <3>3 DEF Once
  <2> QED BY <2>6, <2>7
<1> QED BY <1>1, <1>5 DEF OnceEach

LEMMA GrantOnce ==
  ASSUME IInv, OnceEach, NEW p \in Processes, Grant(p)
  PROVE  OnceEach'
<1> DEFINE call == confirms[p]
           ticket == TicketOf(call.code, call.issue)
<1>1. /\ call.step = "granting" /\ confirms' = [confirms EXCEPT ![p].step = "granted"]
      /\ grants' = [t \in DOMAIN grants \union {ticket} |->
                      IF t = ticket THEN GrantsOf(t) + 1 ELSE grants[t]]
      /\ UNCHANGED <<pending, issued, cuts>>
  BY DEF Grant, TicketOf
<1>2. confirms \in [Processes -> InConfirm \union {Outside}] /\ cuts \in Nat
  BY DEF IInv, TypeOK
<1>3. call \in InConfirm
  BY <1>1, <1>2 DEF Outside
<1>4. /\ confirms'[p] = [call EXCEPT !.step = "granted"]
      /\ \A q \in Processes : q # p => confirms'[q] = confirms[q]
  BY <1>1, <1>2
<1>5. /\ confirms'[p].step = "granted" /\ confirms'[p].code = call.code
      /\ confirms'[p].issue = call.issue
  BY <1>3, <1>4 DEF InConfirm
<1>6. \A t \in DOMAIN grants' : grants'[t] \in Nat
  BY <1>1 DEF OnceEach, GrantsOf
<1>7. ASSUME NEW t
      PROVE  GrantsIn(grants', t) = IF t = ticket THEN GrantsIn(grants, t) + 1 ELSE GrantsIn(grants, t)
  <2> HIDE DEF ticket
  <2> QED BY <1>1 DEF GrantsIn, GrantsOf
<1>8. ASSUME NEW t \in Ticket PROVE Once(t, grants', confirms', pending, cuts)
  <2> DEFINE granted == Cardinality(Holders(confirms, t, "granted"))
             granting == Cardinality(Holders(confirms, t, "granting"))
             granted_p == Cardinality(Holders(confirms', t, "granted"))
             granting_p == Cardinality(Holders(confirms', t, "granting"))
             n == GrantsIn(grants, t)
             n_p == GrantsIn(grants', t)
             all == Cardinality(Processes)
  <2>1. {granted, granting, granted_p, granting_p, n, all} \subseteq Nat
    BY HoldersFinite, GrantsInNat
  <2>2. /\ pending[t.code] = t.issue => n <= granted + cuts
        /\ n + granting <= all + cuts
    BY DEF OnceEach, Once
  <2>3. CASE t = ticket
    <3>1. /\ p \in Holders(confirms, t, "granting") /\ p \notin Holders(confirms', t, "granting")
          /\ p \notin Holders(confirms, t, "granted") /\ p \in Holders(confirms', t, "granted")
      BY <1>1, <1>5, <2>3 DEF Holders
    <3>2. granting = granting_p + 1 /\ granted_p = granted + 1
      BY <1>4, <3>1, HoldersMove
    <3>3. n_p = n + 1
      BY <1>7, <2>3
    <3> HIDE DEF n, n_p, granted, granting, granted_p, granting_p, all
    <3>4. /\ pending[t.code] = t.issue => n_p <= granted_p + cuts
          /\ n_p + granting_p <= all + cuts
      BY <1>2, <2>1, <2>2, <3>2, <3>3
    <3> QED BY <3>4 DEF Once, n_p, granted_p, granting_p, all
  <2>4. CASE t # ticket
    <3>1. /\ p \notin Holders(confirms, t, "granting") /\ p \notin Holders(confirms', t, "granting")
          /\ p \notin Holders(confirms, t, "granted") /\ p \notin Holders(confirms', t, "granted")
      BY <1>5, <2>4 DEF Holders
    <3>2. granting_p = granting
      <4>1. granting_p <= granting /\ granting_p >= granting
        BY <1>4, <3>1, HoldersMove
      <4> HIDE DEF granting, granting_p
      <4> QED BY <2>1, <4>1
    <3>3. granted_p = granted
      <4>1. granted_p <= granted /\ granted_p >= granted
        BY <1>4, <3>1, HoldersMove
      <4> HIDE DEF granted, granted_p
      <4> QED BY <2>1, <4>1
    <3>4. n_p = n
      BY <1>7, <2>4
    <3> HIDE DEF n, n_p, granted, granting, granted_p, granting_p, all
    <3>5. /\ pending[t.code] = t.issue => n_p <= granted_p + cuts
          /\ n_p + granting_p <= all + cuts
      BY <2>2, <3>2, <3>3, <3>4
    <3> QED BY <3>5 DEF Once, n_p, granted_p, granting_p, all
  <2> QED BY <2>3, <2>4
<1>9. \A t \in Ticket : Once(t, grants', confirms', pending', cuts')
  BY <1>1, <1>8
<1>10. \A t \in issued' : t.issue.id < Cardinality(issued')
  BY <1>1 DEF OnceEach
<1> QED BY <1>6, <1>9, <1>10 DEF OnceEach

(* Who leaves has deleted the code, or is one of the cuts.                 *)
LEMMA LeavingOnce ==
  ASSUME IInv, OnceEach, NEW p \in Processes, DeleteCode(p) \/ Cut(p)
  PROVE  OnceEach'
<1>1. /\ confirms' = [confirms EXCEPT ![p] = Outside] /\ UNCHANGED <<issued, grants>>
  BY DEF DeleteCode, Cut, history
<1>2. /\ confirms \in [Processes -> InConfirm \union {Outside}] /\ cuts \in Nat
      /\ pending \in [Codes -> Issue \union {NoIssue}]
  BY DEF IInv, TypeOK
<1>3. confirms'[p] = Outside /\ \A q \in Processes : q # p => confirms'[q] = confirms[q]
  BY <1>1, <1>2
<1>4. ASSUME NEW t \in Ticket PROVE Once(t, grants, confirms', pending', cuts')
  <2> DEFINE granted == Cardinality(Holders(confirms, t, "granted"))
             granting == Cardinality(Holders(confirms, t, "granting"))
             granted_p == Cardinality(Holders(confirms', t, "granted"))
             granting_p == Cardinality(Holders(confirms', t, "granting"))
             n == GrantsIn(grants, t)
             all == Cardinality(Processes)
  <2>1. {granted, granting, granted_p, granting_p, n, all} \subseteq Nat
    BY HoldersFinite, GrantsInNat
  <2>2. /\ pending[t.code] = t.issue => n <= granted + cuts
        /\ n + granting <= all + cuts
    BY DEF OnceEach, Once
  <2>3. p \notin Holders(confirms', t, "granted") /\ p \notin Holders(confirms', t, "granting")
    BY <1>3 DEF Holders, Outside
  <2>4. granting_p <= granting /\ (granted <= granted_p \/ granted = granted_p + 1)
    BY <1>3, <2>3, HoldersMove
  <2>5. CASE Cut(p)
    <3>1. pending' = pending /\ cuts' = cuts + 1
      BY <2>5 DEF Cut, tables
    <3> HIDE DEF n, granted, granting, granted_p, granting_p, all
    <3>2. /\ pending'[t.code] = t.issue => n <= granted_p + cuts'
          /\ n + granting_p <= all + cuts'
      BY <1>2, <2>1, <2>2, <2>4, <3>1
    <3> QED BY <3>2 DEF Once, n, granted_p, granting_p, all
  <2>6. CASE DeleteCode(p)
    <3>1. /\ pending' = [pending EXCEPT ![confirms[p].code] = NoIssue] /\ cuts' = cuts
      BY <2>6 DEF DeleteCode, history
    <3>2. t.code \in Codes /\ t.issue # NoIssue
      BY NoIssueAssumption DEF Ticket
    <3>3. pending'[t.code] = t.issue => pending[t.code] = t.issue /\ t.code # confirms[p].code
      BY <1>2, <3>1, <3>2
    <3>4. t.code # confirms[p].code => granted <= granted_p
      <4>1. t.code # confirms[p].code => p \notin Holders(confirms, t, "granted")
        BY DEF Holders, TicketOf
      <4> QED BY <1>3, <4>1, HoldersMove
    <3> HIDE DEF n, granted, granting, granted_p, granting_p, all
    <3>5. /\ pending'[t.code] = t.issue => n <= granted_p + cuts'
          /\ n + granting_p <= all + cuts'
      BY <1>2, <2>1, <2>2, <2>4, <3>1, <3>3, <3>4
    <3> QED BY <3>5 DEF Once, n, granted_p, granting_p, all
  <2> QED BY <2>5, <2>6
<1>5. \A t \in Ticket : Once(t, grants', confirms', pending', cuts')
  BY <1>1, <1>4
<1>6. /\ \A t \in issued' : t.issue.id < Cardinality(issued')
      /\ \A t \in DOMAIN grants' : grants'[t] \in Nat
  BY <1>1 DEF OnceEach
<1> QED BY <1>5, <1>6 DEF OnceEach

LEMMA OnceKept == IInv /\ OnceEach /\ [Next]_vars => OnceEach'
<1> SUFFICES ASSUME IInv, OnceEach, [Next]_vars PROVE OnceEach'
  OBVIOUS
<1>1. IInv'
  BY StepKeeps
<1>2. ASSUME UNCHANGED <<pending, confirms, issued, grants, cuts>> PROVE OnceEach'
  BY <1>2 DEF OnceEach
<1>3. ASSUME NEW p \in Processes, Confirm(p) PROVE OnceEach'
  BY <1>3, FindOnce, GrantOnce, LeavingOnce DEF Confirm
<1>4. ASSUME NEW p \in Processes, NEW s \in Senders,
             \/ \E c \in Codes, level \in Levels : IssueCode(p, c, s, level)
             \/ Revoke(p, s) \/ ForcePairOwner(p, s)
      PROVE  OnceEach'
  <2>1. CASE Revoke(p, s) \/ ForcePairOwner(p, s)
    BY <1>2, <2>1 DEF Revoke, ForcePairOwner
  <2> QED BY <1>1, <1>4, <2>1, IssueOnce
<1>5. ASSUME Tick \/ UNCHANGED vars PROVE OnceEach'
  BY <1>2, <1>5 DEF Tick, vars, tables, history
<1> QED BY <1>3, <1>4, <1>5 DEF Next

(* A code pairs once, but for the processes that found it at the same time *)
(* and the confirmations cut before their DELETE: for all Senders and Codes*)
(* and any finite set of Processes, however often codes are drawn again.   *)
THEOREM CodesPairOnce == Spec => []CodesAreSpent
<1>1. Init => OnceEach
  <2> SUFFICES ASSUME Init PROVE OnceEach
    OBVIOUS
  <2>1. DOMAIN grants = {} /\ issued = {} /\ cuts = 0 /\ confirms = [p \in Processes |-> Outside]
    BY DEF Init
  <2>2. ASSUME NEW t \in Ticket PROVE Once(t, grants, confirms, pending, cuts)
    <3>1. GrantsIn(grants, t) = 0
      BY <2>1 DEF GrantsIn
    <3>2. Holders(confirms, t, "granting") \in SUBSET Processes
      BY DEF Holders
    <3>3. Cardinality(Holders(confirms, t, "granting")) <= Cardinality(Processes)
      BY <3>2, ProcessesAssumption, FS_Subset
    <3>4. Cardinality(Holders(confirms, t, "granting")) \in Nat
      BY HoldersFinite
    <3>5. Cardinality(Holders(confirms, t, "granted")) \in Nat /\ Cardinality(Processes) \in Nat
      BY HoldersFinite
    <3> QED BY <2>1, <3>1, <3>3, <3>4, <3>5 DEF Once
  <2> QED BY <2>1, <2>2 DEF OnceEach
<1>2. IInv /\ OnceEach => CodesAreSpent
  <2> SUFFICES ASSUME IInv, OnceEach, NEW t \in DOMAIN grants
               PROVE  grants[t] <= Cardinality(Processes) + cuts
    BY DEF CodesAreSpent
  <2>1. t \in Ticket /\ cuts \in Nat /\ grants[t] \in Nat
    BY DEF IInv, TypeOK, OnceEach
  <2>2. grants[t] + Cardinality(Holders(confirms, t, "granting")) <= Cardinality(Processes) + cuts
    BY <2>1 DEF OnceEach, Once, GrantsIn
  <2>3. Cardinality(Holders(confirms, t, "granting")) \in Nat /\ Cardinality(Processes) \in Nat
    BY HoldersFinite
  <2> QED BY <2>1, <2>2, <2>3
<1> QED BY <1>1, <1>2, InitEstablishes, StepKeeps, OnceKept, PTL DEF Spec
-----------------------------------------------------------------------------
(***************************************************************************)
(* PolicyEngine: the verdict on a tool call while policy.yaml is edited    *)
(* and reloaded, for any threads, rule lists and calls.                    *)
(*                                                                         *)
(* The loop of evaluate() finds the least rules that match (by induction   *)
(* on its turns, in the form of a least turn that would be wrong), so that *)
(* a verdict is what the list means.  The invariant is about each call on  *)
(* each stack, wherever it was interrupted: an evaluate() has seen the     *)
(* rules in force and decides on rules it has seen; a reload that a SIGHUP *)
(* is still waiting for has yet to read the file, or has what it says.     *)
(***************************************************************************)
(* One turn of the loop of evaluate(), from what the turns before found.   *)
Visit(rules, call, i, e) ==
  IF i = 0 THEN [first |-> 0, deny |-> 0]
  ELSE IF ~Matches(rules[i], call) THEN e
  ELSE [first |-> IF e.first = 0 THEN i ELSE e.first,
        deny  |-> IF e.deny = 0 /\ rules[i].action = "deny" THEN i ELSE e.deny]

LEMMA ScanVisits ==
  ASSUME NEW rules, NEW call, Len(rules) \in Nat
  PROVE  \E f : /\ f = [i \in 0..Len(rules) |-> Visit(rules, call, i, f[i - 1])]
               /\ Scan(rules, call) = f[Len(rules)]
<1> DEFINE Step(i, e) == Visit(rules, call, i, e)
           Is(f, n) == f = [i \in 0..n |-> Step(i, f[i - 1])]
           g == CHOOSE f : Is(f, Len(rules))
<1>1. Scan(rules, call) = g[Len(rules)]
  BY DEF Scan, Visit
<1>2. \A n \in Nat : \E f : Is(f, n)
  <2> DEFINE S == {n \in Nat : ~\E f : Is(f, n)}
  <2>1. SUFFICES ASSUME S # {} PROVE FALSE
    OBVIOUS
  <2>2. PICK n \in S : \A m \in S : n <= m
    <3>1. S \subseteq Nat
      OBVIOUS
    <3> HIDE DEF S
    <3> QED BY <2>1, <3>1, LeastElement
  <2> HIDE DEF Step
  <2>3. n # 0
    <3> DEFINE f0 == [i \in 0..0 |-> Step(0, 0)]
    <3>1. f0 = [i \in 0..0 |-> Step(i, f0[i - 1])]
      BY DEF Visit
    <3> QED BY <2>2, <3>1
  <2>4. PICK f : Is(f, n - 1)
    BY <2>2, <2>3
  <2> DEFINE h == [i \in 0..n |-> IF i = n THEN Step(n, f[n - 1]) ELSE f[i]]
  <2>5. Is(h, n)
    <3>1. ASSUME NEW i \in 0..n PROVE h[i] = Step(i, h[i - 1])
      <4>1. CASE i = n
        BY <4>1, <2>2, <2>3
      <4>2. CASE i # n /\ i # 0
        <5>1. i \in 0..(n-1) /\ i - 1 \in 0..(n - 1) /\ i - 1 # n
          BY <4>2, <2>2, <2>3
        <5>2. f[i] = Step(i, f[i - 1])
          BY <5>1, <2>4
        <5>3. h[i] = f[i] /\ h[i - 1] = f[i - 1]
          BY <5>1, <4>2, <2>2
        <5> QED BY <5>2, <5>3
      <4>3. CASE i # n /\ i = 0
        <5>1. 0 \in 0..(n - 1) /\ i = 0
          BY <4>3, <2>2, <2>3
        <5>2. f[0] = Step(0, f[0 - 1]) /\ h[0] = f[0]
          BY <5>1, <4>3, <2>4
        <5>3. \A e, d : Step(0, e) = Step(0, d)
          BY DEF Step, Visit
        <5> QED BY <5>1, <5>2, <5>3
      <4> QED BY <4>1, <4>2, <4>3
    <3> QED BY <3>1
  <2> QED BY <2>2, <2>5
<1>3. Is(g, Len(rules))
  BY <1>2
<1> HIDE DEF g
<1> QED BY <1>1, <1>3

(* What the loop finds: the first rule that matches, the first that also   *)
(* denies.                                                                 *)
Least(i, S) == i \in S /\ \A j \in S : i <= j
Finds(i, S) == (i = 0 /\ S = {}) \/ (i # 0 /\ Least(i, S))

LEMMA ScanFinds ==
  ASSUME NEW rules, NEW call, Len(rules) \in Nat
  PROVE  LET matching == {i \in 1..Len(rules) : Matches(rules[i], call)}
             denying == {i \in matching : rules[i].action = "deny"}
         IN  Finds(Scan(rules, call).first, matching) /\ Finds(Scan(rules, call).deny, denying)
<1> DEFINE n == Len(rules)
           Matching(k) == {i \in 1..k : Matches(rules[i], call)}
           Denying(k) == {i \in 1..k : Matches(rules[i], call) /\ rules[i].action = "deny"}
           Good(e, k) == Finds(e.first, Matching(k)) /\ Finds(e.deny, Denying(k))
<1>1. PICK f : /\ f = [i \in 0..n |-> Visit(rules, call, i, f[i - 1])]
               /\ Scan(rules, call) = f[n]
  BY ScanVisits
<1>2. \A k \in 0..n : Good(f[k], k)
  <2> DEFINE S == {k \in 0..n : ~Good(f[k], k)}
  <2>1. SUFFICES ASSUME S # {} PROVE FALSE
    OBVIOUS
  <2>2. PICK k \in S : \A m \in S : k <= m
    <3>1. S \subseteq Nat
      OBVIOUS
    <3> HIDE DEF S
    <3> QED BY <2>1, <3>1, LeastElement
  <2>3. k \in 0..n /\ ~Good(f[k], k) /\ f[k] = Visit(rules, call, k, f[k - 1])
    <3>1. k \in 0..n /\ ~Good(f[k], k)
      BY <2>2
    <3> HIDE DEF Good
    <3> QED BY <3>1, <1>1
  <2>4. k # 0
    <3>1. SUFFICES ASSUME k = 0 PROVE Good(f[k], k)
      BY <2>3
    <3>2. f[k].first = 0 /\ f[k].deny = 0
      BY <2>3, <3>1 DEF Visit
    <3> QED BY <3>1, <3>2 DEF Finds
  <2>5. k - 1 \in 0..n /\ Good(f[k - 1], k - 1)
    <3>1. k - 1 \in 0..n /\ k - 1 \in Nat /\ k - 1 < k
      BY <2>3, <2>4
    <3>2. k - 1 \notin S
      <4> HIDE DEF S
      <4> QED BY <2>2, <3>1, <2>3
    <3> HIDE DEF Good
    <3> QED BY <3>1, <3>2
  <2>6. PICK e : e = f[k - 1]
    OBVIOUS
  <2>7. \A i \in 1..(k - 1) : i \in Nat /\ 1 <= i /\ i < k
    BY <2>3
  <2>8. k \in Nat /\ 1 <= k /\ 1..k = 1..(k - 1) \union {k}
    BY <2>3, <2>4
  <2>9. PICK a, b, c, d : a = e.first /\ b = e.deny /\ c = f[k].first /\ d = f[k].deny
    OBVIOUS
  <2>10. Finds(a, Matching(k - 1)) /\ Finds(b, Denying(k - 1))
    BY <2>5, <2>6, <2>9
  <2>11. CASE ~Matches(rules[k], call)
    <3>1. f[k] = e
      BY <2>3, <2>4, <2>6, <2>11 DEF Visit
    <3>2. Matching(k) = Matching(k - 1) /\ Denying(k) = Denying(k - 1)
      BY <2>8, <2>11
    <3> QED BY <3>1, <3>2, <2>3, <2>5, <2>6
  <2>12. CASE Matches(rules[k], call)
    <3>1. /\ c = IF a = 0 THEN k ELSE a
          /\ d = IF b = 0 /\ rules[k].action = "deny" THEN k ELSE b
      BY <2>3, <2>4, <2>6, <2>9, <2>12 DEF Visit
    <3>2. Matching(k) = Matching(k - 1) \union {k}
      BY <2>8, <2>12
    <3>3. Denying(k) = IF rules[k].action = "deny" THEN Denying(k - 1) \union {k} ELSE Denying(k - 1)
      BY <2>8, <2>12
    <3>4. \A i \in Matching(k - 1) : i # 0 /\ i <= k
      BY <2>7, <2>8
    <3>5. \A i \in Denying(k - 1) : i # 0 /\ i <= k
      BY <2>7, <2>8
    <3> HIDE DEF Matching, Denying
    <3>6. Finds(c, Matching(k))
      BY <3>1, <3>2, <3>4, <2>8, <2>10 DEF Finds, Least
    <3>7. Finds(d, Denying(k))
      BY <3>1, <3>3, <3>5, <2>8, <2>10 DEF Finds, Least
    <3> QED BY <3>6, <3>7, <2>3, <2>9
  <2> QED BY <2>11, <2>12
<1>3. Good(f[n], n)
  <2>1. n \in 0..n
    OBVIOUS
  <2> HIDE DEF Good, n
  <2> QED BY <1>2, <2>1
<1>4. Denying(n) = {i \in Matching(n) : rules[i].action = "deny"}
  OBVIOUS
<1> QED BY <1>1, <1>3, <1>4

(* So evaluate() decides as the guide says, for every rule list and call:  *)
(* a deny that matches wins, else the first match, else the default.       *)
THEOREM VerdictIsMeaning ==
  ASSUME NEW rules, NEW call, Len(rules) \in Nat
  PROVE  Verdict(rules, call) = Meaning(rules, call)
<1> DEFINE matching == {i \in 1..Len(rules) : Matches(rules[i], call)}
           denying == {i \in matching : rules[i].action = "deny"}
           least == CHOOSE i \in matching : \A j \in matching : i <= j
<1>1. PICK first, deny : first = Scan(rules, call).first /\ deny = Scan(rules, call).deny
  OBVIOUS
<1>2. Finds(first, matching) /\ Finds(deny, denying)
  BY <1>1, ScanFinds
<1>3. Verdict(rules, call) = CASE deny # 0 -> "deny"
                               [] deny = 0 /\ first # 0 -> rules[first].action
                               [] OTHER -> Default(call)
  BY <1>1 DEF Verdict
<1>4. Meaning(rules, call) = IF denying # {} THEN "deny" ELSE IF matching = {} THEN Default(call)
                             ELSE rules[least].action
  <2>1. denying # {} <=> \E i \in matching : rules[i].action = "deny"
    OBVIOUS
  <2>2. Meaning(rules, call) = IF \E i \in matching : rules[i].action = "deny" THEN "deny"
                               ELSE IF matching = {} THEN Default(call) ELSE rules[least].action
    BY Zenon DEF Meaning
  <2> QED BY <2>1, <2>2
<1>5. CASE deny # 0
  <2>1. denying # {}
    BY <1>2, <1>5 DEF Finds, Least
  <2> QED BY <1>3, <1>4, <1>5, <2>1
<1>6. CASE deny = 0 /\ first # 0
  <2>1. denying = {} /\ matching # {} /\ Least(first, matching)
    BY <1>2, <1>6 DEF Finds, Least
  <2>2. least = first
    <3>1. Least(least, matching)
      BY <2>1 DEF Least
    <3>2. least \in matching /\ first \in matching
      BY <2>1, <3>1 DEF Least
    <3>3. least \in Nat /\ first \in Nat
      BY <3>2
    <3> HIDE DEF matching, least
    <3>4. least <= first /\ first <= least
      BY <2>1, <3>1, <3>2 DEF Least
    <3> QED BY <3>3, <3>4
  <2> QED BY <1>3, <1>4, <1>6, <2>1, <2>2
<1>7. CASE deny = 0 /\ first = 0
  <2>1. denying = {} /\ matching = {}
    BY <1>2, <1>7 DEF Finds
  <2> QED BY <1>3, <1>4, <1>7, <2>1
<1> QED BY <1>5, <1>6, <1>7

(* The calls on a stack.                                                   *)
EvalSteps == {"getEngine", "lookEngine", "getRules", "haveRules", "decide"}
ReloadSteps == {"getEngine", "lookEngine", "readFile", "getRules", "haveRules"}
Lists == Policies \union {<< >>, DenyEverything}
Evaluating(step, call, rules, seen) ==
  [op |-> "evaluate", step |-> step, call |-> call, rules |-> rules, seen |-> seen]
Reloading(step, rules) == [op |-> "reload", step |-> step, rules |-> rules]

LEMMA FrameIs ==
  ASSUME NEW f \in Frame
  PROVE  \/ /\ f.op = "evaluate" /\ f = Evaluating(f.step, f.call, f.rules, f.seen)
            /\ f.step \in EvalSteps /\ f.call \in Calls /\ f.rules \in Lists
            /\ f.seen \in SUBSET Lists
         \/ /\ f.op = "reload" /\ f = Reloading(f.step, f.rules)
            /\ f.step \in ReloadSteps /\ f.rules \in Lists
<1> DEFINE E == [op : {"evaluate"}, step : EvalSteps, call : Calls, rules : Lists, seen : SUBSET Lists]
           R == [op : {"reload"}, step : ReloadSteps, rules : Lists]
<1>1. Frame = E \union R
  BY DEF Frame, EvalSteps, ReloadSteps, Lists
<1>2. CASE f \in E
  BY <1>2 DEF Evaluating
<1>3. CASE f \in R
  BY <1>3 DEF Reloading
<1> QED BY <1>1, <1>2, <1>3

LEMMA EvaluatingIs ==
  ASSUME NEW step, NEW call, NEW rules, NEW seen
  PROVE  LET f == Evaluating(step, call, rules, seen) IN
         /\ f.op = "evaluate" /\ f.step = step /\ f.call = call /\ f.rules = rules /\ f.seen = seen
         /\ step \in EvalSteps /\ call \in Calls /\ rules \in Lists /\ seen \in SUBSET Lists
              => f \in Frame
<1> DEFINE f == Evaluating(step, call, rules, seen)
<1>1. /\ f.op = "evaluate" /\ f.step = step /\ f.call = call /\ f.rules = rules /\ f.seen = seen
  BY DEF Evaluating
<1>2. ASSUME step \in EvalSteps, call \in Calls, rules \in Lists, seen \in SUBSET Lists
      PROVE  f \in Frame
  <2>1. f \in [op : {"evaluate"}, step : EvalSteps, call : Calls, rules : Lists,
               seen : SUBSET Lists]
    BY <1>2 DEF Evaluating
  <2> HIDE DEF f
  <2> QED BY <2>1 DEF Frame, EvalSteps, Lists
<1> QED BY <1>1, <1>2

LEMMA ReloadingIs ==
  ASSUME NEW step, NEW rules
  PROVE  LET f == Reloading(step, rules) IN
         /\ f.op = "reload" /\ f.step = step /\ f.rules = rules
         /\ step \in ReloadSteps /\ rules \in Lists => f \in Frame
<1> DEFINE f == Reloading(step, rules)
<1>1. f.op = "reload" /\ f.step = step /\ f.rules = rules
  BY DEF Reloading
<1>2. ASSUME step \in ReloadSteps, rules \in Lists PROVE f \in Frame
  <2>1. f \in [op : {"reload"}, step : ReloadSteps, rules : Lists]
    BY <1>2 DEF Reloading
  <2> HIDE DEF f
  <2> QED BY <2>1 DEF Frame, ReloadSteps, Lists
<1> QED BY <1>1, <1>2

LEMMA FrameMoves ==
  ASSUME NEW f \in Frame, NEW step, NEW rules
  PROVE  /\ f.op = "evaluate" =>
              /\ [f EXCEPT !.step = step] = Evaluating(step, f.call, f.rules, f.seen)
              /\ [f EXCEPT !.step = step, !.rules = rules] = Evaluating(step, f.call, rules, f.seen)
              /\ [f EXCEPT !.seen = @ \union {rules}]
                   = Evaluating(f.step, f.call, f.rules, f.seen \union {rules})
         /\ f.op = "reload" =>
              /\ [f EXCEPT !.step = step] = Reloading(step, f.rules)
              /\ [f EXCEPT !.step = step, !.rules = rules] = Reloading(step, rules)
<1>1. ASSUME f.op = "evaluate"
      PROVE  /\ [f EXCEPT !.step = step] = Evaluating(step, f.call, f.rules, f.seen)
             /\ [f EXCEPT !.step = step, !.rules = rules] = Evaluating(step, f.call, rules, f.seen)
             /\ [f EXCEPT !.seen = @ \union {rules}]
                  = Evaluating(f.step, f.call, f.rules, f.seen \union {rules})
  <2>1. PICK s, c, r, n : f = Evaluating(s, c, r, n)
    BY <1>1, FrameIs
  <2>2. f.step = s /\ f.call = c /\ f.rules = r /\ f.seen = n
    BY <2>1, EvaluatingIs
  <2> DEFINE w == Evaluating(s, c, r, n)
             m == n \union {rules}
  <2>3. [w EXCEPT !.step = step] = Evaluating(step, c, r, n)
    BY DEF Evaluating
  <2>4. [w EXCEPT !.step = step, !.rules = rules] = Evaluating(step, c, rules, n)
    <3> DEFINE v == [w EXCEPT !.step = step, !.rules = rules]
    <3>1. v = [w EXCEPT !.step = step, !.rules = rules]
      OBVIOUS
    <3> HIDE DEF v
    <3>2. v = Evaluating(step, c, rules, n)
      BY <3>1 DEF Evaluating
    <3> QED BY <3>1, <3>2, Zenon
  <2>5. [w EXCEPT !.seen = m] = Evaluating(s, c, r, m)
    <3> HIDE DEF m
    <3> QED BY DEF Evaluating
  <2>6. [f EXCEPT !.seen = @ \union {rules}] = [f EXCEPT !.seen = m]
    BY <2>2
  <2> HIDE DEF w
  <2>7. f = w
    BY <2>1 DEF w
  <2> QED BY <2>2, <2>3, <2>4, <2>5, <2>6, <2>7
<1>2. ASSUME f.op = "reload"
      PROVE  /\ [f EXCEPT !.step = step] = Reloading(step, f.rules)
             /\ [f EXCEPT !.step = step, !.rules = rules] = Reloading(step, rules)
  <2>1. PICK s, r : f = Reloading(s, r)
    BY <1>2, FrameIs
  <2>2. f.step = s /\ f.rules = r
    BY <2>1, ReloadingIs
  <2> DEFINE w == Reloading(s, r)
  <2>3. [w EXCEPT !.step = step] = Reloading(step, r)
    BY DEF Reloading
  <2>4. [w EXCEPT !.step = step, !.rules = rules] = Reloading(step, rules)
    <3> DEFINE v == [w EXCEPT !.step = step, !.rules = rules]
    <3>1. v = [w EXCEPT !.step = step, !.rules = rules]
      OBVIOUS
    <3> HIDE DEF v
    <3>2. v = Reloading(step, rules)
      BY <3>1 DEF Reloading
    <3> QED BY <3>1, <3>2, Zenon
  <2> HIDE DEF w
  <2>5. f = w
    BY <2>1 DEF w
  <2> QED BY <2>2, <2>3, <2>4, <2>5
<1> QED BY <1>1, <1>2

(* The ends of a stack.                                                    *)
LEMMA TopIs ==
  ASSUME NEW S, NEW s \in Seq(S), s # << >>
  PROVE  /\ Last(s) = s[Len(s)] /\ Len(s) \in Nat /\ Len(s) >= 1 /\ Last(s) \in S
         /\ Front(s) \in Seq(S) /\ Len(Front(s)) = Len(s) - 1
         /\ \A i \in 1..(Len(s) - 1) : Front(s)[i] = s[i]
<1>1. Len(s) \in Nat /\ Len(s) >= 1
  OBVIOUS
<1>2. Last(s) = s[Len(s)] /\ Front(s) = SubSeq(s, 1, Len(s) - 1)
  BY DEF Last, Front
<1>3. s[Len(s)] \in S
  BY <1>1
<1>4. /\ SubSeq(s, 1, Len(s) - 1) \in Seq(S) /\ Len(SubSeq(s, 1, Len(s) - 1)) = Len(s) - 1
      /\ \A i \in 1..(Len(s) - 1) : SubSeq(s, 1, Len(s) - 1)[i] = s[i]
  <2>1. PICK m \in Nat : m = Len(s) - 1
    BY <1>1
  <2>2. \A i \in 1..m : i \in 1..Len(s) /\ s[i] \in S /\ 1 + i - 1 = i
    BY <2>1, <1>1
  <2>3. SubSeq(s, 1, m) = [i \in 1..m |-> s[i]]
    BY <2>1, <2>2, <1>1
  <2> QED BY <2>1, <2>2, <2>3
<1> QED BY <1>1, <1>2, <1>3, <1>4

LEMMA TopReplaced ==
  ASSUME NEW S, NEW s \in Seq(S), s # << >>, NEW g \in S
  PROVE  LET w == Append(Front(s), g) IN
         /\ w \in Seq(S) /\ Len(w) = Len(s) /\ w[Len(s)] = g
         /\ \A i \in 1..(Len(s) - 1) : w[i] = s[i]
<1>1. PICK front, n : front = Front(s) /\ n = Len(s)
  OBVIOUS
<1>2. /\ n \in Nat /\ n >= 1 /\ front \in Seq(S) /\ Len(front) = n - 1
      /\ \A i \in 1..(n - 1) : front[i] = s[i]
  BY <1>1, TopIs
<1>3. /\ Append(front, g) \in Seq(S) /\ Len(Append(front, g)) = n /\ Append(front, g)[n] = g
      /\ \A i \in 1..(n - 1) : Append(front, g)[i] = front[i]
  BY <1>2
<1> QED BY <1>1, <1>2, <1>3

(* What a call on a stack holds: the list a verdict will rest on was in    *)
(* force during the call, and a reload that will end the last one asked    *)
(* for has not read the file or has what it says.                          *)
Listed == versions \union {<< >>, DenyEverything}
Due == current /\ ~nested /\ ~hup
Early == {"getEngine", "lookEngine", "readFile"}
HoldsRules(f, listed, due, text) ==
  /\ f \in Frame
  /\ f.op = "evaluate" /\ f.step = "decide" => f.rules \in f.seen /\ f.rules \in listed
  /\ f.op = "reload" => f.rules \in listed /\ (due => f.step \in Early \/ f.rules = text)
KnowsEngine(f, rules) ==
  f.op = "evaluate" =>
    /\ rules # NotBuilt => rules \in f.seen
    /\ f.step \in {"getRules", "haveRules"} => rules # NotBuilt
Reloads(s) == \E i \in 1..Len(s) : s[i].op = "reload"
Flat(s) == Len(s) <= 1 /\ \A i \in 1..Len(s) : s[i].op = "evaluate"

FileSound ==
  /\ file \in versions \union {<< >>, Malformed} /\ versions \subseteq Policies
  /\ engineLock \in Threads \union {Free} /\ rulesLock \in Threads \union {Free}
  /\ writing \in BOOLEAN /\ hup \in BOOLEAN /\ current \in BOOLEAN /\ nested \in BOOLEAN
  /\ current => ~writing
FramesSound ==
  /\ frames \in [Threads -> Seq(Frame)]
  /\ \A t \in Threads : \A i \in 1..Len(frames[t]) :
       /\ HoldsRules(frames[t][i], Listed, Due, FromYaml(file))
       /\ KnowsEngine(frames[t][i], engine)
  /\ \A t \in Workers : Flat(frames[t])
EngineSound ==
  /\ engine \in Listed \union {NotBuilt}
  /\ Due => Reloads(frames[Main]) \/ engine \in {NotBuilt, FromYaml(file)}
AnswerSound ==
  answer # NoVerdict =>
    /\ answer.call \in Calls
    /\ \E rules \in answer.seen : rules \in Listed /\ answer.action = Meaning(rules, answer.call)
PolicyInv == FileSound /\ FramesSound /\ EngineSound /\ AnswerSound

LEMMA ListsAre == \A rules \in Lists : rules # NotBuilt /\ Len(rules) \in Nat
<1>1. ASSUME NEW rules \in Policies PROVE rules # NotBuilt /\ Len(rules) \in Nat
  <2>1. PICK S : rules \in Seq(S)
    BY PoliciesAssumption
  <2> QED BY <2>1, PoliciesAssumption
<1>2. Len(<< >>) \in Nat /\ Len(DenyEverything) \in Nat
  BY DEF DenyEverything
<1> QED BY <1>1, <1>2, NotBuiltAssumption DEF Lists

LEMMA FileIsListed ==
  ASSUME FileSound PROVE FromYaml(file) \in Listed /\ Listed \subseteq Lists
BY DEF FileSound, FromYaml, Listed, Lists

(* Only one thread moves, and the rules in force stay.                     *)
LEMMA OneMoves ==
  ASSUME PolicyInv, NEW t \in Threads, NEW s \in Seq(Frame), frames' = [frames EXCEPT ![t] = s],
         \A i \in 1..Len(s) : /\ HoldsRules(s[i], Listed, Due, FromYaml(file))
                              /\ KnowsEngine(s[i], engine),
         t \in Workers => Flat(s), Reloads(frames[t]) => Reloads(s),
         UNCHANGED <<store, engine, hup, nested>>,
         engineLock' \in Threads \union {Free}, rulesLock' \in Threads \union {Free}, AnswerSound'
  PROVE  PolicyInv'
<1>1. UNCHANGED <<file, writing, versions, current, engine, hup, nested>>
  BY DEF store
<1>2. Listed' = Listed /\ Due' = Due /\ FromYaml(file)' = FromYaml(file)
  BY <1>1 DEF Listed, Due
<1>3. frames \in [Threads -> Seq(Frame)]
  BY DEF PolicyInv, FramesSound
<1>4. frames' \in [Threads -> Seq(Frame)] /\ frames'[t] = s
      /\ \A u \in Threads : u # t => frames'[u] = frames[u]
  BY <1>3
<1>5. FileSound'
  BY <1>1 DEF PolicyInv, FileSound
<1>6. ASSUME NEW u \in Threads, NEW i \in 1..Len(frames'[u])
      PROVE  /\ HoldsRules(frames'[u][i], Listed, Due, FromYaml(file))
             /\ KnowsEngine(frames'[u][i], engine)
  BY <1>4, <1>6 DEF PolicyInv, FramesSound
<1>7. \A u \in Workers : Flat(frames'[u])
  BY <1>4 DEF PolicyInv, FramesSound, Threads
<1>8. FramesSound'
  BY <1>1, <1>2, <1>4, <1>6, <1>7 DEF FramesSound
<1>9. EngineSound'
  <2>1. Main \in Threads
    BY DEF Threads
  <2>2. Reloads(frames[Main]) => Reloads(frames'[Main])
    BY <2>1, <1>4
  <2> QED BY <1>1, <1>2, <2>2 DEF PolicyInv, EngineSound
<1> QED BY <1>5, <1>8, <1>9 DEF PolicyInv

(* A stack whose running call has moved on.                                *)
LEMMA TopStack ==
  ASSUME PolicyInv, NEW t \in Threads, frames[t] # << >>, NEW g, g.op = Top(t).op,
         HoldsRules(g, Listed, Due, FromYaml(file))
  PROVE  LET w == Append(Front(frames[t]), g) IN
         /\ w \in Seq(Frame)
         /\ \A i \in 1..Len(w) : /\ HoldsRules(w[i], Listed, Due, FromYaml(file))
                                 /\ KnowsEngine(w[i], engine) \/ w[i] = g
         /\ t \in Workers => Flat(w)
         /\ Reloads(frames[t]) => Reloads(w)
<1>1. PICK s : s = frames[t] /\ s \in Seq(Frame) /\ s # << >>
  BY DEF PolicyInv, FramesSound
<1>2. PICK w : w = Append(Front(s), g)
  OBVIOUS
<1>3. g \in Frame
  BY DEF HoldsRules
<1>4. Last(s) = s[Len(s)] /\ Len(s) \in Nat /\ Len(s) >= 1
  BY <1>1, TopIs
<1>5. /\ w \in Seq(Frame) /\ Len(w) = Len(s) /\ w[Len(s)] = g
      /\ \A i \in 1..(Len(s) - 1) : w[i] = s[i]
  BY <1>1, <1>2, <1>3, TopReplaced
<1>6. g.op = s[Len(s)].op
  BY <1>1, <1>4 DEF Top
<1>7. \A i \in 1..Len(s) : i = Len(s) \/ i \in 1..(Len(s) - 1)
  BY <1>4
<1>8. \A i \in 1..Len(w) : /\ HoldsRules(w[i], Listed, Due, FromYaml(file))
                           /\ KnowsEngine(w[i], engine) \/ w[i] = g
  BY <1>1, <1>4, <1>5, <1>7 DEF PolicyInv, FramesSound
<1>9. \A i \in 1..Len(s) : w[i].op = s[i].op
  BY <1>5, <1>6, <1>7
<1>10. Reloads(s) => Reloads(w)
  BY <1>5, <1>9 DEF Reloads
<1>11. t \in Workers => Flat(w)
  BY <1>1, <1>5, <1>9 DEF PolicyInv, FramesSound, Flat
<1> QED BY <1>1, <1>2, <1>5, <1>8, <1>10, <1>11

LEMMA TopMoves ==
  ASSUME PolicyInv, NEW t \in Threads, frames[t] # << >>, NEW g, Goto(t, g), g.op = Top(t).op,
         HoldsRules(g, Listed, Due, FromYaml(file)), KnowsEngine(g, engine),
         UNCHANGED <<store, engine, hup, nested>>,
         engineLock' \in Threads \union {Free}, rulesLock' \in Threads \union {Free}, Silent
  PROVE  PolicyInv'
<1>1. PICK w : w = Append(Front(frames[t]), g)
  OBVIOUS
<1>2. /\ w \in Seq(Frame)
      /\ \A i \in 1..Len(w) : /\ HoldsRules(w[i], Listed, Due, FromYaml(file))
                              /\ KnowsEngine(w[i], engine) \/ w[i] = g
      /\ t \in Workers => Flat(w)
      /\ Reloads(frames[t]) => Reloads(w)
  BY <1>1, TopStack
<1>3. frames' = [frames EXCEPT ![t] = w]
  BY <1>1 DEF Goto
<1>4. AnswerSound'
  BY DEF Silent, AnswerSound
<1>5. \A i \in 1..Len(w) : /\ HoldsRules(w[i], Listed, Due, FromYaml(file))
                           /\ KnowsEngine(w[i], engine)
  BY <1>2
<1> QED BY <1>2, <1>3, <1>4, <1>5, OneMoves

(* Other rules come into force, and every evaluate() under way sees them.  *)
LEMMA SeenIs ==
  ASSUME NEW s \in Seq(Frame), NEW rules \in Lists
  PROVE  LET w == Seen(s, rules) IN
         /\ w \in Seq(Frame) /\ Len(w) = Len(s)
         /\ \A i \in 1..Len(s) :
              /\ w[i].op = s[i].op /\ KnowsEngine(w[i], rules)
              /\ \A listed, due, text : HoldsRules(s[i], listed, due, text)
                                          => HoldsRules(w[i], listed, due, text)
<1> DEFINE w == Seen(s, rules)
<1>1. Len(s) \in Nat /\ rules # NotBuilt
  BY ListsAre
<1>2. w = [i \in 1..Len(s) |-> IF s[i].op = "evaluate" THEN [s[i] EXCEPT !.seen = @ \union {rules}]
                                ELSE s[i]]
  BY DEF Seen
<1> HIDE DEF w
<1>3. ASSUME NEW i \in 1..Len(s)
      PROVE  /\ w[i] \in Frame /\ w[i].op = s[i].op /\ KnowsEngine(w[i], rules)
             /\ \A listed, due, text : HoldsRules(s[i], listed, due, text)
                                         => HoldsRules(w[i], listed, due, text)
  <2>1. PICK f \in Frame : f = s[i]
    OBVIOUS
  <2>2. CASE f.op = "evaluate"
    <3>1. w[i] = Evaluating(f.step, f.call, f.rules, f.seen \union {rules})
      BY <1>2, <2>1, <2>2, FrameMoves
    <3>2. PICK g : g = w[i]
      OBVIOUS
    <3>3. /\ g.op = "evaluate" /\ g.step = f.step /\ g.rules = f.rules /\ g.seen = f.seen \union {rules}
      BY <3>1, <3>2, EvaluatingIs
    <3>4. /\ f.step \in EvalSteps /\ f.call \in Calls /\ f.rules \in Lists /\ f.seen \in SUBSET Lists
      BY <2>2, FrameIs
    <3>5. f.seen \union {rules} \in SUBSET Lists
      BY <3>4
    <3>6. g \in Frame
      BY <3>1, <3>2, <3>4, <3>5, EvaluatingIs
    <3>7. KnowsEngine(g, rules)
      BY <1>1, <3>3 DEF KnowsEngine
    <3>8. \A listed, due, text : HoldsRules(f, listed, due, text) => HoldsRules(g, listed, due, text)
      BY <2>2, <3>3, <3>6 DEF HoldsRules
    <3> QED BY <2>1, <2>2, <3>2, <3>3, <3>6, <3>7, <3>8
  <2>3. CASE f.op = "reload"
    <3>1. w[i] = f
      BY <1>2, <2>1, <2>3
    <3> QED BY <2>1, <2>3, <3>1 DEF KnowsEngine
  <2> QED BY <2>2, <2>3, FrameIs
<1>4. w \in Seq(Frame) /\ Len(w) = Len(s)
  <2>1. w = [i \in 1..Len(s) |-> w[i]]
    BY <1>2
  <2>2. \A i \in 1..Len(s) : w[i] \in Frame
    BY <1>3
  <2> QED BY <2>1, <2>2, <1>1
<1> QED BY <1>3, <1>4 DEF w

LEMMA AllSee ==
  ASSUME PolicyInv, NEW stacks \in [Threads -> Seq(Frame)], NEW rules \in Listed,
         \A t \in Threads : \A i \in 1..Len(stacks[t]) :
           HoldsRules(stacks[t][i], Listed, Due, FromYaml(file)),
         \A t \in Workers : Flat(stacks[t]),
         Due => rules = FromYaml(file) \/ Reloads(stacks[Main]),
         frames' = [t \in Threads |-> Seen(stacks[t], rules)], engine' = rules,
         UNCHANGED <<store, hup, nested>>,
         engineLock' \in Threads \union {Free}, rulesLock' \in Threads \union {Free}, Silent
  PROVE  PolicyInv'
<1>1. UNCHANGED <<file, writing, versions, current, hup, nested>>
  BY DEF store
<1>2. Listed' = Listed /\ Due' = Due /\ FromYaml(file)' = FromYaml(file)
  BY <1>1 DEF Listed, Due
<1>3. FileSound'
  BY <1>1 DEF PolicyInv, FileSound
<1>4. rules \in Lists
  BY FileIsListed DEF PolicyInv
<1>5. ASSUME NEW t \in Threads
      PROVE  /\ frames'[t] \in Seq(Frame) /\ Len(frames'[t]) = Len(stacks[t])
             /\ \A i \in 1..Len(stacks[t]) :
                  /\ frames'[t][i].op = stacks[t][i].op /\ KnowsEngine(frames'[t][i], rules)
                  /\ HoldsRules(frames'[t][i], Listed, Due, FromYaml(file))
  <2>1. PICK s \in Seq(Frame) : s = stacks[t]
    OBVIOUS
  <2>2. frames'[t] = Seen(s, rules)
    BY <2>1
  <2> QED BY <2>1, <2>2, <1>4, SeenIs
<1>6. frames' \in [Threads -> Seq(Frame)]
  <2>1. frames' = [t \in Threads |-> frames'[t]]
    OBVIOUS
  <2> QED BY <2>1, <1>5
<1>7. ASSUME NEW t \in Workers PROVE Flat(frames'[t])
  <2>1. /\ Len(frames'[t]) = Len(stacks[t])
        /\ \A i \in 1..Len(stacks[t]) : frames'[t][i].op = stacks[t][i].op
    BY <1>5 DEF Threads
  <2>2. Flat(stacks[t])
    OBVIOUS
  <2> QED BY <2>1, <2>2 DEF Flat
<1>8. FramesSound'
  <2>1. ASSUME NEW t \in Threads, NEW i \in 1..Len(frames'[t])
        PROVE  /\ HoldsRules(frames'[t][i], Listed, Due, FromYaml(file))
               /\ KnowsEngine(frames'[t][i], rules)
    BY <1>5, <2>1
  <2> QED BY <1>1, <1>2, <1>6, <1>7, <2>1 DEF FramesSound
<1>9. EngineSound'
  <2>1. Main \in Threads
    BY DEF Threads
  <2>2. Reloads(stacks[Main]) => Reloads(frames'[Main])
    BY <2>1, <1>5 DEF Reloads
  <2> QED BY <1>1, <1>2, <2>2 DEF EngineSound
<1>10. AnswerSound'
  BY DEF Silent, AnswerSound
<1> QED BY <1>3, <1>8, <1>9, <1>10 DEF PolicyInv

LEMMA InitPolicy == PolicyInit => PolicyInv
<1> SUFFICES ASSUME PolicyInit PROVE PolicyInv
  OBVIOUS
<1>1. FileSound
  BY DEF PolicyInit, FileSound
<1>2. frames = [t \in Threads |-> << >>] /\ engine = NotBuilt /\ answer = NoVerdict
  BY DEF PolicyInit
<1>3. \A t \in Threads : frames[t] = << >> /\ Len(frames[t]) = 0
  BY <1>2
<1>4. frames \in [Threads -> Seq(Frame)]
  BY <1>2
<1>5. FramesSound
  BY <1>3, <1>4 DEF FramesSound, Flat, Threads
<1>6. EngineSound /\ AnswerSound
  BY <1>2 DEF EngineSound, AnswerSound
<1> QED BY <1>1, <1>5, <1>6 DEF PolicyInv

(* The running call of a thread is one of its calls.                       *)
LEMMA TopSound ==
  ASSUME PolicyInv, NEW t \in Threads, frames[t] # << >>
  PROVE  /\ Top(t) \in Frame /\ HoldsRules(Top(t), Listed, Due, FromYaml(file))
         /\ KnowsEngine(Top(t), engine)
<1>1. PICK s : s = frames[t] /\ s \in Seq(Frame) /\ s # << >>
  BY DEF PolicyInv, FramesSound
<1>2. Last(s) = s[Len(s)] /\ Len(s) \in Nat /\ Len(s) >= 1 /\ Last(s) \in Frame
  BY <1>1, TopIs
<1>3. Len(s) \in 1..Len(s)
  BY <1>2
<1> QED BY <1>1, <1>2, <1>3 DEF Top, PolicyInv, FramesSound

(* A call goes to another step, with the rules it has.                     *)
LEMMA StepHolds ==
  ASSUME NEW f, NEW listed, NEW due, NEW text, HoldsRules(f, listed, due, text), NEW step,
         f.op = "evaluate" => step \in EvalSteps \ {"decide"},
         f.op = "reload" => step \in ReloadSteps /\ (f.step \in Early => step \in Early)
  PROVE  LET g == [f EXCEPT !.step = step] IN
         /\ g.op = f.op /\ g.step = step /\ HoldsRules(g, listed, due, text)
         /\ f.op = "evaluate" => g.seen = f.seen
<1>1. f \in Frame
  BY DEF HoldsRules
<1>2. PICK g : g = [f EXCEPT !.step = step]
  OBVIOUS
<1>3. CASE f.op = "evaluate"
  <2>1. g = Evaluating(step, f.call, f.rules, f.seen)
    BY <1>1, <1>2, <1>3, FrameMoves
  <2>2. g.op = "evaluate" /\ g.step = step /\ g.rules = f.rules /\ g.seen = f.seen
    BY <2>1, EvaluatingIs
  <2>3. f.call \in Calls /\ f.rules \in Lists /\ f.seen \in SUBSET Lists /\ step \in EvalSteps
    BY <1>1, <1>3, FrameIs
  <2>4. g \in Frame
    BY <2>1, <2>3, EvaluatingIs
  <2>5. step # "decide"
    BY <1>3
  <2>6. HoldsRules(g, listed, due, text)
    BY <2>2, <2>4, <2>5 DEF HoldsRules
  <2> QED BY <1>2, <1>3, <2>2, <2>6
<1>4. CASE f.op = "reload"
  <2>1. g = Reloading(step, f.rules)
    BY <1>1, <1>2, <1>4, FrameMoves
  <2>2. g.op = "reload" /\ g.step = step /\ g.rules = f.rules
    BY <2>1, ReloadingIs
  <2>3. f.rules \in Lists /\ step \in ReloadSteps
    BY <1>1, <1>4, FrameIs
  <2>4. g \in Frame
    BY <2>1, <2>3, ReloadingIs
  <2>5. HoldsRules(g, listed, due, text)
    BY <1>4, <2>2, <2>4 DEF HoldsRules
  <2> QED BY <1>2, <1>4, <2>2, <2>5
<1> QED BY <1>1, <1>3, <1>4, FrameIs

LEMMA StepMoves ==
  ASSUME PolicyInv, NEW t \in Threads, frames[t] # << >>, NEW step,
         Goto(t, [Top(t) EXCEPT !.step = step]),
         Top(t).op = "evaluate" => step \in EvalSteps \ {"decide"},
         Top(t).op = "reload" => step \in ReloadSteps /\ (Top(t).step \in Early => step \in Early),
         Top(t).op = "evaluate" /\ step \in {"getRules", "haveRules"} => engine # NotBuilt,
         UNCHANGED <<store, engine, hup, nested>>,
         engineLock' \in Threads \union {Free}, rulesLock' \in Threads \union {Free}, Silent
  PROVE  PolicyInv'
<1>1. PICK f \in Frame : f = Top(t)
  BY TopSound
<1>2. HoldsRules(f, Listed, Due, FromYaml(file)) /\ KnowsEngine(f, engine)
  BY <1>1, TopSound
<1>3. PICK g : g = [f EXCEPT !.step = step]
  OBVIOUS
<1>4. /\ g.op = f.op /\ g.step = step /\ HoldsRules(g, Listed, Due, FromYaml(file))
      /\ f.op = "evaluate" => g.seen = f.seen
  BY <1>1, <1>2, <1>3, StepHolds
<1>5. KnowsEngine(g, engine)
  BY <1>1, <1>2, <1>4 DEF KnowsEngine
<1>6. Goto(t, g)
  BY <1>1, <1>3
<1> QED BY <1>1, <1>4, <1>5, <1>6, TopMoves

LEMMA LocksTyped ==
  ASSUME PolicyInv PROVE engineLock \in Threads \union {Free} /\ rulesLock \in Threads \union {Free}
BY DEF PolicyInv, FileSound

LEMMA EvaluateStep ==
  ASSUME PolicyInv, NEW t \in Threads, NEW call \in Calls, Evaluate(t, call)
  PROVE  PolicyInv'
<1>1. PICK seen : seen = IF engine = NotBuilt THEN {} ELSE {engine}
  OBVIOUS
<1>2. PICK g : g = NewEvaluate(call)
  OBVIOUS
<1>3. g = Evaluating("getEngine", call, << >>, seen)
  BY <1>1, <1>2 DEF NewEvaluate, Evaluating
<1>4. g.op = "evaluate" /\ g.step = "getEngine" /\ g.seen = seen
  BY <1>3, EvaluatingIs
<1>5. seen \in SUBSET Lists /\ << >> \in Lists /\ "getEngine" \in EvalSteps
  BY <1>1, FileIsListed DEF PolicyInv, EngineSound, Lists, EvalSteps
<1>6. g \in Frame
  BY <1>3, <1>5, EvaluatingIs
<1>7. HoldsRules(g, Listed, Due, FromYaml(file)) /\ KnowsEngine(g, engine)
  BY <1>1, <1>4, <1>6 DEF HoldsRules, KnowsEngine
<1>8. frames[t] = << >> /\ frames' = [frames EXCEPT ![t] = << g >>]
  BY <1>2 DEF Evaluate
<1>9. << g >> \in Seq(Frame) /\ Len(<< g >>) = 1 /\ << g >>[1] = g
  BY <1>6
<1>10. Flat(<< g >>) /\ ~Reloads(frames[t])
  BY <1>4, <1>8, <1>9 DEF Flat, Reloads
<1>11. \A i \in 1..Len(<< g >>) : /\ HoldsRules(<< g >>[i], Listed, Due, FromYaml(file))
                                  /\ KnowsEngine(<< g >>[i], engine)
  BY <1>7, <1>9
<1>12. UNCHANGED <<store, engine, hup, nested>> /\ UNCHANGED <<engineLock, rulesLock>>
  BY DEF Evaluate, locks
<1>13. AnswerSound'
  BY DEF Evaluate, Silent, AnswerSound
<1> QED BY <1>8, <1>9, <1>10, <1>11, <1>12, <1>13, LocksTyped, OneMoves

LEMMA LockEngineStep ==
  ASSUME PolicyInv, NEW t \in Threads, LockEngine(t)
  PROVE  PolicyInv'
<1>1. /\ frames[t] # << >> /\ Goto(t, [Top(t) EXCEPT !.step = "lookEngine"])
      /\ UNCHANGED <<store, engine, hup, nested>> /\ Silent
      /\ engineLock' = t /\ rulesLock' = rulesLock
  BY DEF LockEngine, Running
<1>2. /\ "lookEngine" \in EvalSteps \ {"decide"} /\ "lookEngine" \in ReloadSteps
      /\ "lookEngine" \in Early /\ "lookEngine" \notin {"getRules", "haveRules"}
  BY DEF EvalSteps, ReloadSteps, Early
<1> QED BY <1>1, <1>2, LocksTyped, StepMoves

(* An evaluate() that waits for the rules has its engine.                  *)
LEMMA LockRulesStep ==
  ASSUME PolicyInv, NEW t \in Threads, LockRules(t)
  PROVE  PolicyInv'
<1>1. /\ frames[t] # << >> /\ Goto(t, [Top(t) EXCEPT !.step = "haveRules"])
      /\ Top(t).step = "getRules"
      /\ UNCHANGED <<store, engine, hup, nested>> /\ Silent
      /\ rulesLock' = t /\ engineLock' = engineLock
  BY DEF LockRules, Running
<1>2. /\ "haveRules" \in EvalSteps \ {"decide"} /\ "haveRules" \in ReloadSteps
      /\ "getRules" \notin Early
  BY DEF EvalSteps, ReloadSteps, Early
<1>3. Top(t).op = "evaluate" => engine # NotBuilt
  BY <1>1, TopSound DEF KnowsEngine
<1> QED BY <1>1, <1>2, <1>3, LocksTyped, StepMoves

LEMMA BuildEngineStep ==
  ASSUME PolicyInv, NEW t \in Threads, BuildEngine(t)
  PROVE  PolicyInv'
<1> DEFINE next == IF Top(t).op = "evaluate" THEN "getRules" ELSE "readFile"
           w == Append(Front(frames[t]), [Top(t) EXCEPT !.step = next])
           stacks == [frames EXCEPT ![t] = w]
<1>1. /\ frames[t] # << >> /\ Top(t).step = "lookEngine"
      /\ UNCHANGED <<store, hup, nested>> /\ Silent
      /\ engineLock' = Free /\ rulesLock' = rulesLock
  BY DEF BuildEngine, Running
<1>2. \/ /\ engine = NotBuilt /\ engine' = FromYaml(file)
         /\ frames' = [u \in Threads |-> Seen(stacks[u], FromYaml(file))]
      \/ engine # NotBuilt /\ engine' = engine /\ frames' = stacks
  BY DEF BuildEngine, Look
<1>3. /\ Top(t).op = "evaluate" => next \in EvalSteps \ {"decide"}
      /\ Top(t).op = "reload" => next \in ReloadSteps /\ next \in Early
  BY DEF EvalSteps, ReloadSteps, Early
<1>4. CASE engine # NotBuilt /\ engine' = engine /\ frames' = stacks
  <2>1. Goto(t, [Top(t) EXCEPT !.step = next])
    BY <1>4 DEF Goto
  <2> HIDE DEF next
  <2> QED BY <1>1, <1>3, <1>4, <2>1, LocksTyped, StepMoves
<1>5. CASE /\ engine = NotBuilt /\ engine' = FromYaml(file)
           /\ frames' = [u \in Threads |-> Seen(stacks[u], FromYaml(file))]
  <2>1. PICK f : f = Top(t)
    OBVIOUS
  <2>2. PICK g : g = [f EXCEPT !.step = next]
    OBVIOUS
  <2>3. HoldsRules(f, Listed, Due, FromYaml(file))
    BY <1>1, <2>1, TopSound
  <2>4. g.op = f.op /\ HoldsRules(g, Listed, Due, FromYaml(file))
    <3> HIDE DEF next
    <3> QED BY <1>3, <2>1, <2>2, <2>3, StepHolds
  <2> HIDE DEF next
  <2>5. w = Append(Front(frames[t]), g)
    BY <2>1, <2>2
  <2>6. /\ w \in Seq(Frame) /\ (t \in Workers => Flat(w))
        /\ \A i \in 1..Len(w) : HoldsRules(w[i], Listed, Due, FromYaml(file))
    BY <1>1, <2>1, <2>4, <2>5, TopStack
  <2> HIDE DEF w
  <2>7. frames \in [Threads -> Seq(Frame)]
    BY DEF PolicyInv, FramesSound
  <2>8. stacks \in [Threads -> Seq(Frame)]
    BY <2>6, <2>7
  <2>9. \A u \in Threads : \A i \in 1..Len(stacks[u]) :
          HoldsRules(stacks[u][i], Listed, Due, FromYaml(file))
    BY <2>6, <2>7 DEF PolicyInv, FramesSound
  <2>10. \A u \in Workers : Flat(stacks[u])
    BY <2>6, <2>7 DEF PolicyInv, FramesSound, Threads
  <2>11. FromYaml(file) \in Listed
    BY FileIsListed DEF PolicyInv
  <2> HIDE DEF stacks
  <2> QED BY <1>1, <1>5, <2>8, <2>9, <2>10, <2>11, LocksTyped, AllSee
<1> QED BY <1>2, <1>4, <1>5

LEMMA ReadFileStep ==
  ASSUME PolicyInv, NEW t \in Threads, ReadFile(t)
  PROVE  PolicyInv'
<1>1. PICK f \in Frame : f = Top(t)
  BY TopSound DEF ReadFile, Running
<1>2. /\ frames[t] # << >> /\ f.step = "readFile"
      /\ Goto(t, [f EXCEPT !.step = "getRules", !.rules = FromYaml(file)])
      /\ UNCHANGED <<store, engine, hup, nested>> /\ Silent /\ UNCHANGED <<engineLock, rulesLock>>
  BY <1>1 DEF ReadFile, Running, locks
<1>3. f.op = "reload"
  BY <1>2, FrameIs DEF EvalSteps
<1>4. PICK g : g = Reloading("getRules", FromYaml(file))
  OBVIOUS
<1>5. Goto(t, g)
  BY <1>2, <1>3, <1>4, FrameMoves
<1>6. g.op = "reload" /\ g.step = "getRules" /\ g.rules = FromYaml(file)
  BY <1>4, ReloadingIs
<1>7. FromYaml(file) \in Listed /\ FromYaml(file) \in Lists /\ "getRules" \in ReloadSteps
  BY FileIsListed DEF PolicyInv, ReloadSteps
<1>8. g \in Frame
  BY <1>4, <1>7, ReloadingIs
<1>9. HoldsRules(g, Listed, Due, FromYaml(file)) /\ KnowsEngine(g, engine)
  BY <1>6, <1>7, <1>8 DEF HoldsRules, KnowsEngine
<1> QED BY <1>1, <1>2, <1>3, <1>5, <1>6, <1>9, LocksTyped, TopMoves

LEMMA SnapshotStep ==
  ASSUME PolicyInv, NEW t \in Threads, Snapshot(t)
  PROVE  PolicyInv'
<1>1. PICK f \in Frame : f = Top(t)
  BY TopSound DEF Snapshot, Running
<1>2. /\ frames[t] # << >> /\ f.step = "haveRules" /\ f.op = "evaluate"
      /\ Goto(t, [f EXCEPT !.step = "decide", !.rules = engine])
      /\ UNCHANGED <<store, engine, hup, nested>> /\ Silent
      /\ engineLock' = engineLock /\ rulesLock' = Free
  BY <1>1 DEF Snapshot, Running
<1>3. engine # NotBuilt /\ engine \in f.seen
  BY <1>1, <1>2, TopSound DEF KnowsEngine
<1>4. engine \in Listed /\ engine \in Lists
  BY <1>3, FileIsListed DEF PolicyInv, EngineSound
<1>5. PICK g : g = Evaluating("decide", f.call, engine, f.seen)
  OBVIOUS
<1>6. Goto(t, g)
  BY <1>2, <1>5, FrameMoves
<1>7. g.op = "evaluate" /\ g.step = "decide" /\ g.rules = engine /\ g.seen = f.seen
  BY <1>5, EvaluatingIs
<1>8. g \in Frame
  <2>1. f.call \in Calls /\ f.seen \in SUBSET Lists /\ "decide" \in EvalSteps
    BY <1>2, FrameIs DEF EvalSteps
  <2> QED BY <2>1, <1>4, <1>5, EvaluatingIs
<1>9. HoldsRules(g, Listed, Due, FromYaml(file)) /\ KnowsEngine(g, engine)
  BY <1>3, <1>4, <1>7, <1>8 DEF HoldsRules, KnowsEngine
<1> QED BY <1>1, <1>2, <1>6, <1>7, <1>9, LocksTyped, TopMoves

(* A call returns.                                                         *)
LEMMA FrontSound ==
  ASSUME PolicyInv, NEW t \in Threads, frames[t] # << >>
  PROVE  LET s == Front(frames[t]) IN
         /\ s \in Seq(Frame)
         /\ \A i \in 1..Len(s) : /\ HoldsRules(s[i], Listed, Due, FromYaml(file))
                                 /\ KnowsEngine(s[i], engine)
         /\ t \in Workers => Flat(s)
         /\ Reloads(frames[t]) /\ Top(t).op = "evaluate" => Reloads(s)
<1>1. PICK s, n : s = frames[t] /\ s \in Seq(Frame) /\ s # << >> /\ n = Len(s)
  BY DEF PolicyInv, FramesSound
<1>2. PICK w : w = Front(s)
  OBVIOUS
<1>3. /\ Last(s) = s[n] /\ n \in Nat /\ n >= 1
      /\ w \in Seq(Frame) /\ Len(w) = n - 1 /\ \A i \in 1..(n - 1) : w[i] = s[i]
  BY <1>1, <1>2, TopIs
<1>4. \A i \in 1..n : i = n \/ i \in 1..(n - 1)
  BY <1>3
<1>5. \A i \in 1..(n - 1) : i \in 1..n
  BY <1>3
<1>6. \A i \in 1..Len(w) : /\ HoldsRules(w[i], Listed, Due, FromYaml(file))
                           /\ KnowsEngine(w[i], engine)
  BY <1>1, <1>3, <1>5 DEF PolicyInv, FramesSound
<1>7. ASSUME t \in Workers PROVE Flat(w)
  <2>1. n <= 1 /\ \A i \in 1..n : s[i].op = "evaluate"
    BY <1>1, <1>7 DEF PolicyInv, FramesSound, Flat
  <2>2. Len(w) <= 1
    BY <2>1, <1>3
  <2> QED BY <2>1, <2>2, <1>3, <1>5 DEF Flat
<1>8. ASSUME Reloads(s), s[n].op = "evaluate" PROVE Reloads(w)
  <2>1. PICK i \in 1..n : s[i].op = "reload"
    BY <1>1, <1>8 DEF Reloads
  <2>2. i \in 1..(n - 1)
    BY <2>1, <1>4, <1>8
  <2> QED BY <2>1, <2>2, <1>3 DEF Reloads
<1> QED BY <1>1, <1>2, <1>3, <1>6, <1>7, <1>8 DEF Top

LEMMA InstallStep ==
  ASSUME PolicyInv, NEW t \in Threads, Install(t)
  PROVE  PolicyInv'
<1> DEFINE stacks == [u \in Threads |-> IF u = t THEN Front(frames[u]) ELSE frames[u]]
<1>1. PICK f \in Frame : f = Top(t)
  BY TopSound DEF Install, Running
<1>2. /\ frames[t] # << >> /\ f.step = "haveRules" /\ f.op = "reload"
      /\ UNCHANGED <<store, hup, nested>> /\ Silent /\ engine' = f.rules
      /\ engineLock' = engineLock /\ rulesLock' = Free
      /\ frames' = [u \in Threads |-> Seen(stacks[u], f.rules)]
  BY <1>1 DEF Install, Running
<1>3. f.rules \in Listed /\ (Due => f.rules = FromYaml(file))
  BY <1>1, <1>2, TopSound DEF HoldsRules, Early
<1>4. frames \in [Threads -> Seq(Frame)]
  BY DEF PolicyInv, FramesSound
<1>5. /\ Front(frames[t]) \in Seq(Frame)
      /\ \A i \in 1..Len(Front(frames[t])) :
           HoldsRules(Front(frames[t])[i], Listed, Due, FromYaml(file))
      /\ t \in Workers => Flat(Front(frames[t]))
  BY <1>2, FrontSound
<1>6. stacks \in [Threads -> Seq(Frame)]
  BY <1>4, <1>5
<1>7. \A u \in Threads : \A i \in 1..Len(stacks[u]) :
        HoldsRules(stacks[u][i], Listed, Due, FromYaml(file))
  BY <1>5 DEF PolicyInv, FramesSound
<1>8. \A u \in Workers : Flat(stacks[u])
  BY <1>5 DEF PolicyInv, FramesSound, Threads
<1> HIDE DEF stacks
<1> QED BY <1>2, <1>3, <1>6, <1>7, <1>8, LocksTyped, AllSee

LEMMA DecideStep ==
  ASSUME PolicyInv, NEW t \in Threads, Decide(t)
  PROVE  PolicyInv'
<1>1. PICK f \in Frame : f = Top(t)
  BY TopSound DEF Decide, Running
<1>2. /\ frames[t] # << >> /\ f.step = "decide"
      /\ UNCHANGED <<store, engine, hup, nested>> /\ UNCHANGED <<engineLock, rulesLock>>
      /\ frames' = [frames EXCEPT ![t] = Front(frames[t])]
      /\ answer' = [call |-> f.call, seen |-> f.seen, action |-> Verdict(f.rules, f.call)]
  BY <1>1 DEF Decide, Running, Pop, locks
<1>3. f.op = "evaluate" /\ f.call \in Calls /\ f.rules \in Lists
  BY <1>2, FrameIs DEF ReloadSteps
<1>4. f.rules \in f.seen /\ f.rules \in Listed
  BY <1>1, <1>2, <1>3, TopSound DEF HoldsRules
<1>5. Verdict(f.rules, f.call) = Meaning(f.rules, f.call)
  BY <1>3, ListsAre, VerdictIsMeaning
<1>6. answer'.call = f.call /\ answer'.seen = f.seen /\ answer'.action = Meaning(f.rules, f.call)
  BY <1>2, <1>5
<1>7. Listed' = Listed
  BY <1>2 DEF Listed, store
<1>8. AnswerSound'
  BY <1>3, <1>4, <1>6, <1>7 DEF AnswerSound
<1>9. PICK s : s = Front(frames[t])
  OBVIOUS
<1>10. /\ s \in Seq(Frame)
       /\ \A i \in 1..Len(s) : /\ HoldsRules(s[i], Listed, Due, FromYaml(file))
                               /\ KnowsEngine(s[i], engine)
       /\ t \in Workers => Flat(s)
       /\ Reloads(frames[t]) => Reloads(s)
  BY <1>1, <1>2, <1>3, <1>9, FrontSound
<1> QED BY <1>2, <1>8, <1>9, <1>10, LocksTyped, OneMoves

(* The operator and the signal change what a call must know.               *)
LEMMA OutsideMoves ==
  ASSUME PolicyInv, UNCHANGED <<engine, engineLock, rulesLock, frames>>, Silent,
         versions \subseteq versions', FileSound', Due' => Due /\ file' = file
  PROVE  PolicyInv'
<1>1. Listed \subseteq Listed'
  BY DEF Listed
<1>2. Due' => Due /\ FromYaml(file)' = FromYaml(file)
  OBVIOUS
<1>3. ASSUME NEW t \in Threads, NEW i \in 1..Len(frames[t])
      PROVE  /\ HoldsRules(frames[t][i], Listed', Due', FromYaml(file)')
             /\ KnowsEngine(frames[t][i], engine)
  <2>1. /\ HoldsRules(frames[t][i], Listed, Due, FromYaml(file))
        /\ KnowsEngine(frames[t][i], engine)
    BY DEF PolicyInv, FramesSound
  <2> QED BY <1>1, <1>2, <2>1 DEF HoldsRules
<1>4. FramesSound'
  BY <1>3 DEF PolicyInv, FramesSound
<1>5. EngineSound'
  BY <1>1, <1>2 DEF PolicyInv, EngineSound
<1>6. AnswerSound'
  BY DEF Silent, AnswerSound
<1> QED BY <1>4, <1>5, <1>6 DEF PolicyInv

LEMMA OperatorStep ==
  ASSUME PolicyInv, Operator
  PROVE  PolicyInv'
<1>1. FileSound
  BY DEF PolicyInv
<1>2. CASE Truncate
  <2>1. /\ UNCHANGED <<engine, engineLock, rulesLock, frames, versions, hup, nested>> /\ Silent
        /\ file' = << >> /\ writing' = TRUE /\ current' = FALSE
    BY <1>2 DEF Truncate, locks
  <2>2. FileSound' /\ ~Due'
    BY <1>1, <2>1 DEF FileSound, Due
  <2> QED BY <2>1, <2>2, OutsideMoves
<1>3. ASSUME NEW policy \in Policies \union {Malformed}, Write(policy) PROVE PolicyInv'
  <2>1. /\ UNCHANGED <<engine, engineLock, rulesLock, frames, hup, current, nested>> /\ Silent
        /\ writing /\ file' = policy /\ writing' = FALSE
        /\ versions' = versions \union ({policy} \ {Malformed})
    BY <1>3 DEF Write, locks
  <2>2. ~current
    BY <1>1, <2>1 DEF FileSound
  <2>3. FileSound' /\ ~Due'
    BY <1>1, <2>1, <2>2 DEF FileSound, Due
  <2> QED BY <2>1, <2>3, OutsideMoves
<1>4. CASE SendSignal
  <2>1. /\ UNCHANGED <<engine, engineLock, rulesLock, frames, file, writing, versions, nested>>
        /\ Silent /\ hup' = TRUE /\ current' = ~writing
    BY <1>4 DEF SendSignal, locks
  <2>2. FileSound' /\ ~Due'
    BY <1>1, <2>1 DEF FileSound, Due
  <2> QED BY <2>1, <2>2, OutsideMoves
<1> QED BY <1>2, <1>3, <1>4 DEF Operator

(* A handler that interrupts no other is the only one there is.            *)
LEMMA HandleSignalStep ==
  ASSUME PolicyInv, HandleSignal
  PROVE  PolicyInv'
<1>1. /\ hup' = FALSE /\ UNCHANGED <<file, writing, versions, current>>
      /\ UNCHANGED <<engine, engineLock, rulesLock>> /\ Silent
      /\ frames' = [frames EXCEPT ![Main] = Append(frames[Main], NewReload)]
      /\ nested' = (nested \/ Reloads(frames[Main]))
  BY DEF HandleSignal, Reloads, store, locks
<1>2. FileSound'
  BY <1>1 DEF PolicyInv, FileSound
<1>3. Listed' = Listed /\ FromYaml(file)' = FromYaml(file) /\ (Due' => ~Reloads(frames[Main]))
  BY <1>1 DEF Listed, Due
<1>4. PICK g : g = NewReload
  OBVIOUS
<1>5. g = Reloading("getEngine", << >>)
  BY <1>4 DEF NewReload, Reloading
<1>6. g.op = "reload" /\ g.step = "getEngine" /\ g.rules = << >>
  BY <1>5, ReloadingIs
<1>7. g \in Frame
  <2>1. "getEngine" \in ReloadSteps /\ << >> \in Lists
    BY DEF ReloadSteps, Lists
  <2> QED BY <1>5, <2>1, ReloadingIs
<1>8. /\ HoldsRules(g, Listed', Due', FromYaml(file)') /\ KnowsEngine(g, engine)
  BY <1>6, <1>7 DEF HoldsRules, KnowsEngine, Listed, Early
<1>9. Main \in Threads /\ Main \notin Workers
  BY ThreadsAssumption DEF Threads
<1>10. PICK s, w : s = frames[Main] /\ s \in Seq(Frame) /\ w = Append(s, g)
  BY <1>9 DEF PolicyInv, FramesSound
<1>11. /\ w \in Seq(Frame) /\ Len(w) = Len(s) + 1 /\ w[Len(s) + 1] = g /\ Len(s) \in Nat
       /\ \A i \in 1..Len(s) : w[i] = s[i]
  BY <1>7, <1>10
<1>12. frames \in [Threads -> Seq(Frame)]
  BY DEF PolicyInv, FramesSound
<1>13. frames' = [frames EXCEPT ![Main] = w]
  BY <1>1, <1>4, <1>10
<1>14. /\ frames' \in [Threads -> Seq(Frame)] /\ frames'[Main] = w
       /\ \A t \in Threads : t # Main => frames'[t] = frames[t]
  BY <1>9, <1>11, <1>12, <1>13
<1>15. ASSUME NEW t \in Threads, NEW i \in 1..Len(frames[t])
       PROVE  /\ HoldsRules(frames[t][i], Listed', Due', FromYaml(file)')
              /\ KnowsEngine(frames[t][i], engine)
  <2>1. /\ HoldsRules(frames[t][i], Listed, Due, FromYaml(file))
        /\ KnowsEngine(frames[t][i], engine)
    BY DEF PolicyInv, FramesSound
  <2>2. Due' => frames[t][i].op # "reload"
    <3>1. CASE t = Main
      BY <1>3, <3>1 DEF Reloads
    <3>2. CASE t # Main
      <4>1. t \in Workers
        BY <3>2 DEF Threads
      <4>2. frames[t][i].op = "evaluate"
        BY <4>1 DEF PolicyInv, FramesSound, Flat
      <4> QED BY <4>2
    <3> QED BY <3>1, <3>2
  <2> QED BY <1>3, <2>1, <2>2 DEF HoldsRules
<1>16. ASSUME NEW t \in Threads, NEW i \in 1..Len(frames'[t])
       PROVE  /\ HoldsRules(frames'[t][i], Listed', Due', FromYaml(file)')
              /\ KnowsEngine(frames'[t][i], engine')
  <2>1. CASE t # Main
    BY <1>1, <1>14, <1>15, <2>1
  <2>2. CASE t = Main
    <3>1. i = Len(s) + 1 \/ i \in 1..Len(s)
      BY <1>11, <1>14, <2>2
    <3> QED BY <1>1, <1>8, <1>10, <1>11, <1>14, <1>15, <2>2, <3>1
  <2> QED BY <2>1, <2>2
<1>17. \A t \in Workers : Flat(frames'[t])
  BY <1>9, <1>14 DEF PolicyInv, FramesSound, Threads
<1>18. FramesSound'
  BY <1>14, <1>16, <1>17 DEF FramesSound
<1>19. EngineSound'
  <2>1. Reloads(w)
    <3>1. Len(s) + 1 \in 1..Len(w)
      BY <1>11
    <3> QED BY <1>6, <1>11, <3>1 DEF Reloads
  <2>2. Reloads(frames[Main])'
    BY <1>14, <2>1
  <2> QED BY <1>1, <1>3, <2>2 DEF PolicyInv, EngineSound
<1>20. AnswerSound'
  BY <1>1 DEF Silent, AnswerSound
<1> QED BY <1>2, <1>18, <1>19, <1>20 DEF PolicyInv

LEMMA NextPolicy == PolicyInv /\ [PolicyNext]_policyVars => PolicyInv'
<1> SUFFICES ASSUME PolicyInv, [PolicyNext]_policyVars PROVE PolicyInv'
  OBVIOUS
<1>1. ASSUME NEW t \in Threads, Steps(t) PROVE PolicyInv'
  BY <1>1, LockEngineStep, BuildEngineStep, ReadFileStep, LockRulesStep, SnapshotStep,
     InstallStep, DecideStep DEF Steps
<1>2. ASSUME NEW t \in Threads, NEW call \in Calls, Evaluate(t, call) PROVE PolicyInv'
  BY <1>2, EvaluateStep
<1>3. CASE UNCHANGED policyVars
  <2>1. UNCHANGED <<file, writing, versions, current, engine, engineLock, rulesLock, frames, hup,
                    answer, nested>>
    BY <1>3 DEF policyVars, store, locks
  <2>2. Listed' = Listed /\ Due' = Due
    BY <2>1 DEF Listed, Due
  <2>3. FileSound' /\ AnswerSound'
    <3>1. FileSound'
      BY <2>1 DEF PolicyInv, FileSound
    <3>2. answer' = answer /\ Listed' = Listed
      BY <2>1, <2>2
    <3>3. AnswerSound'
      BY <3>2 DEF PolicyInv, AnswerSound
    <3> QED BY <3>1, <3>3
  <2>4. FramesSound'
    <3>1. frames' = frames /\ FromYaml(file)' = FromYaml(file) /\ engine' = engine
      BY <2>1 DEF FromYaml
    <3>2. /\ frames \in [Threads -> Seq(Frame)]
          /\ \A t \in Workers : Flat(frames[t])
      BY DEF PolicyInv, FramesSound
    <3>3. ASSUME NEW t \in Threads, NEW i \in 1..Len(frames[t])
          PROVE  /\ HoldsRules(frames[t][i], Listed, Due, FromYaml(file))
                 /\ KnowsEngine(frames[t][i], engine)
      BY DEF PolicyInv, FramesSound
    <3>4. ASSUME NEW t \in Threads, NEW i \in 1..Len(frames'[t])
          PROVE  /\ HoldsRules(frames'[t][i], Listed', Due', FromYaml(file)')
                 /\ KnowsEngine(frames'[t][i], engine')
      BY <2>2, <3>1, <3>3
    <3> QED BY <3>1, <3>2, <3>4 DEF FramesSound
  <2>5. EngineSound'
    BY <2>1, <2>2 DEF PolicyInv, EngineSound
  <2> QED BY <2>1, <2>3, <2>4, <2>5 DEF PolicyInv
<1> QED BY <1>1, <1>2, <1>3, OperatorStep, HandleSignalStep DEF PolicyNext

(* What the two rule lists nobody wrote say to a guest.                    *)
LEMMA NobodysListsDeny ==
  ASSUME NEW call \in Calls, call.trust_level # "owner_paired"
  PROVE  Meaning(<< >>, call) = "deny" /\ Meaning(DenyEverything, call) = "deny"
<1>1. Meaning(<< >>, call) = "deny"
  BY DEF Meaning, Default
<1>2. PICK rule : rule = DenyEverything[1]
  OBVIOUS
<1>3. Matches(rule, call) /\ rule.action = "deny"
  BY <1>2 DEF DenyEverything, Matches
<1>4. Len(DenyEverything) = 1
  BY DEF DenyEverything
<1>5. 1 \in {i \in 1..Len(DenyEverything) : Matches(DenyEverything[i], call)}
  BY <1>2, <1>3, <1>4
<1>6. Meaning(DenyEverything, call) = "deny"
  BY <1>2, <1>3, <1>5 DEF Meaning
<1> QED BY <1>1, <1>6

LEMMA PolicyIsTyped ==
  ASSUME PolicyInv PROVE PolicyTypeOK
<1>1. Listed \subseteq Lists
  BY FileIsListed DEF PolicyInv
<1>2. engine \in Policies \union {<< >>, DenyEverything, NotBuilt}
  BY <1>1 DEF PolicyInv, EngineSound, Lists
<1>3. file \in Files
  BY DEF PolicyInv, FileSound, Files
<1>4. \A t \in Threads : \A i \in 1..Len(frames[t]) : frames[t][i] \in Frame
  BY DEF PolicyInv, FramesSound, HoldsRules
<1>5. \A t \in Workers : Len(frames[t]) <= 1
  BY DEF PolicyInv, FramesSound, Flat
<1> QED BY <1>2, <1>3, <1>4, <1>5 DEF PolicyInv, FileSound, PolicyTypeOK

LEMMA PolicyIsHeld ==
  ASSUME PolicyInv PROVE VerdictsHold /\ ReloadTakesEffect
<1>1. VerdictOfOneList
  BY DEF PolicyInv, AnswerSound, VerdictOfOneList
<1>2. DeniedByEveryVersion
  <2>1. SUFFICES ASSUME answer # NoVerdict, answer.call.trust_level # "owner_paired"
                 PROVE  \/ answer.action = "deny"
                        \/ \E rules \in versions : Meaning(rules, answer.call) = answer.action
    BY DEF DeniedByEveryVersion
  <2>2. PICK rules \in Listed : answer.action = Meaning(rules, answer.call)
    BY <2>1 DEF PolicyInv, AnswerSound
  <2>3. answer.call \in Calls
    BY <2>1 DEF PolicyInv, AnswerSound
  <2> QED BY <2>1, <2>2, <2>3, NobodysListsDeny DEF Listed
<1>3. ReloadTakesEffect
  <2>1. SUFFICES ASSUME AllQuiet, current, ~nested, engine # NotBuilt
                 PROVE  engine = FromYaml(file)
    BY DEF ReloadTakesEffect
  <2>2. frames[Main] = << >> /\ Due
    BY <2>1 DEF AllQuiet, Due, Threads
  <2>3. ~Reloads(frames[Main])
    BY <2>2 DEF Reloads
  <2> QED BY <2>1, <2>2, <2>3 DEF PolicyInv, EngineSound
<1> QED BY <1>1, <1>2, <1>3, PolicyIsTyped DEF VerdictsHold

(* Whatever threads ask, the operator writes and signals interrupt: a      *)
(* verdict is what one list means that was in force during the call, and a *)
(* guest gets nothing that no list the operator completed gives him.       *)
THEOREM VerdictsAreSound == PolicySpec => []VerdictsHold
<1>1. PolicyInv => VerdictsHold
  BY PolicyIsHeld
<1> QED BY <1>1, InitPolicy, NextPolicy, PTL DEF PolicySpec

(* When all is quiet after a SIGHUP that followed the last edit, and no    *)
(* handler had interrupted another, the rules in force are the file's.     *)
THEOREM ReloadsTakeEffect == PolicySpec => []ReloadTakesEffect
<1>1. PolicyInv => ReloadTakesEffect
  BY PolicyIsHeld
<1> QED BY <1>1, InitPolicy, NextPolicy, PTL DEF PolicySpec
=============================================================================
