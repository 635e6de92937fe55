---------------------------- MODULE PairingStore ----------------------------
(***************************************************************************)
(* The pairing store of glc/security/pairing.py: a SQLite file with the    *)
(* pairings and the pending codes, written by the gateway (control routes) *)
(* and by command-line tools (teams/setup/trust_setup.py) at a time.       *)
(*                                                                         *)
(* Every statement commits by itself.  issue_code(), revoke() and          *)
(* force_pair_owner() are one statement; confirm_code() is a SELECT, an    *)
(* upsert and a DELETE, between which the other process may run, and after *)
(* any of which the process may die or a statement raise.  Codes are drawn *)
(* at random and may be drawn again.                                       *)
(***************************************************************************)
EXTENDS Integers, FiniteSets

CONSTANTS
  Senders,        \* (channel, channel_user_id)
  Codes,          \* the six-digit codes
  Processes,      \* the processes that use the file
  NoIssue,        \* no pending row under a code
  NoPairing,      \* no row for a sender
  Ttl,            \* CODE_TTL_SECONDS
  MaxTime, MaxIssues, MaxCuts, MaxOutOfBand  \* bounds: the clock, codes issued,
                                  \* confirmations cut, revocations and forced pairings

Levels == {"user_paired", "owner_paired"}
(* A pending row; id tells two calls of issue_code() apart.                *)
Issue == [id : Nat, sender : Senders, level : Levels, at : Nat]
Pairing == [level : Levels, at : Nat]

ASSUME TtlAssumption == Ttl \in Nat
ASSUME ProcessesAssumption == IsFiniteSet(Processes)
ASSUME NoIssueAssumption == NoIssue \notin Issue
ASSUME NoPairingAssumption == NoPairing \notin Pairing

VARIABLES
  now,        \* time.time()
  pairings,   \* table pairings: the row of each sender, or NoPairing
  pending,    \* table pending_codes: the row of each code, or NoIssue
  confirms,   \* confirms[p]: how far process p is in confirm_code()
  issued,     \* history: every code issued, [code, issue]
  forced,     \* history: every forced pairing, [sender, at]
  grants,     \* history: per [code, issue], the pairings written from it
  cuts,       \* history: confirmations that died or raised
  outOfBand   \* history: revocations and forced pairings so far

tables == <<pairings, pending>>
history == <<issued, forced, grants, cuts, outOfBand>>
vars == <<now, tables, confirms, history>>

Ticket == [code : Codes, issue : Issue]
Outside == [step |-> "none"]

Init ==
  /\ now = 0
  /\ pairings = [s \in Senders |-> NoPairing]
  /\ pending = [c \in Codes |-> NoIssue]
  /\ confirms = [p \in Processes |-> Outside]
  /\ issued = {} /\ forced = {}
  /\ grants = [t \in {} |-> 0]
  /\ cuts = 0 /\ outOfBand = 0

(* issue_code(): a row replaces whatever is pending under the code.        *)
IssueCode(p, c, s, level) ==
  LET issue == [id |-> Cardinality(issued), sender |-> s, level |-> level, at |-> now]
  IN  /\ confirms[p] = Outside
      /\ Cardinality(issued) < MaxIssues
      /\ pending' = [pending EXCEPT ![c] = issue]
      /\ issued' = issued \union {[code |-> c, issue |-> issue]}
      /\ UNCHANGED <<now, pairings, confirms, forced, grants, cuts, outOfBand>>

(* Mutant: the expiry is not looked at.                                    *)
ExpiredNever(issue) == FALSE

Expired(issue) == issue.at + Ttl < now

(* confirm_code(): the SELECT, the test of expires_at and paired_at.  The   *)
(* clock is read twice, on lines with nothing between them that waits.     *)
FindCode(p, c) ==
  /\ confirms[p] = Outside
  /\ pending[c] # NoIssue
  /\ confirms' = [confirms EXCEPT ![p] =
       [step |-> IF Expired(pending[c]) THEN "expired" ELSE "granting",
        code |-> c, issue |-> pending[c], paired_at |-> now]]
  /\ UNCHANGED <<now, tables, history>>

GrantsOf(t) == IF t \in DOMAIN grants THEN grants[t] ELSE 0

(* confirm_code(): the upsert, which replaces the level of a sender that   *)
(* is paired already.                                                      *)
Grant(p) ==
  LET call == confirms[p]
      ticket == [code |-> call.code, issue |-> call.issue]
  IN  /\ call.step = "granting"
      /\ pairings' = [pairings EXCEPT ![call.issue.sender] =
                        [level |-> call.issue.level, at |-> call.paired_at]]
      /\ confirms' = [confirms EXCEPT ![p].step = "granted"]
      /\ grants' = [t \in DOMAIN grants \union {ticket} |->
                      IF t = ticket THEN GrantsOf(t) + 1 ELSE grants[t]]
      /\ UNCHANGED <<now, pending, issued, forced, cuts, outOfBand>>

(* Mutant: the other codes of the sender go too, expired or not.           *)
DeleteCodesOfSender(p) ==
  /\ confirms[p].step \in {"expired", "granted"}
  /\ pending' = [c \in Codes |->
       IF pending[c] # NoIssue /\ pending[c].sender = confirms[p].issue.sender
       THEN NoIssue ELSE pending[c]]
  /\ confirms' = [confirms EXCEPT ![p] = Outside]
  /\ UNCHANGED <<now, pairings, history>>

(* Mutant: a code that was used stays pending.                             *)
DeleteCodeExpired(p) ==
  /\ confirms[p].step \in {"expired", "granted"}
  /\ pending' = IF confirms[p].step = "granted" THEN pending
                ELSE [pending EXCEPT ![confirms[p].code] = NoIssue]
  /\ confirms' = [confirms EXCEPT ![p] = Outside]
  /\ UNCHANGED <<now, pairings, history>>

(* confirm_code(): the DELETE by code, of an expired or of a used code.    *)
DeleteCode(p) ==
  /\ confirms[p].step \in {"expired", "granted"}
  /\ pending' = [pending EXCEPT ![confirms[p].code] = NoIssue]
  /\ confirms' = [confirms EXCEPT ![p] = Outside]
  /\ UNCHANGED <<now, pairings, history>>

(* The process is killed, or a statement raises (database is locked).      *)
Cut(p) ==
  /\ confirms[p] # Outside
  /\ cuts < MaxCuts
  /\ cuts' = cuts + 1
  /\ confirms' = [confirms EXCEPT ![p] = Outside]
  /\ UNCHANGED <<now, tables, issued, forced, grants, outOfBand>>

(* revoke(): the row of the sender goes; its pending codes stay.           *)
Revoke(p, s) ==
  /\ confirms[p] = Outside
  /\ outOfBand < MaxOutOfBand
  /\ outOfBand' = outOfBand + 1
  /\ pairings' = [pairings EXCEPT ![s] = NoPairing]
  /\ UNCHANGED <<now, pending, confirms, issued, forced, grants, cuts>>

(* force_pair_owner(): the installer's pairing, without a code.            *)
ForcePairOwner(p, s) ==
  /\ confirms[p] = Outside
  /\ outOfBand < MaxOutOfBand
  /\ outOfBand' = outOfBand + 1
  /\ pairings' = [pairings EXCEPT ![s] = [level |-> "owner_paired", at |-> now]]
  /\ forced' = forced \union {[sender |-> s, at |-> now]}
  /\ UNCHANGED <<now, pending, confirms, issued, grants, cuts>>

Tick ==
  /\ now < MaxTime
  /\ now' = now + 1
  /\ UNCHANGED <<tables, confirms, history>>

Confirm(p) ==
  \/ \E c \in Codes : FindCode(p, c)
  \/ Grant(p)
  \/ DeleteCode(p)
  \/ Cut(p)

Next ==
  \/ \E p \in Processes :
       \/ Confirm(p)
       \/ \E s \in Senders :
            \/ \E c \in Codes, level \in Levels : IssueCode(p, c, s, level)
            \/ Revoke(p, s)
            \/ ForcePairOwner(p, s)
  \/ Tick

Spec == Init /\ [][Next]_vars
-----------------------------------------------------------------------------
InConfirm == [step : {"expired", "granting", "granted"}, code : Codes, issue : Issue,
              paired_at : Nat]

TypeOK ==
  /\ now \in Nat
  /\ pairings \in [Senders -> Pairing \union {NoPairing}]
  /\ pending \in [Codes -> Issue \union {NoIssue}]
  /\ confirms \in [Processes -> InConfirm \union {Outside}]
  /\ issued \subseteq Ticket
  /\ forced \subseteq [sender : Senders, at : Nat]
  /\ DOMAIN grants \subseteq issued
  /\ cuts \in Nat /\ outOfBand \in Nat

(* Nobody is paired by accident: every pairing was forced by the installer *)
(* at that time, or comes from a code issued for that sender and that      *)
(* level at most Ttl before, whatever codes were drawn twice, replaced,    *)
(* confirmed by two processes or cut half way.                             *)
PairingBacked ==
  \A s \in Senders : pairings[s] # NoPairing =>
    \/ /\ pairings[s].level = "owner_paired"
       /\ [sender |-> s, at |-> pairings[s].at] \in forced
    \/ \E t \in issued :
         /\ t.issue.sender = s /\ t.issue.level = pairings[s].level
         /\ pairings[s].at \in t.issue.at..(t.issue.at + Ttl)

(* The store of security/pairing.py holds what it should, and nobody is in *)
(* it by accident.                                                         *)
PairedByIntent == TypeOK /\ PairingBacked

(* A code pairs once, but for the processes that found it at the same time *)
(* and the confirmations cut before they deleted it.                       *)
CodesAreSpent ==
  \A t \in DOMAIN grants : grants[t] <= Cardinality(Processes) + cuts

(* A code that is pending, not expired and never drawn again is only       *)
(* removed by the confirmation that used it: no late DELETE of another     *)
(* confirmation takes it away from its owner.                              *)
OnlySpentCodesGo ==
  [][\A c \in Codes :
        /\ pending[c] # NoIssue /\ pending'[c] # pending[c]
        /\ ~Expired(pending[c])
        /\ \A t \in issued' : t.code = c => t.issue = pending[c]
        => [code |-> c, issue |-> pending[c]] \in DOMAIN grants]_vars
=============================================================================
