------------------------------ MODULE AuditLog ------------------------------
(***************************************************************************)
(* The hash-chained audit store of glc/audit/store.py: a SQLite table of   *)
(* rows, each carrying the hash of the row before it, and a one-row anchor *)
(* (audit_head) with the hash and the number of the rows expected.         *)
(*                                                                         *)
(* append() holds a thread lock around two statements on an autocommit     *)
(* connection: the INSERT of the row and, separately, the upsert of the    *)
(* anchor.  The process may be killed, or a statement may raise, between   *)
(* the two.  verify_chain() takes neither the lock nor a transaction: it   *)
(* reads the anchor, then the rows.                                        *)
(*                                                                         *)
(* sha256 is taken to be collision free: the hash of a row is the sequence *)
(* of the contents hashed into it, so that two hashes are equal exactly    *)
(* when the chains of contents behind them are.  Row ids are left out:     *)
(* AUTOINCREMENT makes id order insertion order, and no id is hashed.      *)
(***************************************************************************)
EXTENDS Naturals, Sequences

CONSTANTS
  Threads,      \* threads of the gateway process that call append()
  Payloads,     \* contents of a row (timestamp, channel, event, ...)
  NoThread,     \* the lock's owner when it is free
  NoAppend,     \* the local state of a thread outside append()
  MaxRows,      \* bound: rows ever inserted
  MaxTorn,      \* bound: appends cut between their two statements
  MaxChanges    \* bound: outside changes to the table

Genesis == <<>>
Hash == Seq(Payloads)

(* The hash of a row: the previous row's hash and this row's content.      *)
RowHash(prev, payload) == Append(prev, payload)

NewRow(prev, p) == [payload |-> p, prev |-> prev, hash |-> RowHash(prev, p)]

Row  == [payload : Payloads, prev : Hash, hash : Hash]
Anchor == [hash : Hash, count : Nat]

ASSUME NoThreadAssumption == NoThread \notin Threads
ASSUME NoAppendAssumption == NoAppend \notin [row : Row, count : Nat]
ASSUME BoundsAssumption == MaxRows \in Nat /\ MaxTorn \in Nat /\ MaxChanges \in Nat

(* An anchor that was never written reads as genesis and zero rows.        *)
NoAnchor == [hash |-> Genesis, count |-> 0]

VARIABLES
  rows,      \* table audit_log, in id order
  head,      \* table audit_head
  lock,      \* AuditStore._lock
  pc,        \* pc[t]: how far thread t is in append()
  pending,   \* pending[t]: the row t built under the lock, the count it read
  verifier,  \* a verify_chain() call: its step, the anchor it read, its verdict
  anchored,  \* history: the rows whose anchor upsert ran
  inserted,  \* history: number of rows inserted
  torn,      \* history: appends cut after the INSERT and before the upsert
  changes    \* history: outside edits and deletions of rows

store == <<rows, head>>
history == <<anchored, inserted, torn, changes>>
vars == <<rows, head, lock, pc, pending, verifier, anchored, inserted, torn, changes>>

Steps == {"idle", "chained", "inserted", "anchored"}
Verdicts == {"none", "intact", "rowCount", "brokenLink", "content", "tail"}
-----------------------------------------------------------------------------
(* verify_chain() on the anchor h and the rows rs it read.                 *)
PrevHash(rs, i) == IF i = 1 THEN Genesis ELSE rs[i-1].hash
LinkOK(rs, i) == rs[i].prev = PrevHash(rs, i)
ContentOK(rs, i) == rs[i].hash = RowHash(PrevHash(rs, i), rs[i].payload)
TailHash(rs) == IF rs = <<>> THEN Genesis ELSE rs[Len(rs)].hash

Flawed(rs) == {i \in 1..Len(rs) : ~LinkOK(rs, i) \/ ~ContentOK(rs, i)}

(* Mutant: the anchor's hash is not compared with the last row's.          *)
VerifyChainWithoutTail(h, rs) ==
  IF Len(rs) # h.count THEN "rowCount"
  ELSE IF Flawed(rs) # {} THEN "content" ELSE "intact"

VerifyChain(h, rs) ==
  IF Len(rs) # h.count THEN "rowCount"
  ELSE IF Flawed(rs) # {}
       THEN LET first == CHOOSE i \in Flawed(rs) : \A j \in Flawed(rs) : i <= j
            IN  IF LinkOK(rs, first) THEN "content" ELSE "brokenLink"
  ELSE IF TailHash(rs) # h.hash THEN "tail"
  ELSE "intact"
-----------------------------------------------------------------------------
Idle == [step |-> "idle", head |-> NoAnchor, verdict |-> "none"]

Init ==
  /\ rows = <<>>
  /\ head = NoAnchor
  /\ lock = NoThread
  /\ pc = [t \in Threads |-> "idle"]
  /\ pending = [t \in Threads |-> NoAppend]
  /\ verifier = Idle
  /\ anchored = <<>>
  /\ inserted = 0 /\ torn = 0 /\ changes = 0

(* Mutant: append() without its lock.                                      *)
ChainUnlocked(t, p) ==
  /\ pc[t] = "idle"
  /\ inserted < MaxRows
  /\ lock' = t
  /\ pending' = [pending EXCEPT ![t] = [row   |-> NewRow(head.hash, p),
                                         count |-> head.count]]
  /\ pc' = [pc EXCEPT ![t] = "chained"]
  /\ UNCHANGED <<store, verifier, history>>

(* append(): take the lock, read the anchor, hash the new row onto it.     *)
Chain(t, p) ==
  /\ pc[t] = "idle"
  /\ lock = NoThread
  /\ inserted < MaxRows
  /\ lock' = t
  /\ pending' = [pending EXCEPT ![t] = [row   |-> NewRow(head.hash, p),
                                         count |-> head.count]]
  /\ pc' = [pc EXCEPT ![t] = "chained"]
  /\ UNCHANGED <<store, verifier, history>>

(* Mutant: the anchor is written although the row never was.               *)
InsertRowLost(t) ==
  /\ pc[t] = "chained"
  /\ inserted' = inserted + 1
  /\ pc' = [pc EXCEPT ![t] = "inserted"]
  /\ UNCHANGED <<store, lock, pending, verifier, anchored, torn, changes>>

(* append(): the INSERT, durable by itself on an autocommit connection.    *)
InsertRow(t) ==
  /\ pc[t] = "chained"
  /\ rows' = Append(rows, pending[t].row)
  /\ inserted' = inserted + 1
  /\ pc' = [pc EXCEPT ![t] = "inserted"]
  /\ UNCHANGED <<head, lock, pending, verifier, anchored, torn, changes>>

(* append(): the upsert of the anchor, one row further than it was read.   *)
UpsertHead(t) ==
  /\ pc[t] = "inserted"
  /\ head' = [hash |-> pending[t].row.hash, count |-> pending[t].count + 1]
  /\ anchored' = Append(anchored, pending[t].row)
  /\ pc' = [pc EXCEPT ![t] = "anchored"]
  /\ UNCHANGED <<rows, lock, pending, verifier, inserted, torn, changes>>

(* append(): leave the with-block, log the new head, return the id.        *)
Return(t) ==
  /\ pc[t] = "anchored"
  /\ lock' = NoThread
  /\ pc' = [pc EXCEPT ![t] = "idle"]
  /\ pending' = [pending EXCEPT ![t] = NoAppend]
  /\ UNCHANGED <<store, verifier, history>>

(* A statement raises (disk full, database busy): the with-block releases  *)
(* the lock and the exception reaches the caller of append().              *)
StatementFails(t) ==
  /\ pc[t] \in {"chained", "inserted"}
  /\ pc[t] = "inserted" => torn < MaxTorn
  /\ torn' = IF pc[t] = "inserted" THEN torn + 1 ELSE torn
  /\ lock' = NoThread
  /\ pc' = [pc EXCEPT ![t] = "idle"]
  /\ pending' = [pending EXCEPT ![t] = NoAppend]
  /\ UNCHANGED <<store, verifier, anchored, inserted, changes>>

(* A hard kill and a restart: the two tables survive, nothing else does.   *)
Crash ==
  /\ \/ lock # NoThread
     \/ verifier.step # "idle"
  /\ (\E t \in Threads : pc[t] = "inserted") => torn < MaxTorn
  /\ torn' = IF \E t \in Threads : pc[t] = "inserted" THEN torn + 1 ELSE torn
  /\ lock' = NoThread
  /\ pc' = [t \in Threads |-> "idle"]
  /\ verifier' = Idle
  /\ pending' = [t \in Threads |-> NoAppend]
  /\ UNCHANGED <<store, anchored, inserted, changes>>

(* verify_chain(): the first SELECT, the anchor.                           *)
VerifyReadHead ==
  /\ verifier.step = "idle"
  /\ verifier' = [step |-> "headRead", head |-> head, verdict |-> "none"]
  /\ UNCHANGED <<store, lock, pc, pending, history>>

(* verify_chain(): the second SELECT, every row, and the walk over them.   *)
VerifyReadRows ==
  /\ verifier.step = "headRead"
  /\ verifier' = [step |-> "idle", head |-> NoAnchor,
                  verdict |-> VerifyChain(verifier.head, rows)]
  /\ UNCHANGED <<store, lock, pc, pending, history>>

(* What verify_chain() is there to find: the content of a row is edited... *)
EditRow(i, p) ==
  /\ changes < MaxChanges
  /\ rows[i].payload # p
  /\ rows' = [rows EXCEPT ![i].payload = p]
  /\ changes' = changes + 1
  /\ UNCHANGED <<head, lock, pc, pending, verifier, anchored, inserted, torn>>

(* ... or a row is deleted (a wipe of the table deletes them one by one).  *)
DeleteRow(i) ==
  /\ changes < MaxChanges
  /\ rows' = [j \in 1..(Len(rows) - 1) |-> IF j < i THEN rows[j] ELSE rows[j+1]]
  /\ changes' = changes + 1
  /\ UNCHANGED <<head, lock, pc, pending, verifier, anchored, inserted, torn>>

Appends(t) ==
  \/ \E p \in Payloads : Chain(t, p)
  \/ InsertRow(t)
  \/ UpsertHead(t)
  \/ Return(t)
  \/ StatementFails(t)

Verify == VerifyReadHead \/ VerifyReadRows

OutsideChange == \E i \in 1..Len(rows) : DeleteRow(i) \/ \E p \in Payloads : EditRow(i, p)

Next ==
  \/ \E t \in Threads : Appends(t)
  \/ Verify
  \/ Crash
  \/ OutsideChange

Spec == Init /\ [][Next]_vars
-----------------------------------------------------------------------------
TypeOK ==
  /\ rows \in Seq(Row)
  /\ head \in Anchor
  /\ lock \in Threads \union {NoThread}
  /\ pc \in [Threads -> Steps]
  /\ pending \in [Threads -> [row : Row, count : Nat] \union {NoAppend}]
  /\ verifier \in [step : {"idle", "headRead"}, head : Anchor, verdict : Verdicts]
  /\ anchored \in Seq(Row)
  /\ inserted \in Nat /\ torn \in Nat /\ changes \in Nat

InFlight == {t \in Threads : pc[t] = "inserted"}

(* A row whose anchor was written is never lost: whatever was killed or    *)
(* raised since, it is in the table, after the rows anchored before it     *)
(* (store.py: "Each append commits immediately so writes survive a hard    *)
(* kill").                                                                 *)
AnchoredSurvive ==
  changes = 0 =>
    \A i \in 1..Len(anchored) : \E j \in i..Len(rows) : rows[j] = anchored[i]

(* The anchor counts exactly the rows of completed appends: the table is   *)
(* longer by the appends that were cut between their two statements, for   *)
(* ever, and by the one under way.  With torn > 0 and no outside change    *)
(* verify_chain() therefore never reports an intact chain again.           *)
RowsAccounted ==
  changes = 0 =>
    Len(rows) = head.count + torn + (IF InFlight = {} THEN 0 ELSE 1)

(* Appends of several threads, none cut and none under way, leave a chain  *)
(* that verify_chain() reports intact: the lock serialises the read of the *)
(* anchor and the two writes.                                              *)
IntactWhenQuiescent ==
  changes = 0 /\ torn = 0 /\ lock = NoThread => VerifyChain(head, rows) = "intact"

(* The store of audit/store.py through appends, kills and failing          *)
(* statements: all of the above.                                           *)
StoreSound == TypeOK /\ RowsAccounted /\ AnchoredSurvive /\ IntactWhenQuiescent

(* When a verify_chain() call answers "chain intact", the rows it read are *)
(* exactly the rows of the appends completed when it read the anchor: none *)
(* edited, none missing and none added, although appends, kills and        *)
(* outside changes may fall between its two reads.                         *)
VerdictSound ==
  [][verifier.step = "headRead" /\ verifier'.verdict = "intact"
       => rows = SubSeq(anchored, 1, verifier.head.count)]_vars

(* The anchor's hash is, read as the contents hashed into it, the log that *)
(* the store promises: no append overwrites, skips or reorders another.    *)
Recorded == INSTANCE AppendOnlyLog WITH log <- head.hash
RecordedSpec == Recorded!Spec

(* What store.py:161 reports: rows that do not match the anchor's count    *)
(* were changed from outside ("rows deleted").  It does not hold: an       *)
(* append cut between its two statements leaves one row too many.          *)
QuiescentAlarmMeansChange ==
  lock = NoThread /\ VerifyChain(head, rows) # "intact" => changes > 0
=============================================================================
