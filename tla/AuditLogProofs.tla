--------------------------- MODULE AuditLogProofs ---------------------------
(***************************************************************************)
(* Theorems about AuditLog, for any set of threads, any contents and any   *)
(* number of rows, kills, failing statements and outside changes.          *)
(*                                                                         *)
(* The argument: under the lock the anchor does not move between the read  *)
(* of it and its upsert (LockInv, BuildInv), so the rows of the completed  *)
(* appends form an unflawed chain that ends in the anchor (ChainInv).  An  *)
(* unflawed chain is determined by its length and its last hash            *)
(* (ChainInjective), so a table that verify_chain() finds intact can only  *)
(* be that chain (VerdictIsSound).                                         *)
(***************************************************************************)
EXTENDS AuditLog, NatLemmas, SequenceTheorems, TLAPS

Unflawed(rs) == \A i \in 1..Len(rs) : LinkOK(rs, i) /\ ContentOK(rs, i)

(* pc[t] is in append() exactly while t owns the lock.                     *)
LockInv ==
  /\ \A t \in Threads : pc[t] # "idle" => lock = t
  /\ lock # NoThread => pc[lock] # "idle"

(* What a thread built under the lock still continues the anchor.          *)
BuildInv ==
  \A t \in Threads :
    pc[t] \in {"chained", "inserted"} =>
      /\ pending[t] \in [row : Row, count : Nat]
      /\ pending[t].count = head.count
      /\ pending[t].row.prev = head.hash
      /\ pending[t].row.hash = RowHash(head.hash, pending[t].row.payload)

(* The anchor ends the unflawed chain of the completed appends.            *)
ChainInv ==
  /\ head.count = Len(anchored)
  /\ head.hash = TailHash(anchored)
  /\ Unflawed(anchored)

(* The anchor a verify_chain() call read ends a prefix of that chain.      *)
VerifierInv ==
  verifier.step = "headRead" =>
    /\ verifier.head.count <= Len(anchored)
    /\ verifier.head.hash = TailHash(SubSeq(anchored, 1, verifier.head.count))
    /\ verifier.verdict = "none"

IInv == TypeOK /\ LockInv /\ BuildInv /\ ChainInv /\ VerifierInv
-----------------------------------------------------------------------------
(* An unflawed chain is determined by its length and its last hash: walk   *)
(* down from the end, each hash gives the content and the hash before it.  *)
LEMMA ChainInjective ==
  ASSUME NEW rs \in Seq(Row), NEW cs \in Seq(Row),
         Unflawed(rs), Unflawed(cs),
         Len(rs) = Len(cs), TailHash(rs) = TailHash(cs)
  PROVE  rs = cs
<1> DEFINE n == Len(rs)
           Apart == {i \in 1..n : rs[i].hash # cs[i].hash}
<1>1. n \in Nat /\ Len(cs) = n
  OBVIOUS
<1>2. \A i \in 1..n : rs[i] \in Row /\ cs[i] \in Row
  BY <1>1, ElementOfSeq
<1>3. ASSUME NEW i \in 1..n
      PROVE  /\ rs[i].prev = PrevHash(rs, i) /\ cs[i].prev = PrevHash(cs, i)
             /\ rs[i].hash = Append(PrevHash(rs, i), rs[i].payload)
             /\ cs[i].hash = Append(PrevHash(cs, i), cs[i].payload)
             /\ PrevHash(rs, i) \in Seq(Payloads) /\ PrevHash(cs, i) \in Seq(Payloads)
             /\ rs[i].payload \in Payloads /\ cs[i].payload \in Payloads
  <2>1. LinkOK(rs, i) /\ ContentOK(rs, i) /\ LinkOK(cs, i) /\ ContentOK(cs, i)
    BY <1>1 DEF Unflawed
  <2>2. rs[i] \in Row /\ cs[i] \in Row
    BY <1>2
  <2> QED BY <2>1, <2>2 DEF LinkOK, ContentOK, RowHash, Row, Hash
<1>4. ASSUME NEW i \in 1..n, rs[i].hash = cs[i].hash
      PROVE  rs[i].payload = cs[i].payload /\ PrevHash(rs, i) = PrevHash(cs, i)
  <2>1. Append(PrevHash(rs, i), rs[i].payload) = Append(PrevHash(cs, i), cs[i].payload)
    BY <1>3, <1>4
  <2>2. /\ PrevHash(rs, i) \in Seq(Payloads) /\ PrevHash(cs, i) \in Seq(Payloads)
        /\ rs[i].payload \in Payloads /\ cs[i].payload \in Payloads
    BY <1>3
  <2> HIDE DEF n
  <2> QED BY ONLY <2>1, <2>2, AppendInjective
<1>5. Apart = {}
  <2> SUFFICES ASSUME Apart # {} PROVE FALSE
    OBVIOUS
  <2>1. Apart \subseteq 0..n
    BY <1>1
  <2>2. PICK last \in Apart : \A i \in Apart : i <= last
    <3> HIDE DEF Apart
    <3> QED BY <1>1, <2>1, GreatestElement
  <2>3. last \in 1..n /\ rs[last].hash # cs[last].hash
    OBVIOUS
  <2>4. CASE last = n
    <3>1. rs # <<>> /\ cs # <<>>
      BY <2>3, <1>1
    <3>2. rs[n].hash = cs[n].hash
      BY <3>1, <1>1 DEF TailHash
    <3> QED BY <2>3, <2>4, <3>2
  <2>5. CASE last < n
    <3>1. last + 1 \in 1..n /\ last + 1 # 1 /\ (last + 1) - 1 = last
      BY <2>3, <2>5, <1>1
    <3>2. last + 1 \notin Apart
      BY <2>2, <3>1, <2>3, <1>1
    <3>3. PrevHash(rs, last + 1) = PrevHash(cs, last + 1)
      BY <3>1, <3>2, <1>4
    <3>4. rs[last].hash = cs[last].hash
      BY <3>3, <3>1 DEF PrevHash
    <3> QED BY <3>4, <2>3
  <2> QED BY <2>3, <2>4, <2>5, <1>1
<1>6. ASSUME NEW i \in 1..n PROVE rs[i] = cs[i]
  <2>1. rs[i].hash = cs[i].hash
    BY <1>5
  <2>2. rs[i].payload = cs[i].payload /\ rs[i].prev = cs[i].prev
    BY <2>1, <1>3, <1>4
  <2> QED BY <2>1, <2>2, <1>2 DEF Row
<1> QED BY <1>1, <1>6, SeqEqual

(* A verdict "intact" means: as many rows as the anchor counts, unflawed,  *)
(* ending in the anchor's hash.                                            *)
LEMMA IntactMeans ==
  ASSUME NEW h \in Anchor, NEW rs \in Seq(Row), VerifyChain(h, rs) = "intact"
  PROVE  Len(rs) = h.count /\ Unflawed(rs) /\ TailHash(rs) = h.hash
<1>1. Len(rs) = h.count
  BY DEF VerifyChain
<1>2. Flawed(rs) = {}
  BY <1>1 DEF VerifyChain
<1>3. TailHash(rs) = h.hash
  BY <1>1, <1>2 DEF VerifyChain
<1> QED BY <1>1, <1>2, <1>3 DEF Flawed, Unflawed

(* A prefix of an unflawed chain is unflawed.                              *)
LEMMA PrefixUnflawed ==
  ASSUME NEW rs \in Seq(Row), NEW n \in 0..Len(rs), Unflawed(rs)
  PROVE  /\ SubSeq(rs, 1, n) \in Seq(Row)
         /\ Len(SubSeq(rs, 1, n)) = n
         /\ Unflawed(SubSeq(rs, 1, n))
<1> DEFINE prefix == SubSeq(rs, 1, n)
<1>1. prefix \in Seq(Row) /\ Len(prefix) = n /\ \A i \in 1..n : prefix[i] = rs[i]
  OBVIOUS
<1>2. ASSUME NEW i \in 1..n PROVE LinkOK(prefix, i) /\ ContentOK(prefix, i)
  <2>1. LinkOK(rs, i) /\ ContentOK(rs, i)
    BY DEF Unflawed
  <2>2. PrevHash(prefix, i) = PrevHash(rs, i)
    <3>1. CASE i = 1
      BY <3>1 DEF PrevHash
    <3>2. CASE i # 1
      <4>1. i - 1 \in 1..n
        BY <3>2
      <4> HIDE DEF prefix
      <4> QED BY <4>1, <3>2, <1>1 DEF PrevHash
    <3> QED BY <3>1, <3>2
  <2> HIDE DEF prefix
  <2> QED BY <2>1, <2>2, <1>1 DEF LinkOK, ContentOK
<1> HIDE DEF prefix
<1>3. Unflawed(prefix)
  BY <1>1, <1>2 DEF Unflawed
<1> QED BY <1>1, <1>3 DEF prefix

(* Appending a row built on the last hash keeps a chain unflawed.          *)
LEMMA AppendUnflawed ==
  ASSUME NEW rs \in Seq(Row), NEW row \in Row, Unflawed(rs),
         row.prev = TailHash(rs), row.hash = RowHash(TailHash(rs), row.payload)
  PROVE  /\ Append(rs, row) \in Seq(Row)
         /\ Len(Append(rs, row)) = Len(rs) + 1
         /\ TailHash(Append(rs, row)) = row.hash
         /\ Unflawed(Append(rs, row))
<1> DEFINE longer == Append(rs, row)
           n == Len(rs)
<1>1. /\ longer \in Seq(Row) /\ Len(longer) = n + 1 /\ n \in Nat
      /\ \A i \in 1..n : longer[i] = rs[i]
      /\ longer[n + 1] = row
  BY AppendProperties
<1> HIDE DEF longer
<1>2. longer # <<>> /\ TailHash(longer) = row.hash
  BY <1>1 DEF TailHash
<1>3. \A i \in 1..(n + 1) : PrevHash(longer, i) = IF i = n + 1 THEN TailHash(rs) ELSE PrevHash(rs, i)
  <2> SUFFICES ASSUME NEW i \in 1..(n + 1)
               PROVE PrevHash(longer, i) = IF i = n + 1 THEN TailHash(rs) ELSE PrevHash(rs, i)
    OBVIOUS
  <2>1. CASE i = 1 /\ n = 0
    BY <2>1, <1>1 DEF PrevHash, TailHash
  <2>2. CASE i = 1 /\ n # 0
    BY <2>2, <1>1 DEF PrevHash
  <2>3. CASE i # 1
    <3>1. i - 1 \in 1..n /\ n # 0 /\ rs # <<>>
      BY <2>3, <1>1
    <3> QED BY <2>3, <3>1, <1>1 DEF PrevHash, TailHash
  <2> QED BY <2>1, <2>2, <2>3
<1>4. ASSUME NEW i \in 1..(n + 1) PROVE LinkOK(longer, i) /\ ContentOK(longer, i)
  <2>1. CASE i = n + 1
    BY <2>1, <1>1, <1>3 DEF LinkOK, ContentOK
  <2>2. CASE i # n + 1
    <3>1. i \in 1..n
      BY <2>2, <1>1
    <3>2. LinkOK(rs, i) /\ ContentOK(rs, i)
      BY <3>1 DEF Unflawed
    <3> QED BY <2>2, <3>1, <3>2, <1>1, <1>3 DEF LinkOK, ContentOK
  <2> QED BY <2>1, <2>2
<1>5. Unflawed(longer)
  BY <1>1, <1>4 DEF Unflawed
<1> QED BY <1>1, <1>2, <1>5 DEF longer
-----------------------------------------------------------------------------
LEMMA InitIInv == Init => IInv
<1> SUFFICES ASSUME Init PROVE IInv
  OBVIOUS
<1> USE DEF Init
<1>1. NoAnchor \in Anchor /\ Idle \in [step : {"idle", "headRead"}, head : Anchor, verdict : Verdicts]
  BY DEF NoAnchor, Anchor, Genesis, Hash, Idle, Verdicts
<1>2. TypeOK
  BY <1>1 DEF TypeOK, Steps
<1>3. LockInv /\ BuildInv /\ VerifierInv
  BY DEF LockInv, BuildInv, VerifierInv, Idle
<1>4. ChainInv
  BY DEF ChainInv, NoAnchor, TailHash, Unflawed, Genesis
<1> QED BY <1>2, <1>3, <1>4 DEF IInv

(* The steps that leave the anchor, the anchored rows and the verifier     *)
(* alone keep ChainInv and VerifierInv.                                    *)
LEMMA ChainUntouched ==
  ASSUME ChainInv, VerifierInv, UNCHANGED <<head, anchored, verifier>>
  PROVE  ChainInv' /\ VerifierInv'
  BY DEF ChainInv, VerifierInv, Unflawed, LinkOK, ContentOK, PrevHash, TailHash

LEMMA NewRowIsRow ==
  ASSUME NEW p \in Payloads, NEW prev \in Hash
  PROVE  /\ NewRow(prev, p) \in Row
         /\ NewRow(prev, p).prev = prev
         /\ NewRow(prev, p).payload = p
         /\ NewRow(prev, p).hash = RowHash(prev, p)
  BY DEF NewRow, Row, RowHash, Hash

LEMMA ChainStep ==
  ASSUME NEW t \in Threads, NEW p \in Payloads, IInv, Chain(t, p)
  PROVE  IInv'
<1> USE DEF IInv, Chain, store, history
<1>1. head.hash \in Hash /\ head.count \in Nat /\ pc \in [Threads -> Steps]
  BY DEF TypeOK, Anchor
<1>2. NewRow(head.hash, p) \in Row
  BY <1>1, NewRowIsRow
<1>3. TypeOK'
  BY <1>1, <1>2 DEF TypeOK, Steps
<1>4. \A u \in Threads : pc[u] = "idle"
  BY NoThreadAssumption DEF LockInv
<1>5. LockInv'
  BY <1>4, NoThreadAssumption DEF LockInv, TypeOK
<1>6. BuildInv'
  <2> SUFFICES ASSUME NEW u \in Threads, pc'[u] \in {"chained", "inserted"}
               PROVE /\ pending'[u] \in [row : Row, count : Nat]
                     /\ pending'[u].count = head.count
                     /\ pending'[u].row.prev = head.hash
                     /\ pending'[u].row.hash = RowHash(head.hash, pending'[u].row.payload)
    BY DEF BuildInv
  <2>1. u = t
    BY <1>4, <1>1
  <2>2. pending'[t] = [row |-> NewRow(head.hash, p), count |-> head.count]
    BY DEF TypeOK
  <2> QED BY <2>1, <2>2, <1>1, <1>2, NewRowIsRow
<1> QED BY <1>3, <1>5, <1>6, ChainUntouched

LEMMA InsertStep ==
  ASSUME NEW t \in Threads, IInv, InsertRow(t)
  PROVE  IInv'
<1> USE DEF IInv, InsertRow
<1>1. pending[t] \in [row : Row, count : Nat] /\ pc \in [Threads -> Steps]
  BY DEF BuildInv, TypeOK
<1>2. Append(rows, pending[t].row) \in Seq(Row)
  BY <1>1 DEF TypeOK
<1>3. TypeOK'
  BY <1>1, <1>2 DEF TypeOK, Steps
<1>4. LockInv'
  BY <1>1 DEF LockInv, TypeOK
<1>5. BuildInv'
  BY <1>1 DEF BuildInv
<1> QED BY <1>3, <1>4, <1>5, ChainUntouched

LEMMA UpsertStep ==
  ASSUME NEW t \in Threads, IInv, UpsertHead(t)
  PROVE  /\ IInv'
         /\ head'.hash = Append(head.hash, pending[t].row.payload)
         /\ pending[t].row.payload \in Payloads
<1> USE DEF IInv, UpsertHead
<1> DEFINE row == pending[t].row
<1>1. /\ pending[t] \in [row : Row, count : Nat] /\ row \in Row
      /\ pending[t].count = head.count /\ row.prev = head.hash
      /\ row.hash = RowHash(head.hash, row.payload)
      /\ row.payload \in Payloads /\ row.hash \in Hash
  BY DEF BuildInv, Row
<1>2. pc \in [Threads -> Steps] /\ head.count \in Nat /\ anchored \in Seq(Row)
  BY DEF TypeOK, Anchor
<1>3. Unflawed(anchored) /\ head.hash = TailHash(anchored) /\ head.count = Len(anchored)
  BY DEF ChainInv
<1>4. /\ Append(anchored, row) \in Seq(Row)
      /\ Len(Append(anchored, row)) = Len(anchored) + 1
      /\ TailHash(Append(anchored, row)) = row.hash
      /\ Unflawed(Append(anchored, row))
  BY <1>1, <1>2, <1>3, AppendUnflawed
<1>5. anchored' = Append(anchored, row) /\ head' = [hash |-> row.hash, count |-> head.count + 1]
  BY <1>1
<1>6. TypeOK'
  BY <1>1, <1>2, <1>4, <1>5 DEF TypeOK, Steps, Anchor
<1>7. LockInv'
  BY <1>2 DEF LockInv, TypeOK
<1>8. BuildInv'
  <2>1. \A u \in Threads : u # t => pc[u] = "idle"
    BY DEF LockInv
  <2>2. \A u \in Threads : pc'[u] \notin {"chained", "inserted"}
    BY <2>1, <1>2
  <2> QED BY <2>2 DEF BuildInv
<1>9. ChainInv'
  <2>1. Unflawed(anchored)' = Unflawed(Append(anchored, row))
    BY <1>5 DEF Unflawed, LinkOK, ContentOK, PrevHash
  <2>2. TailHash(anchored)' = TailHash(Append(anchored, row))
    BY <1>5 DEF TailHash
  <2> QED BY <2>1, <2>2, <1>3, <1>4, <1>5 DEF ChainInv
<1>10. VerifierInv'
  <2> SUFFICES ASSUME verifier.step = "headRead"
               PROVE  /\ verifier.head.count <= Len(anchored')
                      /\ verifier.head.hash = TailHash(SubSeq(anchored', 1, verifier.head.count))
                      /\ verifier.verdict = "none"
    BY DEF VerifierInv, TailHash
  <2> DEFINE n == verifier.head.count
  <2>1. /\ n \in Nat /\ n <= Len(anchored) /\ verifier.verdict = "none"
        /\ verifier.head.hash = TailHash(SubSeq(anchored, 1, n))
    BY DEF VerifierInv, TypeOK, Anchor
  <2>2. SubSeq(Append(anchored, row), 1, n) = SubSeq(anchored, 1, n)
    BY <2>1, <1>1, <1>2
  <2>3. n <= Len(anchored')
    <3>1. Len(anchored) \in Nat /\ Len(anchored') = Len(anchored) + 1
      BY <1>2, <1>4, <1>5
    <3> QED BY <2>1, <3>1
  <2>4. SubSeq(anchored', 1, n) = SubSeq(anchored, 1, n)
    BY <2>2, <1>5
  <2> QED BY <2>1, <2>3, <2>4
<1> QED BY <1>1, <1>5, <1>6, <1>7, <1>8, <1>9, <1>10 DEF RowHash

(* Return, a raising statement and a kill leave the lock free and nobody   *)
(* in append().                                                            *)
LEMMA LeaveStep ==
  ASSUME NEW t \in Threads, IInv, Return(t) \/ StatementFails(t)
  PROVE  IInv'
<1> USE DEF IInv
<1>1. /\ pc[t] # "idle" /\ lock' = NoThread
      /\ pc' = [pc EXCEPT ![t] = "idle"]
      /\ pending' = [pending EXCEPT ![t] = NoAppend]
      /\ UNCHANGED <<rows, head, verifier, anchored, inserted, changes>>
      /\ torn' \in {torn, torn + 1}
  BY DEF Return, StatementFails, store, history
<1>2. TypeOK'
  BY <1>1 DEF TypeOK, Steps
<1>3. \A u \in Threads : pc'[u] = "idle"
  BY <1>1 DEF LockInv, TypeOK
<1>4. LockInv' /\ BuildInv'
  BY <1>1, <1>3 DEF LockInv, BuildInv
<1> QED BY <1>1, <1>2, <1>4, ChainUntouched

LEMMA CrashStep ==
  ASSUME IInv, Crash
  PROVE  IInv'
<1> USE DEF IInv, Crash, store
<1>1. Idle \in [step : {"idle", "headRead"}, head : Anchor, verdict : Verdicts]
  BY DEF NoAnchor, Anchor, Genesis, Hash, Idle, Verdicts
<1>2. TypeOK'
  BY <1>1 DEF TypeOK, Steps
<1>3. LockInv' /\ BuildInv'
  BY DEF LockInv, BuildInv
<1>4. ChainInv' /\ VerifierInv'
  BY DEF ChainInv, VerifierInv, Idle, Unflawed, LinkOK, ContentOK, PrevHash, TailHash
<1> QED BY <1>2, <1>3, <1>4

LEMMA VerifyStep ==
  ASSUME IInv, Verify
  PROVE  IInv'
<1> USE DEF IInv, store, history
<1>1. LockInv' /\ BuildInv'
  BY DEF Verify, VerifyReadHead, VerifyReadRows, LockInv, BuildInv
<1>2. ChainInv'
  BY DEF Verify, VerifyReadHead, VerifyReadRows, ChainInv, Unflawed, LinkOK, ContentOK, PrevHash, TailHash
<1>3. CASE VerifyReadHead
  <2>1. TypeOK'
    BY <1>3 DEF VerifyReadHead, TypeOK, Verdicts
  <2>2. SubSeq(anchored, 1, Len(anchored)) = anchored
    BY DEF TypeOK
  <2>3. head.count = Len(anchored) /\ head.hash = TailHash(anchored) /\ Len(anchored) \in Nat
    BY DEF ChainInv, TypeOK
  <2>4. verifier' = [step |-> "headRead", head |-> head, verdict |-> "none"] /\ anchored' = anchored
    BY <1>3 DEF VerifyReadHead
  <2>5. VerifierInv'
    BY <2>2, <2>3, <2>4 DEF VerifierInv, TailHash
  <2> QED BY <1>1, <1>2, <2>1, <2>5
<1>4. CASE VerifyReadRows
  <2>1. VerifyChain(verifier.head, rows) \in Verdicts
    BY DEF VerifyChain, Verdicts
  <2>2. NoAnchor \in Anchor
    BY DEF NoAnchor, Anchor, Genesis, Hash
  <2>3. TypeOK'
    BY <1>4, <2>1, <2>2 DEF VerifyReadRows, TypeOK
  <2>4. VerifierInv'
    BY <1>4 DEF VerifyReadRows, VerifierInv
  <2> QED BY <1>1, <1>2, <2>3, <2>4
<1> QED BY <1>3, <1>4 DEF Verify

LEMMA OutsideStep ==
  ASSUME NEW i \in 1..Len(rows), IInv, DeleteRow(i) \/ \E p \in Payloads : EditRow(i, p)
  PROVE  IInv'
<1> USE DEF IInv
<1>1. UNCHANGED <<head, lock, pc, pending, verifier, anchored, inserted, torn>> /\ changes' = changes + 1
  BY DEF DeleteRow, EditRow
<1>2. rows' \in Seq(Row)
  <2>0. rows \in Seq(Row) /\ Len(rows) \in Nat
    BY DEF TypeOK
  <2>1. CASE DeleteRow(i)
    <3>1. Len(rows) - 1 \in Nat
      BY <2>0
    <3>2. \A j \in 1..(Len(rows) - 1) : (IF j < i THEN rows[j] ELSE rows[j+1]) \in Row
      <4> SUFFICES ASSUME NEW j \in 1..(Len(rows) - 1) PROVE rows[j] \in Row /\ rows[j+1] \in Row
        OBVIOUS
      <4>1. j \in 1..Len(rows) /\ j + 1 \in 1..Len(rows)
        BY <2>0
      <4> QED BY <4>1, <2>0, ElementOfSeq
    <3>3. rows' = [j \in 1..(Len(rows) - 1) |-> IF j < i THEN rows[j] ELSE rows[j+1]]
      BY <2>1 DEF DeleteRow
    <3> QED BY <3>1, <3>2, <3>3, IsASeq
  <2>2. ASSUME NEW p \in Payloads, EditRow(i, p) PROVE rows' \in Seq(Row)
    <3>1. rows[i] \in Row
      BY <2>0, ElementOfSeq
    <3>2. [rows[i] EXCEPT !.payload = p] \in Row
      BY <3>1 DEF Row
    <3>3. rows' = [rows EXCEPT ![i] = [rows[i] EXCEPT !.payload = p]]
      BY <2>2 DEF EditRow
    <3> QED BY <3>2, <3>3, <2>0, ExceptSeq
  <2> QED BY <2>1, <2>2
<1>3. TypeOK'
  BY <1>1, <1>2 DEF TypeOK
<1>4. LockInv' /\ BuildInv'
  BY <1>1 DEF LockInv, BuildInv
<1> QED BY <1>1, <1>3, <1>4, ChainUntouched

LEMMA NextIInv == IInv /\ [Next]_vars => IInv'
<1> SUFFICES ASSUME IInv, [Next]_vars PROVE IInv'
  OBVIOUS
<1>1. ASSUME NEW t \in Threads, Appends(t) PROVE IInv'
  BY <1>1, ChainStep, InsertStep, UpsertStep, LeaveStep DEF Appends
<1>2. CASE Verify
  BY <1>2, VerifyStep
<1>3. CASE Crash
  BY <1>3, CrashStep
<1>4. CASE OutsideChange
  BY <1>4, OutsideStep DEF OutsideChange
<1>5. CASE UNCHANGED vars
  <2>1. ChainInv' /\ VerifierInv'
    BY <1>5, ChainUntouched DEF vars, IInv
  <2>2. TypeOK' /\ LockInv' /\ BuildInv'
    BY <1>5 DEF vars, IInv, TypeOK, LockInv, BuildInv
  <2> QED BY <2>1, <2>2 DEF IInv
<1> QED BY <1>1, <1>2, <1>3, <1>4, <1>5 DEF Next

(* The inductive invariant of the audit store.                             *)
THEOREM StoreInvariant == Spec => []IInv
<1> QED BY InitIInv, NextIInv, PTL DEF Spec

(* Every variable keeps its type (AuditLog!TypeOK).                        *)
THEOREM TypeCorrect == Spec => []TypeOK
<1>1. IInv => TypeOK
  BY DEF IInv
<1> QED BY <1>1, StoreInvariant, PTL
-----------------------------------------------------------------------------
(* A verify_chain() call that answers "chain intact" read exactly the rows *)
(* of the appends completed when it read the anchor, whatever happened     *)
(* between its reads (store.py verify_chain).                              *)
THEOREM VerdictIsSound == Spec => VerdictSound
<1> DEFINE Sound == verifier.step = "headRead" /\ verifier'.verdict = "intact"
                      => rows = SubSeq(anchored, 1, verifier.head.count)
<1>1. ASSUME IInv, [Next]_vars PROVE [Sound]_vars
  <2> SUFFICES ASSUME verifier.step = "headRead", verifier'.verdict = "intact", Next
               PROVE rows = SubSeq(anchored, 1, verifier.head.count)
    BY <1>1
  <2> DEFINE n == verifier.head.count
  <2>1. VerifyReadRows \/ verifier' = verifier \/ verifier' = Idle
    BY DEF Next, Appends, Chain, InsertRow, UpsertHead, Return, StatementFails, Verify,
           VerifyReadHead, Crash, OutsideChange, DeleteRow, EditRow
  <2>2. CASE VerifyReadRows
    <3>1. /\ verifier.head \in Anchor /\ n \in Nat /\ rows \in Seq(Row) /\ anchored \in Seq(Row)
          /\ Unflawed(anchored) /\ n <= Len(anchored)
          /\ verifier.head.hash = TailHash(SubSeq(anchored, 1, n))
      BY <1>1 DEF IInv, TypeOK, Anchor, ChainInv, VerifierInv
    <3>2. VerifyChain(verifier.head, rows) = "intact"
      BY <2>2 DEF VerifyReadRows
    <3>3. Len(rows) = n /\ Unflawed(rows) /\ TailHash(rows) = verifier.head.hash
      BY <3>1, <3>2, IntactMeans
    <3>4. n \in 0..Len(anchored)
      <4>1. Len(anchored) \in Nat /\ n \in Nat /\ n <= Len(anchored)
        BY <3>1
      <4> QED BY <4>1
    <3>5. /\ SubSeq(anchored, 1, n) \in Seq(Row) /\ Len(SubSeq(anchored, 1, n)) = n
          /\ Unflawed(SubSeq(anchored, 1, n))
      BY <3>1, <3>4, PrefixUnflawed
    <3> QED BY <3>1, <3>3, <3>5, ChainInjective
  <2>3. CASE verifier' = verifier
    BY <2>3, <1>1 DEF IInv, VerifierInv
  <2>4. CASE verifier' = Idle
    BY <2>4 DEF Idle
  <2> QED BY <2>1, <2>2, <2>3, <2>4
<1> QED BY <1>1, StoreInvariant, PTL DEF Spec, VerdictSound
-----------------------------------------------------------------------------
(* The store implements the append-only log: only the anchor's upsert      *)
(* moves the recorded log, and it appends the content it inserted.         *)
THEOREM ImplementsAppendOnlyLog == Spec => RecordedSpec
<1>1. Init => Recorded!Init
  BY DEF Init, Recorded!Init, NoAnchor, Genesis
<1>2. ASSUME IInv, [Next]_vars PROVE [Recorded!Next]_(head.hash)
  <2>1. ASSUME NEW t \in Threads, UpsertHead(t) PROVE Recorded!Next
    BY <1>2, <2>1, UpsertStep DEF Recorded!Next, Recorded!Record
  <2>2. CASE ~ \E t \in Threads : UpsertHead(t)
    <3>1. UNCHANGED head
      BY <1>2, <2>2 DEF Next, Appends, Chain, InsertRow, Return, StatementFails, Verify,
             VerifyReadHead, VerifyReadRows, Crash, OutsideChange, DeleteRow, EditRow,
             store, vars
    <3> QED BY <3>1
  <2> QED BY <2>1, <2>2
<1> QED BY <1>1, <1>2, StoreInvariant, PTL DEF Spec, RecordedSpec, Recorded!Spec
-----------------------------------------------------------------------------
(* The rows are those of the completed appends, as long as none was cut.   *)
InPlace == torn = 0 => \A i \in 1..Len(anchored) : rows[i] = anchored[i]

(* Without outside changes the rows are those of the completed appends,    *)
(* each in its place or later, and the ones cut between their statements.  *)
RowsInv ==
  changes = 0 =>
    /\ RowsAccounted
    /\ AnchoredSurvive
    /\ InPlace
    /\ \A t \in Threads : pc[t] = "inserted" =>
          /\ rows # <<>>
          /\ rows[Len(rows)] = pending[t].row
          /\ Len(rows) > Len(anchored)

(* Who is between the two statements before and after a step.              *)
LEMMA InFlightMoves ==
  ASSUME IInv, NEW t \in Threads
  PROVE  /\ InsertRow(t) => InFlight = {} /\ InFlight' # {}
         /\ UpsertHead(t) => InFlight # {} /\ InFlight' = {}
         /\ StatementFails(t) /\ pc[t] = "inserted" => InFlight # {} /\ InFlight' = {}
         /\ StatementFails(t) /\ pc[t] # "inserted" => InFlight' = InFlight
         /\ Return(t) => InFlight' = InFlight
         /\ \A p \in Payloads : Chain(t, p) => InFlight' = InFlight
<1>1. /\ pc \in [Threads -> Steps]
      /\ \A u \in Threads : pc[u] # "idle" /\ pc[t] # "idle" => u = t
  BY DEF IInv, TypeOK, LockInv
<1>2. ASSUME NEW step \in Steps, pc' = [pc EXCEPT ![t] = step]
      PROVE  \A u \in Threads : pc'[u] = IF u = t THEN step ELSE pc[u]
  BY <1>1, <1>2
<1>3. "chained" \in Steps /\ "inserted" \in Steps /\ "anchored" \in Steps /\ "idle" \in Steps
  BY DEF Steps
<1>4. InsertRow(t) => InFlight = {} /\ InFlight' # {}
  BY <1>1, <1>2, <1>3 DEF InFlight, InsertRow
<1>5. UpsertHead(t) => InFlight # {} /\ InFlight' = {}
  BY <1>1, <1>2, <1>3 DEF InFlight, UpsertHead
<1>6. StatementFails(t) /\ pc[t] = "inserted" => InFlight # {} /\ InFlight' = {}
  BY <1>1, <1>2, <1>3 DEF InFlight, StatementFails
<1>7. StatementFails(t) /\ pc[t] # "inserted" => InFlight' = InFlight
  BY <1>1, <1>2, <1>3 DEF InFlight, StatementFails
<1>8. Return(t) => InFlight' = InFlight
  BY <1>1, <1>2, <1>3 DEF InFlight, Return
<1>9. \A p \in Payloads : Chain(t, p) => InFlight' = InFlight
  BY <1>1, <1>2, <1>3 DEF InFlight, Chain
<1>10. QED
  BY <1>4, <1>5, <1>6, <1>7, <1>8, <1>9

LEMMA InitRowsInv == Init => RowsInv
BY DEF Init, RowsInv, RowsAccounted, AnchoredSurvive, InPlace, InFlight, NoAnchor

LEMMA InsertRowsStep ==
  ASSUME IInv, RowsInv, changes = 0, NEW t \in Threads, InsertRow(t)
  PROVE  RowsInv'
<1> DEFINE row == pending[t].row
           n == Len(rows)
<1>1. /\ rows \in Seq(Row) /\ n \in Nat /\ row \in Row
      /\ anchored \in Seq(Row) /\ Len(anchored) \in Nat
      /\ head.count = Len(anchored) /\ torn \in Nat
      /\ pc \in [Threads -> Steps]
  BY DEF IInv, TypeOK, BuildInv, ChainInv, InsertRow
<1>2. /\ rows' = Append(rows, row) /\ pending' = pending /\ anchored' = anchored
      /\ head' = head /\ torn' = torn /\ changes' = 0
      /\ pc' = [pc EXCEPT ![t] = "inserted"]
  BY DEF InsertRow
<1>3. Len(rows') = n + 1 /\ rows'[n + 1] = row /\ \A i \in 1..n : rows'[i] = rows[i]
  BY <1>1, <1>2
<1>4. InFlight = {} /\ InFlight' # {}
  BY InFlightMoves
<1>5. n = head.count + torn
  BY <1>1, <1>4 DEF RowsInv, RowsAccounted
<1>6. RowsAccounted'
  BY <1>1, <1>2, <1>3, <1>4, <1>5 DEF RowsAccounted
<1>7. AnchoredSurvive'
  <2> SUFFICES ASSUME NEW i \in 1..Len(anchored)
               PROVE  \E j \in i..Len(rows') : rows'[j] = anchored[i]
    BY <1>2 DEF AnchoredSurvive
  <2>1. PICK j \in i..n : rows[j] = anchored[i]
    BY DEF RowsInv, AnchoredSurvive
  <2>2. j \in 1..n /\ j \in i..(n + 1)
    BY <2>1, <1>1
  <2>3. QED
    BY <2>1, <2>2, <1>3
<1>8. \A u \in Threads : pc'[u] = "inserted" => u = t
  BY <1>1, <1>2, <1>4 DEF InFlight
<1>9. rows' # <<>> /\ rows'[Len(rows')] = pending'[t].row /\ Len(rows') > Len(anchored')
  BY <1>1, <1>2, <1>3, <1>5
<1>10. InPlace'
  <2>1. Len(anchored) <= n
    BY <1>1, <1>5
  <2>2. \A i \in 1..Len(anchored) : i \in 1..n
    BY <1>1, <2>1
  <2>3. QED
    BY <2>2, <1>2, <1>3 DEF RowsInv, InPlace
<1>11. QED
  BY <1>6, <1>7, <1>8, <1>9, <1>10 DEF RowsInv

LEMMA UpsertRowsStep ==
  ASSUME IInv, RowsInv, changes = 0, NEW t \in Threads, UpsertHead(t)
  PROVE  RowsInv'
<1> DEFINE row == pending[t].row
           n == Len(rows)
           a == Len(anchored)
<1>1. /\ rows \in Seq(Row) /\ n \in Nat /\ row \in Row
      /\ anchored \in Seq(Row) /\ a \in Nat
      /\ pending[t].count = head.count /\ head.count = a /\ torn \in Nat
  BY DEF IInv, TypeOK, BuildInv, ChainInv, UpsertHead
<1>2. /\ rows' = rows /\ anchored' = Append(anchored, row)
      /\ head'.count = head.count + 1 /\ torn' = torn /\ changes' = 0
  BY <1>1 DEF UpsertHead
<1>3. InFlight # {} /\ InFlight' = {}
  BY InFlightMoves
<1>4. n = head.count + torn + 1
  BY <1>3 DEF RowsInv, RowsAccounted
<1>5. RowsAccounted'
  BY <1>1, <1>2, <1>3, <1>4 DEF RowsAccounted
<1>6. rows[n] = row /\ n > a
  BY DEF RowsInv, UpsertHead
<1>7. AnchoredSurvive'
  <2>1. Len(anchored') = a + 1 /\ anchored'[a + 1] = row /\ \A i \in 1..a : anchored'[i] = anchored[i]
    BY <1>1, <1>2
  <2> SUFFICES ASSUME NEW i \in 1..(a + 1)
               PROVE  \E j \in i..n : rows[j] = anchored'[i]
    BY <1>2, <2>1 DEF AnchoredSurvive
  <2>2. CASE i = a + 1
    <3>1. n \in i..n
      BY <2>2, <1>1, <1>6
    <3>2. QED
      BY <3>1, <2>2, <2>1, <1>6
  <2>3. CASE i # a + 1
    <3>1. i \in 1..a
      BY <2>3, <1>1
    <3>2. QED
      BY <3>1, <2>1 DEF RowsInv, AnchoredSurvive
  <2>4. QED
    BY <2>2, <2>3
<1>8. InPlace'
  <2>1. anchored'[a + 1] = row /\ Len(anchored') = a + 1 /\ \A i \in 1..a : anchored'[i] = anchored[i]
    BY <1>1, <1>2
  <2>2. torn = 0 => n = a + 1
    BY <1>1, <1>4
  <2>3. \A i \in 1..(a + 1) : i = a + 1 \/ i \in 1..a
    BY <1>1
  <2>4. QED
    BY <2>1, <2>2, <2>3, <1>2, <1>6 DEF RowsInv, InPlace
<1>9. QED
  BY <1>3, <1>5, <1>7, <1>8 DEF RowsInv, InFlight

(* The steps that leave both tables alone: a cut append is counted.        *)
LEMMA CutRowsStep ==
  ASSUME IInv, RowsInv, changes = 0, UNCHANGED <<rows, head, anchored, changes>>,
         torn' = IF InFlight = {} THEN torn ELSE torn + 1,
         InFlight' = {}
  PROVE  RowsInv'
<1>1. head.count \in Nat /\ torn \in Nat /\ Len(rows) \in Nat
  BY DEF IInv, TypeOK, Anchor
<1>2. RowsAccounted'
  BY <1>1 DEF RowsInv, RowsAccounted
<1>3. AnchoredSurvive'
  BY DEF RowsInv, AnchoredSurvive
<1>4. InPlace'
  BY <1>1 DEF RowsInv, InPlace
<1>5. QED
  BY <1>2, <1>3, <1>4 DEF RowsInv, InFlight

LEMMA StillRowsStep ==
  ASSUME RowsInv, changes = 0, UNCHANGED <<rows, head, anchored, torn, changes>>,
         InFlight' = InFlight,
         \A t \in Threads : pc'[t] = "inserted" => pc[t] = "inserted" /\ pending'[t] = pending[t]
  PROVE  RowsInv'
BY DEF RowsInv, RowsAccounted, AnchoredSurvive, InPlace

LEMMA AppendsRowsStep ==
  ASSUME IInv, RowsInv, changes = 0, NEW t \in Threads, Appends(t)
  PROVE  RowsInv'
<1>1. /\ pc \in [Threads -> Steps]
      /\ pending \in [Threads -> [row : Row, count : Nat] \union {NoAppend}]
  BY DEF IInv, TypeOK
<1>2. ASSUME NEW p \in Payloads, Chain(t, p) PROVE RowsInv'
  <2>1. \A u \in Threads : pc'[u] = "inserted" => pc[u] = "inserted" /\ pending'[u] = pending[u]
    BY <1>1, <1>2 DEF Chain
  <2>2. QED
    BY <2>1, <1>2, InFlightMoves, StillRowsStep DEF Chain, store, history
<1>3. CASE InsertRow(t)
  BY <1>3, InsertRowsStep
<1>4. CASE UpsertHead(t)
  BY <1>4, UpsertRowsStep
<1>5. CASE Return(t)
  <2>1. \A u \in Threads : pc'[u] = "inserted" => pc[u] = "inserted" /\ pending'[u] = pending[u]
    BY <1>1, <1>5 DEF Return
  <2>2. QED
    BY <2>1, <1>5, InFlightMoves, StillRowsStep DEF Return, store, history
<1>6. CASE StatementFails(t) /\ pc[t] = "inserted"
  BY <1>6, InFlightMoves, CutRowsStep DEF StatementFails, store
<1>7. CASE StatementFails(t) /\ pc[t] # "inserted"
  <2>1. \A u \in Threads : pc'[u] = "inserted" => pc[u] = "inserted" /\ pending'[u] = pending[u]
    BY <1>1, <1>7 DEF StatementFails
  <2>2. QED
    BY <2>1, <1>7, InFlightMoves, StillRowsStep DEF StatementFails, store
<1>8. QED
  BY <1>2, <1>3, <1>4, <1>5, <1>6, <1>7 DEF Appends

LEMMA NextRowsInv == IInv /\ RowsInv /\ [Next]_vars => RowsInv'
<1> SUFFICES ASSUME IInv, RowsInv, [Next]_vars PROVE RowsInv'
  OBVIOUS
<1>1. changes \in Nat /\ changes' \in Nat /\ changes' >= changes
  BY DEF IInv, TypeOK, Next, Appends, Chain, InsertRow, UpsertHead, Return, StatementFails,
         Verify, VerifyReadHead, VerifyReadRows, Crash, OutsideChange, DeleteRow, EditRow,
         history, vars
<1>2. CASE changes # 0
  BY <1>1, <1>2 DEF RowsInv
<1>3. CASE changes = 0
  <2>1. ASSUME NEW t \in Threads, Appends(t) PROVE RowsInv'
    BY <1>3, <2>1, AppendsRowsStep
  <2>2. CASE Verify \/ UNCHANGED vars
    <3>1. UNCHANGED <<rows, head, anchored, torn, changes, pc, pending>>
      BY <2>2 DEF Verify, VerifyReadHead, VerifyReadRows, store, history, vars
    <3>2. QED
      BY <3>1, <1>3, StillRowsStep DEF InFlight
  <2>3. CASE Crash
    <3>1. InFlight' = {}
      BY <2>3 DEF Crash, InFlight
    <3>2. torn' = IF InFlight = {} THEN torn ELSE torn + 1
      BY <2>3 DEF Crash, InFlight
    <3>3. QED
      BY <3>1, <3>2, <2>3, <1>3, CutRowsStep DEF Crash, store
  <2>4. CASE OutsideChange
    BY <2>4, <1>1 DEF RowsInv, OutsideChange, DeleteRow, EditRow
  <2>5. QED
    BY <2>1, <2>2, <2>3, <2>4 DEF Next
<1>4. QED
  BY <1>2, <1>3

(* With nobody in append(), nothing cut and nothing changed from outside,  *)
(* the rows are exactly the chain that ends in the anchor.                 *)
LEMMA QuiescentIntact ==
  ASSUME IInv, RowsInv
  PROVE  IntactWhenQuiescent
<1> SUFFICES ASSUME changes = 0, torn = 0, lock = NoThread
             PROVE  VerifyChain(head, rows) = "intact"
  BY DEF IntactWhenQuiescent
<1> DEFINE n == Len(anchored)
<1>1. /\ rows \in Seq(Row) /\ anchored \in Seq(Row) /\ n \in Nat /\ Len(rows) \in Nat
      /\ head.count = n /\ head.hash = TailHash(anchored) /\ Unflawed(anchored)
  BY DEF IInv, TypeOK, ChainInv
<1>2. InFlight = {}
  <2>1. \A t \in Threads : lock # t
    BY NoThreadAssumption
  <2>2. QED
    BY <2>1 DEF InFlight, IInv, LockInv
<1>3. Len(rows) = n
  BY <1>1, <1>2 DEF RowsInv, RowsAccounted
<1>4. rows = anchored
  BY <1>1, <1>3, SeqEqual DEF RowsInv, InPlace
<1>5. Flawed(rows) = {}
  BY <1>1, <1>4 DEF Flawed, Unflawed
<1>6. QED
  BY <1>1, <1>3, <1>4, <1>5 DEF VerifyChain

(* However many appends were cut by a kill or an error, the table is       *)
(* longer than the anchor says by exactly those, no row whose anchor was   *)
(* written is lost, and as long as none was cut verify_chain() finds the   *)
(* chain intact, unless somebody changed the table from outside            *)
(* (AuditLog!StoreSound): for all Threads, Payloads and bounds.            *)
THEOREM RowsAreKept == Spec => []StoreSound
<1>1. IInv /\ RowsInv => StoreSound
  BY QuiescentIntact DEF IInv, RowsInv, RowsAccounted, AnchoredSurvive, StoreSound
<1>2. QED
  BY <1>1, InitRowsInv, NextRowsInv, StoreInvariant, PTL DEF Spec
=============================================================================
