------------------------ MODULE ChannelDeliveryProofs -------------------------
(***************************************************************************)
(* Proofs about what the channels keep between a vendor and the gateway:   *)
(* polls and bridges, media streams, webhooks, the shelf of media, the     *)
(* tokens of a reply, the gates and replies of the adapters, and the       *)
(* vendor a reply goes out by.  Each part has an inductive invariant of    *)
(* its own, and none of them reads another's state, so that the theorems   *)
(* hold of each whatever the others do.                                    *)
(***************************************************************************)
EXTENDS ArtifactShelf, MailPoll, ImapSession, TelegramBridge, VoiceStreams, WebhookDelivery,
        SendTokens, AdapterGates, AdapterSends, WhatsAppRoutes, NatLemmas, TLAPS

-------------------------------------------------------------------------------
(***************************************************************************)
(* ArtifactShelf: the shelf of media, for any contents and any age limit.  *)
(*                                                                         *)
(* A time is that of the content it lies beside, or of an earlier write of *)
(* it that nothing has removed (TimesHaveContents); what is gone was       *)
(* removed or is too old (GoneByAge).                                      *)
(***************************************************************************)
ShelfTypes ==
  /\ now \in Nat /\ shelf \in SUBSET Blobs
  /\ created \in [Blobs -> Nat \union {NoTime}]
  /\ first_stored \in [Blobs -> Nat \union {NoTime}]

(* A time is that of the content it lies beside or of an earlier write of  *)
(* it that nothing has removed; what is being stored is there.             *)
TimesHaveContents ==
  \A b \in Blobs :
    /\ first_stored[b] # NoTime => first_stored[b] <= now
    /\ created[b] # NoTime => /\ b \in shelf /\ created[b] <= now
                              /\ first_stored[b] # NoTime /\ first_stored[b] <= created[b]
Unfinished ==
  /\ \A b \in storing : b \in shelf /\ first_stored[b] # NoTime

(* What is not there was removed, or is older than MAX_AGE.                *)
GoneByAge ==
  \A b \in Blobs : first_stored[b] # NoTime /\ b \notin shelf => now > first_stored[b] + ShelfMaxAge

ShelfInv == ShelfTypes /\ TimesHaveContents /\ Unfinished /\ GoneByAge

USE ShelfAssumption

LEMMA InitShelf == ClockInit /\ ShelfInit => ShelfInv
BY DEF ClockInit, ShelfInit, ShelfInv, ShelfTypes, TimesHaveContents, Unfinished, GoneByAge

LEMMA ContentKeeps ==
  ASSUME ShelfInv, NEW b \in Blobs, StoreBytes(b) \/ ImapStores(b)
  PROVE  ShelfInv'
<1>1. /\ b \notin shelf /\ shelf' = shelf \union {b} /\ now' = now /\ created' = created
      /\ storing' \subseteq storing \union {b}
  BY DEF StoreBytes, ImapStores
<1>2. /\ first_stored'[b] = now /\ first_stored' \in [Blobs -> Nat \union {NoTime}]
      /\ \A c \in Blobs : c # b => first_stored'[c] = first_stored[c]
  BY DEF StoreBytes, ImapStores, ShelfInv, ShelfTypes
<1>3. created[b] = NoTime
  BY <1>1 DEF ShelfInv, TimesHaveContents
<1> QED
  BY <1>1, <1>2, <1>3 DEF ShelfInv, ShelfTypes, TimesHaveContents, Unfinished, GoneByAge

LEMMA NextShelf == ShelfInv /\ [ShelfNext]_<<now, shelf_vars>> => ShelfInv'
<1> SUFFICES ASSUME ShelfInv, [ShelfNext]_<<now, shelf_vars>> PROVE ShelfInv'
  OBVIOUS
<1> USE DEF ShelfInv, ShelfTypes, TimesHaveContents, Unfinished, GoneByAge
<1>1. ASSUME NEW b \in Blobs, StoreBytes(b) \/ ImapStores(b) PROVE ShelfInv'
  BY <1>1, ContentKeeps
<1>2. ASSUME NEW b \in Blobs, StoreMeta(b) PROVE ShelfInv'
  BY <1>2 DEF StoreMeta
<1>3. ASSUME NEW b \in Blobs, RemoveArtifact(b) PROVE ShelfInv'
  BY <1>3 DEF RemoveArtifact
<1>4. CASE StoreDies
  BY <1>4 DEF StoreDies
<1>5. CASE CleanupExpired
  <2>1. ASSUME NEW b \in Blobs, IsOld(b) PROVE now > first_stored[b] + ShelfMaxAge
    BY <2>1 DEF IsOld
  <2> QED BY <1>5, <2>1 DEF CleanupExpired
<1>6. CASE Passes /\ UNCHANGED shelf_vars
  BY <1>6 DEF Passes, shelf_vars
<1>7. CASE UNCHANGED <<now, shelf_vars>>
  BY <1>7 DEF shelf_vars
<1> QED BY <1>1, <1>2, <1>3, <1>4, <1>5, <1>6, <1>7 DEF ShelfNext

(* A content stays readable for MAX_AGE after its file was written unless  *)
(* it is removed, and no time outlives its content, whichever channel's    *)
(* artifacts.py stores it, whenever a store dies between the file and its  *)
(* time, and whenever the clean-up runs.                                   *)
THEOREM ShelfKeeps == ShelfSpec => []ArtifactKept
<1>1. ShelfInv => ArtifactKept
  BY DEF ShelfInv, ShelfTypes, TimesHaveContents, GoneByAge, ArtifactKept
<1> QED BY <1>1, InitShelf, NextShelf, PTL DEF ShelfSpec
HIDE ShelfAssumption

-------------------------------------------------------------------------------
(***************************************************************************)
(* MailPoll: the poll of Gmail's history, for any mailbox, page size and   *)
(* restarts.                                                               *)
(*                                                                         *)
(* The batch under way is a stretch of the mailbox that begins where the   *)
(* settled messages end (BatchSound, SettledInOrder); what was answered is *)
(* noted, or lies before the history the process knows (AnswersNoted).     *)
(***************************************************************************)
(* The last message of the page, and the first that is still to be taken.  *)
PageEnd ==
  IF batch.upto <= last_history_id + MailPage THEN batch.upto ELSE last_history_id + MailPage
TakenUpto == PageEnd - Len(batch.left)

BatchSound ==
  /\ ~batch.open => batch.left = << >>
  /\ batch.open =>
       /\ last_history_id <= batch.upto /\ batch.upto <= Len(mailbox)
       /\ last_history_id <= TakenUpto
       /\ \A i \in 1..Len(batch.left) : batch.left[i] = TakenUpto + i

IsMail(id) == mailbox[id] = "in"
IsSent(id) == \E i \in 1..Len(mail_sent) : mail_sent[i] = id
SettledMail(id) == IsMail(id) => id \in mail_lost \/ IsSent(id)

(* What was begun, or taken from the batch, is settled; what was answered  *)
(* is noted, or the process starts after it.                               *)
SettledInOrder ==
  /\ \A id \in processed_ids : SettledMail(id)
  /\ \A id \in 1..last_history_id : SettledMail(id)
  /\ batch.open => \A id \in (last_history_id + 1)..TakenUpto : SettledMail(id)
AnswersNoted ==
  \A i \in 1..Len(mail_sent) :
    /\ mail_sent[i] \in 1..Len(mailbox) /\ IsMail(mail_sent[i])
    /\ mail_sent[i] \in processed_ids \/ mail_sent[i] <= last_history_id
AnsweredOnce == \A i, j \in 1..Len(mail_sent) : mail_sent[i] = mail_sent[j] => i = j

MailInv == MailTypes /\ BatchSound /\ SettledInOrder /\ AnswersNoted /\ AnsweredOnce
USE MailAssumption

(* What is settled stays so while the mailbox and the histories only grow. *)
LEMMA SettledKept ==
  ASSUME MailTypes, mail_lost \subseteq mail_lost',
         Len(mail_sent') \in Nat, Len(mail_sent) <= Len(mail_sent'),
         \A i \in 1..Len(mail_sent) : mail_sent'[i] = mail_sent[i],
         \A id \in 1..Len(mailbox) : mailbox'[id] = mailbox[id]
  PROVE  \A id \in 1..Len(mailbox) : SettledMail(id) => SettledMail(id)'
<1> SUFFICES ASSUME NEW id \in 1..Len(mailbox), SettledMail(id), IsMail(id)'
             PROVE  id \in mail_lost' \/ IsSent(id)'
  BY DEF SettledMail
<1>1. id \in mail_lost \/ IsSent(id)
  BY DEF SettledMail, IsMail
<1>2. CASE IsSent(id)
  <2>1. PICK i \in 1..Len(mail_sent) : mail_sent[i] = id
    BY <1>2 DEF IsSent
  <2>2. Len(mail_sent) \in Nat
    BY DEF MailTypes
  <2>3. i \in 1..Len(mail_sent')
    BY <2>2
  <2> QED BY <2>1, <2>3 DEF IsSent
<1> QED BY <1>1, <1>2

(* How far the loop has come, and how far the mailbox goes.                *)
LEMMA TakenSoFar ==
  ASSUME MailInv
  PROVE  /\ last_history_id \in Nat /\ Len(mailbox) \in Nat /\ last_history_id <= Len(mailbox)
         /\ PageEnd \in Nat /\ Len(batch.left) \in Nat /\ TakenUpto \in Int
         /\ TakenUpto + Len(batch.left) = PageEnd
         /\ batch.open => /\ PageEnd <= Len(mailbox) /\ TakenUpto <= Len(mailbox)
                          /\ PageEnd <= batch.upto /\ PageEnd <= last_history_id + MailPage
                          /\ last_history_id <= TakenUpto
<1>1. /\ last_history_id \in Nat /\ Len(mailbox) \in Nat /\ last_history_id <= Len(mailbox)
      /\ batch.upto \in Nat /\ Len(batch.left) \in Nat
  BY DEF MailInv, MailTypes
<1>2. PageEnd \in Nat /\ PageEnd <= batch.upto /\ PageEnd <= last_history_id + MailPage
  BY <1>1 DEF PageEnd
<1>3. TakenUpto \in Int /\ TakenUpto + Len(batch.left) = PageEnd
  BY <1>1, <1>2 DEF TakenUpto
<1> QED BY <1>1, <1>2, <1>3 DEF MailInv, BatchSound

LEMMA InitMails == MailInit => MailInv
<1> SUFFICES ASSUME MailInit PROVE MailInv
  OBVIOUS
<1> USE DEF MailInit, NoBatch
<1>1. \A S : << >> \in Seq(S)
  OBVIOUS
<1>2. Len(mailbox) = 0 /\ Len(mail_sent) = 0
  OBVIOUS
<1>3. MailTypes
  BY <1>1, <1>2 DEF MailTypes
<1>4. BatchSound /\ SettledInOrder /\ AnswersNoted /\ AnsweredOnce
  BY <1>2 DEF BatchSound, SettledInOrder, AnswersNoted, AnsweredOnce
<1> QED BY <1>3, <1>4 DEF MailInv

LEMMA MailArrivesKeeps == ASSUME MailInv, MailArrives PROVE MailInv'
<1>1. /\ mailbox' = Append(mailbox, "in")
      /\ UNCHANGED <<last_history_id, processed_ids, batch, mail_sent, mail_lost>>
  BY DEF MailArrives
<1>2. "in" \in MailKinds
  BY DEF MailKinds
<1>3. mailbox \in Seq(MailKinds) /\ last_history_id \in Nat
  BY DEF MailInv, MailTypes
<1>4. /\ mailbox' \in Seq(MailKinds) /\ Len(mailbox) \in Nat /\ Len(mailbox') = Len(mailbox) + 1
      /\ \A id \in 1..Len(mailbox) : mailbox'[id] = mailbox[id]
  BY <1>1, <1>2, <1>3, Appended
<1>5. MailTypes'
  BY <1>1, <1>4 DEF MailInv, MailTypes
<1>6. \A id \in 1..Len(mailbox) : SettledMail(id) => SettledMail(id)'
  <2>1. Len(mail_sent) \in Nat
    BY DEF MailInv, MailTypes
  <2> QED BY <1>1, <1>4, <2>1, SettledKept DEF MailInv
<1>7. UNCHANGED <<PageEnd, TakenUpto>>
  BY <1>1 DEF PageEnd, TakenUpto
<1>8. BatchSound'
  BY <1>1, <1>4, <1>7 DEF MailInv, BatchSound, MailTypes
<1>9. SettledInOrder'
  <2>1. processed_ids \subseteq 1..Len(mailbox) /\ last_history_id <= Len(mailbox) /\ SettledInOrder
    BY DEF MailInv, MailTypes
  <2>2. \A id \in processed_ids : SettledMail(id)'
    BY <1>6, <2>1 DEF SettledInOrder
  <2>3. \A id \in 1..last_history_id : SettledMail(id)'
    BY <1>3, <1>4, <1>6, <2>1 DEF SettledInOrder
  <2>4. ASSUME batch.open, NEW id \in (last_history_id + 1)..TakenUpto PROVE SettledMail(id)'
    <3>1. TakenUpto \in Int /\ TakenUpto <= Len(mailbox)
      BY <2>4, TakenSoFar
    <3>2. id \in 1..Len(mailbox)
      BY <1>3, <1>4, <2>4, <3>1
    <3> QED BY <1>6, <2>1, <2>4, <3>2 DEF SettledInOrder
  <2> QED BY <1>1, <1>7, <2>2, <2>3, <2>4 DEF SettledInOrder
<1>10. AnswersNoted' /\ AnsweredOnce'
  BY <1>1, <1>4 DEF MailInv, AnswersNoted, AnsweredOnce, IsMail
<1> QED BY <1>5, <1>8, <1>9, <1>10 DEF MailInv

(* The first page, as the positions it has.                                *)
LEMMA PageIs ==
  ASSUME MailTypes, NEW upto \in Nat, last_history_id <= upto
  PROVE  LET end == IF upto <= last_history_id + MailPage THEN upto
                    ELSE last_history_id + MailPage
         IN  FirstPage(upto) = (last_history_id + 1)..end
             /\ Cardinality(FirstPage(upto)) = end - last_history_id
<1> DEFINE end == IF upto <= last_history_id + MailPage THEN upto ELSE last_history_id + MailPage
<1>1. last_history_id \in Nat
  BY DEF MailTypes
<1>2. end \in Nat /\ last_history_id <= end /\ end <= upto
  BY <1>1
<1>3. FirstPage(upto) = (last_history_id + 1)..end
  BY <1>1 DEF FirstPage
<1> HIDE DEF end
<1>4. Cardinality((last_history_id + 1)..end) =
        IF last_history_id + 1 > end THEN 0 ELSE end - (last_history_id + 1) + 1
  BY <1>1, <1>2, FS_Interval
<1>5. Cardinality(FirstPage(upto)) = end - last_history_id
  BY <1>1, <1>2, <1>3, <1>4
<1> QED BY <1>3, <1>5 DEF end

LEMMA MailBeginsKeeps == ASSUME MailInv, MailPollBegins PROVE MailInv'
<1> DEFINE end == IF Len(mailbox) <= last_history_id + MailPage THEN Len(mailbox)
                  ELSE last_history_id + MailPage
<1>1. /\ last_history_id \in Nat /\ Len(mailbox) \in Nat /\ last_history_id <= Len(mailbox)
      /\ end \in Nat /\ last_history_id <= end
  BY TakenSoFar
<1>2. Cardinality(FirstPage(Len(mailbox))) = end - last_history_id
  BY <1>1, PageIs DEF MailInv
<1> DEFINE left == [i \in 1..(end - last_history_id) |-> last_history_id + i]
<1>3. /\ batch' = [open |-> TRUE, upto |-> Len(mailbox), left |-> left]
      /\ UNCHANGED <<mailbox, last_history_id, processed_ids, mail_sent, mail_lost>>
  BY <1>2 DEF MailPollBegins
<1>4. left \in Seq(Nat) /\ Len(left) = end - last_history_id
  BY <1>1
<1>5. \A i \in 1..Len(left) : left[i] = last_history_id + i
  BY <1>4
<1> HIDE DEF left
<1>6. MailTypes'
  BY <1>1, <1>3, <1>4 DEF MailInv, MailTypes
<1>7. PageEnd' = end
  BY <1>3 DEF PageEnd
<1> HIDE DEF end
<1>8. TakenUpto' = last_history_id
  BY <1>1, <1>3, <1>4, <1>7 DEF TakenUpto
<1>9. BatchSound'
  BY <1>1, <1>3, <1>5, <1>8 DEF BatchSound
<1>10. \A id : SettledMail(id)' = SettledMail(id)
  BY <1>3 DEF SettledMail, IsMail, IsSent
<1>11. SettledInOrder'
  BY <1>1, <1>3, <1>8, <1>10 DEF MailInv, SettledInOrder
<1>12. AnswersNoted' /\ AnsweredOnce'
  BY <1>3 DEF MailInv, AnswersNoted, AnsweredOnce, IsMail
<1> QED BY <1>6, <1>9, <1>11, <1>12 DEF MailInv

(* The loop moves to a later history, and knows of each mail it leaves.    *)
LEMMA AdvanceKeeps ==
  ASSUME MailInv, last_history_id' \in Nat, last_history_id <= last_history_id',
         last_history_id' <= Len(mailbox), batch' = NoBatch, mail_lost \subseteq mail_lost',
         \A id \in (last_history_id + 1)..last_history_id' : SettledMail(id) \/ id \in mail_lost',
         UNCHANGED <<mailbox, mail_sent>>,
         \/ processed_ids' = processed_ids
         \/ processed_ids' = {} /\ last_history_id' = Len(mailbox)
  PROVE  MailInv'
<1>1. /\ batch' = [open |-> FALSE, left |-> << >>, upto |-> 0] /\ << >> \in Seq(Nat)
      /\ Len(mailbox) \in Nat /\ last_history_id \in Nat
  BY TakenSoFar DEF NoBatch
<1>2. MailTypes'
  <2>1. batch' \in [open : BOOLEAN, left : Seq(Nat), upto : Nat]
    BY <1>1
  <2> QED BY <1>1, <2>1 DEF MailInv, MailTypes
<1>3. BatchSound'
  BY <1>1 DEF BatchSound
<1>4. \A id \in 1..Len(mailbox) : SettledMail(id) => SettledMail(id)'
  BY DEF SettledMail, IsMail, IsSent
<1>5. \A id \in 1..last_history_id' : SettledMail(id)'
  <2> SUFFICES ASSUME NEW id \in 1..last_history_id' PROVE SettledMail(id)'
    OBVIOUS
  <2>1. id \in 1..last_history_id \/ id \in (last_history_id + 1)..last_history_id'
    BY <1>1
  <2>2. id \in 1..Len(mailbox)
    BY <1>1
  <2>3. CASE id \in 1..last_history_id
    BY <1>4, <2>2, <2>3 DEF MailInv, SettledInOrder
  <2>4. CASE id \in (last_history_id + 1)..last_history_id'
    BY <1>4, <2>2, <2>4 DEF SettledMail
  <2> QED BY <2>1, <2>3, <2>4
<1>6. SettledInOrder'
  <2>1. \A id \in processed_ids : SettledMail(id)'
    BY <1>4 DEF MailInv, SettledInOrder, MailTypes
  <2> QED BY <1>1, <1>5, <2>1 DEF SettledInOrder
<1>7. AnswersNoted'
  <2> SUFFICES ASSUME NEW i \in 1..Len(mail_sent)
               PROVE  /\ mail_sent[i] \in 1..Len(mailbox) /\ IsMail(mail_sent[i])
                      /\ mail_sent[i] \in processed_ids' \/ mail_sent[i] <= last_history_id'
    BY DEF AnswersNoted, IsMail
  <2>1. /\ mail_sent[i] \in 1..Len(mailbox) /\ IsMail(mail_sent[i])
        /\ mail_sent[i] \in processed_ids \/ mail_sent[i] <= last_history_id
    BY DEF MailInv, AnswersNoted
  <2> QED BY <1>1, <2>1
<1>8. AnsweredOnce'
  BY DEF MailInv, AnsweredOnce
<1> QED BY <1>2, <1>3, <1>6, <1>7, <1>8 DEF MailInv

LEMMA PollEndsKeeps == ASSUME MailInv, MailPollEnds PROVE MailInv'
<1>1. /\ batch.open /\ batch.left = << >> /\ batch' = NoBatch
      /\ UNCHANGED <<mailbox, processed_ids, mail_sent>>
      /\ mail_lost' = mail_lost \union
           (((last_history_id + 1)..batch.upto) \ FirstPage(batch.upto))
  BY DEF MailPollEnds
<1>2. /\ last_history_id <= batch.upto /\ batch.upto <= Len(mailbox) /\ batch.upto \in Nat
      /\ last_history_id \in Nat
  BY <1>1 DEF MailInv, BatchSound, MailTypes
<1>3. last_history_id' = batch.upto
  BY <1>2 DEF MailPollEnds
<1>4. Len(batch.left) = 0
  BY <1>1
<1>5. TakenUpto = PageEnd
  BY <1>4, TakenSoFar
<1>6. FirstPage(batch.upto) = (last_history_id + 1)..PageEnd
  BY <1>2, PageIs DEF MailInv, PageEnd
<1>7. \A id \in (last_history_id + 1)..batch.upto : SettledMail(id) \/ id \in mail_lost'
  BY <1>1, <1>5, <1>6 DEF MailInv, SettledInOrder
<1>8. mail_lost \subseteq mail_lost' /\ UNCHANGED <<mailbox, mail_sent>>
      /\ processed_ids' = processed_ids
  BY <1>1
<1>9. batch' = NoBatch
  BY <1>1
<1>10. /\ last_history_id' \in Nat /\ last_history_id <= last_history_id'
       /\ last_history_id' <= Len(mailbox)
       /\ \A id \in (last_history_id + 1)..last_history_id' : SettledMail(id) \/ id \in mail_lost'
  BY <1>2, <1>3, <1>7
<1> QED BY <1>8, <1>9, <1>10, AdvanceKeeps

LEMMA MailRestartsKeeps == ASSUME MailInv, MailRestarts PROVE MailInv'
<1>1. Len(mailbox) \in Nat /\ last_history_id <= Len(mailbox) /\ Len(mailbox) <= Len(mailbox)
  BY TakenSoFar
<1>2. \A id \in (last_history_id + 1)..Len(mailbox) : id \in mail_lost'
  BY DEF MailRestarts
<1> QED BY <1>1, <1>2, AdvanceKeeps DEF MailRestarts

(* What a message comes to: it is answered, or it is settled without.      *)
LEMMA TakeMailCases ==
  ASSUME MailInv, NEW o, TakeMail(o), NEW id, id = Head(batch.left), id \in 1..Len(mailbox)
  PROVE  /\ UNCHANGED last_history_id /\ mail_lost \subseteq mail_lost'
         /\ batch' = NoBatch \/ batch' = [batch EXCEPT !.left = Tail(@)]
         /\ id \in processed_ids' /\ processed_ids \subseteq processed_ids'
         /\ \/ /\ id \notin processed_ids /\ IsMail(id)
               /\ mailbox' = Append(mailbox, "own") /\ mail_sent' = Append(mail_sent, id)
               /\ processed_ids' \subseteq processed_ids \union {id, Len(mailbox) + 1}
            \/ /\ UNCHANGED <<mailbox, mail_sent>>
               /\ processed_ids' = processed_ids \union {id}
               /\ id \in mail_lost' \/ SettledMail(id)
<1>1. mailbox[id] = "own" \/ mailbox[id] = "in"
  BY DEF MailInv, MailTypes, MailKinds
<1>2. /\ o \in MailOutcomes(id) /\ UNCHANGED last_history_id /\ mail_lost \subseteq mail_lost'
      /\ batch' = NoBatch \/ batch' = [batch EXCEPT !.left = Tail(@)]
  BY DEF TakeMail
<1>3. /\ id \in processed_ids' /\ processed_ids \subseteq processed_ids'
      /\ processed_ids' \subseteq processed_ids \union {id, Len(mailbox) + 1}
      /\ o # "answered" => processed_ids' = processed_ids \union {id}
  BY DEF TakeMail, Noted
<1>4. CASE o \in {"answered", "raised late"}
  <2>1. id \notin processed_ids /\ mailbox[id] # "own"
    BY <1>2, <1>4 DEF MailOutcomes
  <2>2. mailbox' = Append(mailbox, "own") /\ mail_sent' = Append(mail_sent, id)
    BY <1>4 DEF TakeMail
  <2> QED BY <1>1, <1>2, <1>3, <2>1, <2>2 DEF IsMail
<1>5. CASE o \notin {"answered", "raised late"}
  <2>1. UNCHANGED <<mailbox, mail_sent>>
    BY <1>5 DEF TakeMail
  <2>2. id \in mail_lost' \/ SettledMail(id)
    <3>1. o \in {"skipped", "unread", "own", "raised"}
      BY <1>2, <1>5 DEF MailOutcomes
    <3>2. CASE o = "skipped"
      <4>1. id \in processed_ids
        BY <1>2, <3>2 DEF MailOutcomes
      <4> QED BY <4>1 DEF MailInv, SettledInOrder
    <3>3. CASE o \in {"unread", "raised"}
      BY <3>3 DEF TakeMail
    <3>4. CASE o = "own"
      <4>1. mailbox[id] = "own"
        BY <1>2, <3>4 DEF MailOutcomes
      <4> QED BY <4>1 DEF SettledMail, IsMail
    <3> QED BY <3>1, <3>2, <3>3, <3>4
  <2> QED BY <1>2, <1>3, <1>5, <2>1, <2>2
<1> QED BY <1>4, <1>5

LEMMA TakeMailKeeps == ASSUME MailInv, NEW o, TakeMail(o) PROVE MailInv'
<1> DEFINE own == Len(mailbox) + 1
<1>0. PICK id : id = Head(batch.left)
  OBVIOUS
<1>1. batch.left # << >> /\ batch.left \in Seq(Nat) /\ batch.open
  BY DEF TakeMail, MailInv, MailTypes, BatchSound
<1>2. /\ Len(batch.left) \in Nat \ {0} /\ id = batch.left[1]
      /\ Tail(batch.left) \in Seq(Nat) /\ Len(Tail(batch.left)) = Len(batch.left) - 1
      /\ \A i \in 1..Len(Tail(batch.left)) : Tail(batch.left)[i] = batch.left[i + 1]
  BY <1>0, <1>1, Tailed
<1>3. /\ last_history_id \in Nat /\ Len(mailbox) \in Nat /\ last_history_id <= Len(mailbox)
      /\ PageEnd \in Nat /\ TakenUpto \in Int /\ TakenUpto + Len(batch.left) = PageEnd
      /\ PageEnd <= Len(mailbox) /\ last_history_id <= TakenUpto
  BY <1>1, TakenSoFar
<1>4. id = TakenUpto + 1 /\ id \in 1..Len(mailbox) /\ id > last_history_id
  <2>1. id = TakenUpto + 1
    BY <1>1, <1>2 DEF MailInv, BatchSound
  <2> QED BY <1>2, <1>3, <2>1
<1>5. /\ UNCHANGED last_history_id /\ mail_lost \subseteq mail_lost'
      /\ batch' = NoBatch \/ batch' = [batch EXCEPT !.left = Tail(@)]
      /\ id \in processed_ids' /\ processed_ids \subseteq processed_ids'
  BY <1>0, <1>4, TakeMailCases
<1>6. \/ /\ id \notin processed_ids /\ IsMail(id)
         /\ mailbox' = Append(mailbox, "own") /\ mail_sent' = Append(mail_sent, id)
         /\ processed_ids' \subseteq processed_ids \union {id, own}
      \/ /\ UNCHANGED <<mailbox, mail_sent>>
         /\ processed_ids' = processed_ids \union {id}
         /\ id \in mail_lost' \/ SettledMail(id)
  BY <1>0, <1>4, TakeMailCases
<1> HIDE DEF own
<1>7. /\ mailbox \in Seq(MailKinds) /\ mail_sent \in Seq(Nat) /\ Len(mail_sent) \in Nat
      /\ processed_ids \subseteq 1..Len(mailbox) /\ "own" \in MailKinds
  BY DEF MailInv, MailTypes, MailKinds
<1>8. /\ mailbox' \in Seq(MailKinds) /\ Len(mailbox') \in Nat /\ Len(mailbox) <= Len(mailbox')
      /\ mail_sent' \in Seq(Nat) /\ Len(mail_sent') \in Nat /\ Len(mail_sent) <= Len(mail_sent')
      /\ \A i \in 1..Len(mailbox) : mailbox'[i] = mailbox[i]
      /\ \A i \in 1..Len(mail_sent) : mail_sent'[i] = mail_sent[i]
      /\ processed_ids' \subseteq 1..Len(mailbox')
  <2>1. CASE UNCHANGED <<mailbox, mail_sent>> /\ processed_ids' = processed_ids \union {id}
    BY <1>3, <1>4, <1>7, <2>1
  <2>2. CASE /\ mailbox' = Append(mailbox, "own") /\ mail_sent' = Append(mail_sent, id)
             /\ processed_ids' \subseteq processed_ids \union {id, own}
    <3>1. /\ Append(mailbox, "own") \in Seq(MailKinds)
          /\ Len(Append(mailbox, "own")) = Len(mailbox) + 1
          /\ \A i \in 1..Len(mailbox) : Append(mailbox, "own")[i] = mailbox[i]
      BY <1>7, Appended
    <3>2. id \in Nat
      BY <1>4
    <3>3. /\ Append(mail_sent, id) \in Seq(Nat)
          /\ Len(Append(mail_sent, id)) = Len(mail_sent) + 1
          /\ \A i \in 1..Len(mail_sent) : Append(mail_sent, id)[i] = mail_sent[i]
      BY <1>7, <3>2, Appended
    <3>4. processed_ids' \subseteq 1..(Len(mailbox) + 1)
      BY <1>3, <1>4, <1>7, <2>2 DEF own
    <3> QED BY <1>3, <1>7, <2>2, <3>1, <3>3, <3>4
  <2> QED BY <1>6, <2>1, <2>2
<1>9. \A k \in 1..Len(mailbox) : SettledMail(k) => SettledMail(k)'
  BY <1>5, <1>8, SettledKept DEF MailInv
<1>10. mail_sent' = Append(mail_sent, id) =>
         /\ Len(mail_sent') = Len(mail_sent) + 1 /\ mail_sent'[Len(mail_sent) + 1] = id
  <2>1. id \in Nat
    BY <1>4
  <2> QED BY <1>7, <2>1, Appended
<1>11. SettledMail(id)'
  <2>1. CASE mail_sent' = Append(mail_sent, id)
    <3>1. Len(mail_sent) + 1 \in 1..Len(mail_sent') /\ mail_sent'[Len(mail_sent) + 1] = id
      BY <1>7, <1>10, <2>1
    <3> QED BY <3>1 DEF SettledMail, IsSent
  <2>2. CASE id \in mail_lost'
    BY <2>2 DEF SettledMail
  <2>3. CASE SettledMail(id)
    BY <1>4, <1>9, <2>3
  <2> QED BY <1>6, <2>1, <2>2, <2>3
<1>12. \A k \in processed_ids' : SettledMail(k)'
  <2> SUFFICES ASSUME NEW k \in processed_ids' PROVE SettledMail(k)'
    OBVIOUS
  <2>1. CASE k \in processed_ids
    BY <1>7, <1>9, <2>1 DEF MailInv, SettledInOrder
  <2>2. CASE k = own /\ mailbox' = Append(mailbox, "own")
    <3>1. mailbox'[own] = "own"
      BY <1>7, <2>2, Appended DEF own
    <3> QED BY <2>2, <3>1 DEF SettledMail, IsMail
  <2> QED BY <1>6, <1>11, <2>1, <2>2
<1>13. batch' \in [open : BOOLEAN, left : Seq(Nat), upto : Nat]
  <2>1. << >> \in Seq(Nat)
    OBVIOUS
  <2>2. batch \in [open : BOOLEAN, left : Seq(Nat), upto : Nat]
    BY DEF MailInv, MailTypes
  <2>3. CASE batch' = NoBatch
    BY <2>1, <2>3 DEF NoBatch
  <2>4. CASE batch' = [batch EXCEPT !.left = Tail(batch.left)]
    BY <1>2, <2>2, <2>4
  <2> QED BY <1>5, <2>3, <2>4
<1>14. MailTypes'
  BY <1>3, <1>5, <1>8, <1>13 DEF MailTypes
<1>15. BatchSound' /\ (batch'.open => TakenUpto' = TakenUpto + 1)
  <2>1. CASE batch' = NoBatch
    BY <2>1 DEF NoBatch, BatchSound
  <2>2. CASE batch' = [batch EXCEPT !.left = Tail(@)]
    <3>1. /\ batch'.open = batch.open /\ batch'.upto = batch.upto
          /\ batch'.left = Tail(batch.left)
      BY <2>2 DEF MailInv, MailTypes
    <3>2. PageEnd' = PageEnd
      BY <1>5, <3>1 DEF PageEnd
    <3>3. TakenUpto' = TakenUpto + 1
      <4>1. Len(batch'.left) = Len(batch.left) - 1
        BY <1>2, <3>1
      <4> QED BY <1>2, <1>3, <3>2, <4>1 DEF TakenUpto
    <3>4. /\ last_history_id <= batch.upto /\ batch.upto <= Len(mailbox)
          /\ \A i \in 1..Len(batch.left) : batch.left[i] = TakenUpto + i
          /\ batch.upto \in Nat
      BY <1>1 DEF MailInv, BatchSound, MailTypes
    <3>5. \A i \in 1..Len(batch'.left) : batch'.left[i] = TakenUpto' + i
      <4> SUFFICES ASSUME NEW i \in 1..Len(Tail(batch.left))
                   PROVE  Tail(batch.left)[i] = TakenUpto + 1 + i
        BY <3>1, <3>3
      <4>1. i + 1 \in 1..Len(batch.left)
        BY <1>2
      <4> QED BY <1>2, <1>3, <3>4, <4>1
    <3>6. last_history_id' <= batch'.upto /\ batch'.upto <= Len(mailbox')
          /\ last_history_id' <= TakenUpto' /\ batch'.open
      BY <1>1, <1>3, <1>5, <1>8, <3>1, <3>3, <3>4
    <3> QED BY <3>3, <3>5, <3>6 DEF BatchSound
  <2> QED BY <1>5, <2>1, <2>2
<1>16. SettledInOrder'
  <2>1. \A k \in 1..last_history_id' : SettledMail(k)'
    BY <1>3, <1>5, <1>9 DEF MailInv, SettledInOrder
  <2>2. ASSUME batch'.open, NEW k \in (last_history_id' + 1)..TakenUpto' PROVE SettledMail(k)'
    <3>1. k = id \/ k \in (last_history_id + 1)..TakenUpto
      BY <1>3, <1>4, <1>5, <1>15, <2>2
    <3>2. CASE k \in (last_history_id + 1)..TakenUpto
      <4>1. k \in 1..Len(mailbox) /\ SettledMail(k)
        BY <1>1, <1>2, <1>3, <3>2 DEF MailInv, SettledInOrder
      <4> QED BY <1>9, <4>1
    <3> QED BY <1>11, <3>1, <3>2
  <2> QED BY <1>12, <2>1, <2>2 DEF SettledInOrder
<1>17. \A i \in 1..Len(mail_sent) :
         mail_sent[i] \in 1..Len(mailbox) /\ IsMail(mail_sent[i])
         /\ (mail_sent[i] \in processed_ids \/ mail_sent[i] <= last_history_id)
  BY DEF MailInv, AnswersNoted
<1>18. AnswersNoted'
  <2> SUFFICES ASSUME NEW i \in 1..Len(mail_sent')
               PROVE  /\ mail_sent'[i] \in 1..Len(mailbox') /\ mailbox'[mail_sent'[i]] = "in"
                      /\ mail_sent'[i] \in processed_ids' \/ mail_sent'[i] <= last_history_id'
    BY DEF AnswersNoted, IsMail
  <2>1. CASE i \in 1..Len(mail_sent)
    <3>1. mail_sent'[i] \in 1..Len(mailbox) /\ mailbox[mail_sent'[i]] = "in"
      BY <1>8, <1>17, <2>1 DEF IsMail
    <3>2. mail_sent'[i] \in processed_ids' \/ mail_sent'[i] <= last_history_id'
      BY <1>5, <1>8, <1>17, <2>1
    <3>3. mail_sent'[i] \in 1..Len(mailbox')
      BY <1>3, <1>8, <3>1
    <3>4. mailbox'[mail_sent'[i]] = "in"
      BY <1>8, <3>1
    <3> QED BY <3>2, <3>3, <3>4
  <2>2. CASE mail_sent' = Append(mail_sent, id) /\ i = Len(mail_sent) + 1
    <3>1. mail_sent'[i] = id /\ mailbox[id] = "in"
      BY <1>4, <1>6, <1>7, <1>10, <2>2 DEF IsMail
    <3> QED BY <1>3, <1>4, <1>5, <1>8, <3>1
  <2>3. i \in 1..Len(mail_sent) \/ (mail_sent' = Append(mail_sent, id) /\ i = Len(mail_sent) + 1)
    BY <1>6, <1>7, <1>10
  <2> QED BY <2>1, <2>2, <2>3
<1>19. AnsweredOnce'
  <2>1. CASE UNCHANGED mail_sent
    BY <2>1 DEF MailInv, AnsweredOnce
  <2>2. CASE id \notin processed_ids /\ mail_sent' = Append(mail_sent, id)
    <3>1. \A i \in 1..Len(mail_sent) : mail_sent[i] # id
      BY <1>3, <1>4, <1>17, <2>2
    <3>2. \A i \in 1..Len(mail_sent') : i \in 1..Len(mail_sent) \/ i = Len(mail_sent) + 1
      BY <1>10, <2>2
    <3>3. mail_sent'[Len(mail_sent) + 1] = id
      BY <1>7, <1>10, <2>2
    <3>4. \A i \in 1..Len(mail_sent) : mail_sent'[i] = mail_sent[i]
      BY <1>8
    <3>5. AnsweredOnce
      BY DEF MailInv
    <3> QED BY <3>1, <3>2, <3>3, <3>4, <3>5 DEF AnsweredOnce
  <2> QED BY <1>6, <2>1, <2>2
<1> QED BY <1>14, <1>15, <1>16, <1>18, <1>19 DEF MailInv

LEMMA NextMails == MailInv /\ [MailNext]_mail_vars => MailInv'
<1> SUFFICES ASSUME MailInv, [MailNext]_mail_vars PROVE MailInv'
  OBVIOUS
<1>1. CASE UNCHANGED mail_vars
  BY <1>1 DEF mail_vars, MailInv, MailTypes, BatchSound, PageEnd, TakenUpto, SettledInOrder, SettledMail,
     IsMail, IsSent, AnswersNoted, AnsweredOnce
<1> QED BY <1>1, MailArrivesKeeps, MailBeginsKeeps, PollEndsKeeps, MailRestartsKeeps, TakeMailKeeps DEF MailNext

(* No mail is answered twice, no answer is answered, and a mail that the   *)
(* poll of gmail/server.py has left behind was answered or is one that it  *)
(* lost in a way MailPoll names; through pages, failing messages, cut      *)
(* polls and restarts.                                                     *)
THEOREM MailsAreAnsweredOnce == MailSpec => []MailOnceOrLost
<1>1. MailInv => MailOnceOrLost
  BY DEF MailInv, SettledInOrder, SettledMail, IsSent, IsMail, AnswersNoted, AnsweredOnce, MailOnceOrLost
<1> QED BY <1>1, InitMails, NextMails, PTL DEF MailSpec

(* What is lost was noted as begun, or lies before the history the process *)
(* knows.                                                                  *)
LostNoted ==
  \A id \in mail_lost :
    id \in 1..Len(mailbox) /\ (id \in processed_ids \/ id <= last_history_id)

(* A message is answered only if nothing says that it was dealt with.      *)
LEMMA TakenMail ==
  ASSUME MailInv, LostNoted, NEW o, TakeMail(o), NEW id, id = Head(batch.left)
  PROVE  /\ id \in 1..Len(mailbox) /\ id \in processed_ids'
         /\ processed_ids \subseteq processed_ids' /\ UNCHANGED last_history_id
         /\ mail_lost' \subseteq mail_lost \union {id} /\ mail_lost \subseteq mail_lost'
         /\ \/ UNCHANGED <<mailbox, mail_sent>>
            \/ /\ mailbox' = Append(mailbox, "own") /\ mail_sent' = Append(mail_sent, id)
               /\ mailbox[id] = "in" /\ ~IsSent(id) /\ id \notin mail_lost /\ mail_lost' = mail_lost
<1>1. batch.left # << >> /\ batch.left \in Seq(Nat) /\ batch.open
  BY DEF TakeMail, MailInv, MailTypes, BatchSound
<1>2. Len(batch.left) \in Nat \ {0} /\ id = batch.left[1]
  BY <1>1, Tailed
<1>3. /\ last_history_id \in Nat /\ Len(mailbox) \in Nat /\ last_history_id <= Len(mailbox)
      /\ PageEnd \in Nat /\ TakenUpto \in Int /\ TakenUpto + Len(batch.left) = PageEnd
      /\ PageEnd <= Len(mailbox) /\ last_history_id <= TakenUpto
  BY <1>1, TakenSoFar
<1>4. id \in 1..Len(mailbox) /\ id > last_history_id
  <2>1. id = TakenUpto + 1
    BY <1>1, <1>2 DEF MailInv, BatchSound
  <2> QED BY <1>2, <1>3, <2>1
<1>5. /\ UNCHANGED last_history_id /\ mail_lost \subseteq mail_lost'
      /\ id \in processed_ids' /\ processed_ids \subseteq processed_ids'
  BY <1>4, TakeMailCases
<1>6. mail_lost' \subseteq mail_lost \union {id}
  BY DEF TakeMail
<1>7. CASE o \in {"answered", "raised late"}
  <2>1. mailbox' = Append(mailbox, "own") /\ mail_sent' = Append(mail_sent, id) /\ mail_lost' = mail_lost
    BY <1>7 DEF TakeMail
  <2>2. id \notin processed_ids /\ mailbox[id] # "own"
    BY <1>7 DEF TakeMail, MailOutcomes
  <2>3. mailbox[id] = "in"
    BY <1>4, <2>2 DEF MailInv, MailTypes, MailKinds
  <2>4. ~ (id <= last_history_id)
    BY <1>3, <1>4
  <2>5. ~IsSent(id) /\ id \notin mail_lost
    BY <2>2, <2>4 DEF MailInv, AnswersNoted, IsSent, LostNoted
  <2> QED BY <1>4, <1>5, <1>6, <2>1, <2>3, <2>5
<1>8. CASE o \notin {"answered", "raised late"}
  <2>1. UNCHANGED <<mailbox, mail_sent>>
    BY <1>8 DEF TakeMail
  <2> QED BY <1>4, <1>5, <1>6, <2>1
<1> QED BY <1>7, <1>8

LEMMA NextLost == MailInv /\ LostNoted /\ [MailNext]_mail_vars => LostNoted'
<1> SUFFICES ASSUME MailInv, LostNoted, [MailNext]_mail_vars PROVE LostNoted'
  OBVIOUS
<1>1. Len(mailbox) \in Nat /\ last_history_id \in Nat /\ last_history_id <= Len(mailbox)
  BY TakenSoFar
<1>2. CASE UNCHANGED mail_vars
  BY <1>2 DEF mail_vars, LostNoted
<1>3. CASE MailArrives
  <2>1. Len(mailbox') = Len(mailbox) + 1
    BY <1>3 DEF MailArrives, MailInv, MailTypes
  <2> QED BY <1>1, <1>3, <2>1 DEF MailArrives, LostNoted
<1>4. CASE MailPollBegins
  BY <1>4 DEF MailPollBegins, LostNoted
<1>5. CASE MailPollEnds
  <2>1. batch.upto \in Nat /\ last_history_id <= batch.upto /\ batch.upto <= Len(mailbox)
    BY <1>5 DEF MailPollEnds, MailInv, BatchSound, MailTypes
  <2>2. /\ last_history_id' = batch.upto /\ UNCHANGED <<mailbox, processed_ids>>
        /\ mail_lost' \subseteq mail_lost \union ((last_history_id + 1)..batch.upto)
    BY <1>1, <1>5, <2>1 DEF MailPollEnds
  <2>3. \A id \in (last_history_id + 1)..batch.upto : id \in 1..Len(mailbox) /\ id <= last_history_id'
    BY <1>1, <2>1, <2>2
  <2>4. \A id \in 1..Len(mailbox) : id <= last_history_id => id <= last_history_id'
    BY <1>1, <2>1, <2>2
  <2> QED BY <2>2, <2>3, <2>4 DEF LostNoted
<1>6. CASE MailRestarts
  <2>1. /\ last_history_id' = Len(mailbox) /\ UNCHANGED mailbox
        /\ mail_lost' = mail_lost \union ((last_history_id + 1)..Len(mailbox))
    BY <1>6 DEF MailRestarts
  <2>2. \A id \in (last_history_id + 1)..Len(mailbox) : id \in 1..Len(mailbox)
    BY <1>1
  <2>3. \A id \in 1..Len(mailbox) : id <= last_history_id'
    BY <2>1
  <2> QED BY <2>1, <2>2, <2>3 DEF LostNoted
<1>7. ASSUME NEW o, TakeMail(o) PROVE LostNoted'
  <2>1. PICK id : id = Head(batch.left)
    OBVIOUS
  <2>2. /\ id \in 1..Len(mailbox) /\ id \in processed_ids'
        /\ processed_ids \subseteq processed_ids' /\ last_history_id' = last_history_id
        /\ mail_lost' \subseteq mail_lost \union {id}
        /\ UNCHANGED mailbox \/ mailbox' = Append(mailbox, "own")
    BY <1>7, <2>1, TakenMail
  <2>3. Len(mailbox') \in Nat /\ Len(mailbox) <= Len(mailbox')
    <3>1. mailbox \in Seq(MailKinds) /\ "own" \in MailKinds
      BY DEF MailInv, MailTypes, MailKinds
    <3>2. Len(Append(mailbox, "own")) = Len(mailbox) + 1
      BY <3>1, Appended
    <3> QED BY <1>1, <2>2, <3>2
  <2> QED BY <1>1, <2>2, <2>3 DEF LostNoted
<1> QED BY <1>2, <1>3, <1>4, <1>5, <1>6, <1>7 DEF MailNext

MailItems == 1..(2 * MaxMails)

(* The three views of a mail that AtMostOnce has, item by item.            *)
LEMMA MailAskedOnce ==
  ASSUME NEW i \in MailItems, MailAsks(i)' = MailAsks(i) + 1,
         \A k \in MailItems : k # i => MailAsks(k)' = MailAsks(k),
         \A k \in MailItems : Answers(k)' = Answers(k) /\ MailLets(k)' = MailLets(k)
  PROVE  MailOnce!Next
<1>1. \A k \in MailItems : /\ MailAsks(k) \in Nat /\ MailAsks(k)' \in Nat
                           /\ MailAsks(k) <= MailAsks(k)'
  BY DEF MailAsks
<1> QED BY <1>1 DEF MailItems, MailOnce!Next, MailOnce!Ask

LEMMA MailHandedOn ==
  ASSUME NEW i \in MailItems,
         Cardinality(Answers(i)) + MailLets(i) < MailAsks(i),
         Cardinality(Answers(i)') = Cardinality(Answers(i)) + 1,
         \A k \in MailItems : k # i => Answers(k)' = Answers(k),
         \A k \in MailItems : MailAsks(k)' = MailAsks(k) /\ MailLets(k)' = MailLets(k)
  PROVE  MailOnce!Next
BY DEF MailItems, MailOnce!Next, MailOnce!Hand, MailOnce!Waits

LEMMA MailsLost ==
  ASSUME NEW S \in SUBSET MailItems,
         \A k \in S : Cardinality(Answers(k)) + MailLets(k) < MailAsks(k),
         \A k \in MailItems : MailLets(k)' = IF k \in S THEN MailLets(k) + 1 ELSE MailLets(k),
         \A k \in MailItems : MailAsks(k)' = MailAsks(k) /\ Answers(k)' = Answers(k)
  PROVE  MailOnce!Next
BY DEF MailItems, MailOnce!Next, MailOnce!LetGo, MailOnce!Waits

LEMMA AnsweredAtMostOnce ==
  ASSUME MailInv, NEW id
  PROVE  /\ Answers(id) = {} <=> ~IsSent(id)
         /\ Cardinality(Answers(id)) = IF IsSent(id) THEN 1 ELSE 0
<1>1. Answers(id) = {} <=> ~IsSent(id)
  BY DEF Answers, IsSent
<1>2. CASE IsSent(id)
  <2>1. PICK i \in 1..Len(mail_sent) : mail_sent[i] = id
    BY <1>2 DEF IsSent
  <2>2. Answers(id) = {i}
    BY <2>1 DEF Answers, MailInv, AnsweredOnce
  <2> QED BY <1>1, <1>2, <2>2, FS_Singleton
<1>3. CASE ~IsSent(id)
  BY <1>1, <1>3, FS_EmptySet
<1> QED BY <1>1, <1>2, <1>3

(* A mail comes: it asks, once.                                            *)
LEMMA ArrivesOnce ==
  ASSUME MailInv, LostNoted, MailArrives
  PROVE  \/ MailOnce!Next
         \/ \A k \in MailItems : /\ MailAsks(k)' = MailAsks(k) /\ MailLets(k)' = MailLets(k)
                                 /\ Answers(k)' = Answers(k)
<1>0. PICK new : new = Len(mailbox) + 1
  OBVIOUS
<1>1. /\ mailbox' = Append(mailbox, "in") /\ UNCHANGED <<mail_sent, mail_lost>>
      /\ mailbox \in Seq(MailKinds) /\ "in" \in MailKinds /\ Len(mailbox) \in Nat
  BY DEF MailArrives, MailInv, MailTypes, MailKinds
<1>2. /\ Len(mailbox') = new /\ mailbox'[new] = "in" /\ new \in Nat
      /\ \A i \in 1..Len(mailbox) : mailbox'[i] = mailbox[i]
  BY <1>0, <1>1, Appended
<1>3. \A k : Answers(k)' = Answers(k)
  BY <1>1 DEF Answers
<1>4. ~Came(new) /\ Came(new)' /\ new \notin mail_lost
  <2>1. ~ (new <= Len(mailbox)) /\ new <= new /\ new \notin 1..Len(mailbox)
    BY <1>0, <1>1
  <2>2. new \notin mail_lost
    BY <2>1 DEF LostNoted
  <2> QED BY <1>2, <2>1, <2>2 DEF Came
<1>5. \A k \in MailItems : k # new => Came(k)' = Came(k)
  <2> SUFFICES ASSUME NEW k \in MailItems, k # new PROVE Came(k)' = Came(k)
    OBVIOUS
  <2>1. k \in Nat /\ k >= 1
    BY MailAssumption DEF MailItems
  <2>2. CASE k <= Len(mailbox)
    BY <1>0, <1>1, <1>2, <2>1, <2>2 DEF Came
  <2>3. CASE ~ (k <= Len(mailbox))
    <3>1. ~ (k <= new)
      BY <1>0, <1>1, <2>1, <2>3
    <3> QED BY <1>2, <2>3, <3>1 DEF Came
  <2> QED BY <2>2, <2>3
<1>6. \A k \in MailItems : k # new => MailAsks(k)' = MailAsks(k)
  BY <1>5 DEF MailAsks
<1>7. \A k \in MailItems : MailLets(k)' = MailLets(k)
  BY <1>1, <1>3, <1>4, <1>5 DEF MailLets
<1>8. MailAsks(new)' = MailAsks(new) + 1
  BY <1>4 DEF MailAsks
<1>9. CASE new \in MailItems
  <2>1. \A k \in MailItems : Answers(k)' = Answers(k) /\ MailLets(k)' = MailLets(k)
    BY <1>3, <1>7
  <2> QED BY <1>6, <1>8, <1>9, <2>1, MailAskedOnce
<1>10. CASE new \notin MailItems
  BY <1>3, <1>6, <1>7, <1>10
<1> QED BY <1>9, <1>10

(* A mail is answered: it was one that waits.                              *)
LEMMA AnswersOnce ==
  ASSUME MailInv, NEW id \in 1..Len(mailbox), mailbox' = Append(mailbox, "own"),
         mail_sent' = Append(mail_sent, id), mailbox[id] = "in", ~IsSent(id),
         id \notin mail_lost, mail_lost' = mail_lost
  PROVE  \/ MailOnce!Next
         \/ \A k \in MailItems : /\ MailAsks(k)' = MailAsks(k) /\ MailLets(k)' = MailLets(k)
                                 /\ Answers(k)' = Answers(k)
<1> DEFINE own == Len(mailbox) + 1
           last == Len(mail_sent) + 1
<1>1. /\ mailbox \in Seq(MailKinds) /\ "own" \in MailKinds /\ Len(mailbox) \in Nat
      /\ mail_sent \in Seq(Nat) /\ Len(mail_sent) \in Nat /\ id \in Nat
  BY DEF MailInv, MailTypes, MailKinds
<1>2. /\ Len(mailbox') = own /\ mailbox'[own] = "own" /\ own \in Nat
      /\ \A i \in 1..Len(mailbox) : mailbox'[i] = mailbox[i]
  BY <1>1, Appended
<1>3. /\ Len(mail_sent') = last /\ mail_sent'[last] = id
      /\ \A i \in 1..Len(mail_sent) : mail_sent'[i] = mail_sent[i]
      /\ 1..last = 1..Len(mail_sent) \union {last}
  BY <1>1, Appended
<1> HIDE DEF own, last
<1>4. \A k : k # id => Answers(k)' = Answers(k)
  BY <1>3 DEF Answers
<1>5. Answers(id) = {}
  BY AnsweredAtMostOnce
<1>6. Answers(id)' = {last}
  BY <1>3, <1>5 DEF Answers
<1>7. \A k \in MailItems : Came(k)' = Came(k)
  <2> SUFFICES ASSUME NEW k \in MailItems PROVE Came(k)' = Came(k)
    OBVIOUS
  <2>1. k \in Nat /\ k >= 1
    BY MailAssumption DEF MailItems
  <2>2. CASE k <= Len(mailbox)
    <3>1. k <= own
      BY <1>1, <2>1, <2>2 DEF own
    <3> QED BY <1>1, <1>2, <2>1, <2>2, <3>1 DEF Came
  <2>3. CASE ~ (k <= Len(mailbox))
    <3>1. k <= own => k = own
      BY <1>1, <2>1, <2>3 DEF own
    <3>2. ~Came(k)'
      BY <1>2, <3>1 DEF Came
    <3> QED BY <2>3, <3>2 DEF Came
  <2> QED BY <2>2, <2>3
<1>8. Came(id)
  BY <1>1 DEF Came
<1>9. \A k \in MailItems : MailAsks(k)' = MailAsks(k)
  BY <1>7 DEF MailAsks
<1>10. \A k \in MailItems : MailLets(k)' = MailLets(k)
  BY <1>4, <1>7 DEF MailLets
<1>11. Cardinality(Answers(id)) + MailLets(id) < MailAsks(id)
  <2>1. Cardinality(Answers(id)) = 0
    BY <1>5, FS_EmptySet
  <2>2. MailLets(id) = 0 /\ MailAsks(id) = 1
    BY <1>8 DEF MailLets, MailAsks
  <2> QED BY <2>1, <2>2
<1>12. Cardinality(Answers(id)') = Cardinality(Answers(id)) + 1
  <2>1. Cardinality({last}) = 1 /\ Cardinality({}) = 0
    BY FS_Singleton, FS_EmptySet
  <2> QED BY <1>5, <1>6, <2>1
<1>13. CASE id \in MailItems
  <2>1. \A k \in MailItems : k # id => Answers(k)' = Answers(k)
    BY <1>4
  <2> QED BY <1>9, <1>10, <1>11, <1>12, <1>13, <2>1, MailHandedOn
<1>14. CASE id \notin MailItems
  BY <1>4, <1>9, <1>10, <1>14
<1> QED BY <1>13, <1>14

(* Mails are lost: those that were answered before are not.                *)
LEMMA LosesOnce ==
  ASSUME MailInv, UNCHANGED <<mailbox, mail_sent>>, mail_lost \subseteq mail_lost'
  PROVE  MailOnce!Next
<1> DEFINE S == {k \in MailItems : Came(k) /\ k \in mail_lost' \ mail_lost /\ Answers(k) = {}}
<1>1. \A k : Came(k)' = Came(k) /\ Answers(k)' = Answers(k)
  BY DEF Came, Answers
<1>2. \A k \in S : Cardinality(Answers(k)) + MailLets(k) < MailAsks(k)
  <2> SUFFICES ASSUME NEW k \in S PROVE Cardinality(Answers(k)) + MailLets(k) < MailAsks(k)
    OBVIOUS
  <2>1. Cardinality(Answers(k)) = 0
    BY FS_EmptySet
  <2>2. MailLets(k) = 0 /\ MailAsks(k) = 1
    BY DEF MailLets, MailAsks
  <2> QED BY <2>1, <2>2
<1>3. \A k \in MailItems : MailLets(k)' = IF k \in S THEN MailLets(k) + 1 ELSE MailLets(k)
  <2> SUFFICES ASSUME NEW k \in MailItems
               PROVE  MailLets(k)' = IF k \in S THEN MailLets(k) + 1 ELSE MailLets(k)
    OBVIOUS
  <2> QED BY <1>1 DEF MailLets
<1>4. \A k \in MailItems : MailAsks(k)' = MailAsks(k) /\ Answers(k)' = Answers(k)
  BY <1>1 DEF MailAsks
<1>5. S \in SUBSET MailItems
  OBVIOUS
<1> HIDE DEF S
<1> QED BY <1>2, <1>3, <1>4, <1>5, MailsLost

(* The poll answers, or loses, only mails that wait: at most once each,    *)
(* over failing messages, cut polls, pages and new processes.              *)
THEOREM MailIsAtMostOnce == MailSpec => MailImplementsAtMostOnce
<1> DEFINE Still == \A k \in MailItems : /\ MailAsks(k)' = MailAsks(k) /\ MailLets(k)' = MailLets(k)
                                         /\ Answers(k)' = Answers(k)
           views == <<[id \in 1..(2 * MaxMails) |-> MailAsks(id)],
                      [id \in 1..(2 * MaxMails) |-> Cardinality(Answers(id))],
                      [id \in 1..(2 * MaxMails) |-> MailLets(id)]>>
<1>1. MailInit => MailOnce!Init
  <2> SUFFICES ASSUME MailInit PROVE MailOnce!Init
    OBVIOUS
  <2>1. Len(mailbox) = 0 /\ Len(mail_sent) = 0
    BY DEF MailInit
  <2>2. \A k \in MailItems : ~Came(k) /\ Answers(k) = {}
    BY <2>1, MailAssumption DEF MailItems, Came, Answers
  <2>3. \A k \in MailItems : MailAsks(k) = 0 /\ MailLets(k) = 0 /\ Cardinality(Answers(k)) = 0
    BY <2>2, FS_EmptySet DEF MailAsks, MailLets
  <2> QED BY <2>3 DEF MailItems, MailOnce!Init
<1>2. MailInit => LostNoted
  BY DEF MailInit, LostNoted
<1>3. Still => UNCHANGED views
  BY DEF MailItems
<1>4. ASSUME MailInv, LostNoted, [MailNext]_mail_vars PROVE MailOnce!Next \/ Still
  <2>1. CASE UNCHANGED mail_vars
    BY <2>1 DEF mail_vars, MailAsks, MailLets, Answers, Came
  <2>2. CASE MailArrives
    BY <1>4, <2>2, ArrivesOnce
  <2>3. ASSUME NEW o, TakeMail(o) PROVE MailOnce!Next \/ Still
    <3>1. PICK id : id = Head(batch.left)
      OBVIOUS
    <3>2. /\ id \in 1..Len(mailbox) /\ mail_lost \subseteq mail_lost'
          /\ \/ UNCHANGED <<mailbox, mail_sent>>
             \/ /\ mailbox' = Append(mailbox, "own") /\ mail_sent' = Append(mail_sent, id)
                /\ mailbox[id] = "in" /\ ~IsSent(id) /\ id \notin mail_lost
                /\ mail_lost' = mail_lost
      BY <1>4, <2>3, <3>1, TakenMail
    <3>3. CASE UNCHANGED <<mailbox, mail_sent>>
      BY <1>4, <3>2, <3>3, LosesOnce
    <3>4. CASE ~UNCHANGED <<mailbox, mail_sent>>
      BY <1>4, <3>2, <3>4, AnswersOnce
    <3> QED BY <3>3, <3>4
  <2>4. CASE MailPollBegins \/ MailPollEnds \/ MailRestarts
    <3>1. UNCHANGED <<mailbox, mail_sent>> /\ mail_lost \subseteq mail_lost'
      BY <2>4 DEF MailPollBegins, MailPollEnds, MailRestarts
    <3> QED BY <1>4, <3>1, LosesOnce
  <2> QED BY <1>4, <2>1, <2>2, <2>3, <2>4 DEF MailNext
<1>5. MailInv /\ LostNoted /\ [MailNext]_mail_vars => [MailOnce!Next]_views
  BY <1>3, <1>4
<1> HIDE DEF Still
<1> QED BY <1>1, <1>2, <1>5, InitMails, NextMails, NextLost, PTL
        DEF MailSpec, MailImplementsAtMostOnce, MailOnce!Spec

(* gmail/server.py's poll: each mail is answered at most once and is not   *)
(* forgotten, in each state; and no step takes an answer or a loss back.   *)
THEOREM PollKeepsPromise == MailSpec => MailPromiseKept
<1>1. MailInv => MailTypes
  BY DEF MailInv
<1> QED BY <1>1, InitMails, NextMails, MailsAreAnsweredOnce, MailIsAtMostOnce, PTL
        DEF MailSpec, MailPromiseKept
HIDE MailAssumption

-------------------------------------------------------------------------------
(***************************************************************************)
(* ImapSession: the IMAP loop, for any mails.                              *)
(*                                                                         *)
(* The list under way has each mail once and none that is still to be      *)
(* fetched, which nobody but this loop marks as seen (ListSound); so a     *)
(* mail that is handed over leaves the unseen or the list, and is counted  *)
(* once.                                                                   *)
(***************************************************************************)
(* The list under way has each mail once, and none of those still to be    *)
(* fetched, which nobody but this loop marks as seen.                      *)
ListSound ==
  /\ session.unfetched \subseteq unseen
  /\ \A i, j \in 1..Len(session.fetched) :
       session.fetched[i] = session.fetched[j] => i = j
  /\ \A i \in 1..Len(session.fetched) : session.fetched[i] \notin session.unfetched

ListFits ==
  /\ session.step \in {"closed", "open"} => session.fetched = << >>
  /\ session.step \in {"process", "hand over", "mark"} => session.fetched # << >>
  /\ session.step # "fetch" => session.unfetched = {}
  /\ session.step = "hand over" => Head(session.fetched) \in tracked

ImapInv == ImapTypes /\ ListSound /\ ListFits /\ MailHandedOnce
USE ImapAssumption

LEMMA EmptyList == << >> \in Seq(Mails)
OBVIOUS

(* The mails of a list, and those after its first.                         *)
Listed(list) == {list[i] : i \in 1..Len(list)}
ListedAfter(list) == {list[i] : i \in 2..Len(list)}

LEMMA UnderWayIs ==
  UnderWay = IF session.step = "mark" THEN ListedAfter(session.fetched) ELSE Listed(session.fetched)
BY DEF UnderWay, Listed, ListedAfter

LEMMA UnderWayNext ==
  UnderWay' = IF session'.step = "mark" THEN ListedAfter(session'.fetched)
              ELSE Listed(session'.fetched)
BY DEF UnderWay, Listed, ListedAfter

LEMMA ListTail ==
  ASSUME NEW list \in Seq(Mails), list # << >>,
         \A i, j \in 1..Len(list) : list[i] = list[j] => i = j
  PROVE  /\ Head(list) \in Mails /\ Tail(list) \in Seq(Mails)
         /\ Listed(Tail(list)) = ListedAfter(list)
         /\ Head(list) \in Listed(list) /\ ListedAfter(list) = Listed(list) \ {Head(list)}
         /\ \A i, j \in 1..Len(Tail(list)) : Tail(list)[i] = Tail(list)[j] => i = j
<1>1. /\ Len(list) \in Nat \ {0} /\ Head(list) = list[1]
      /\ Tail(list) \in Seq(Mails) /\ Len(Tail(list)) = Len(list) - 1
      /\ \A i \in 1..Len(Tail(list)) : Tail(list)[i] = list[i + 1]
  OBVIOUS
<1>2. \A i \in 1..Len(list) : list[i] \in Mails
  OBVIOUS
<1>3. Listed(Tail(list)) = ListedAfter(list)
  <2>1. ASSUME NEW m \in ListedAfter(list) PROVE m \in Listed(Tail(list))
    <3>1. PICK i \in 2..Len(list) : m = list[i]
      BY <2>1 DEF ListedAfter
    <3>2. i - 1 \in 1..Len(Tail(list)) /\ Tail(list)[i - 1] = m
      BY <1>1, <3>1
    <3> QED BY <3>2 DEF Listed
  <2>2. ASSUME NEW m \in Listed(Tail(list)) PROVE m \in ListedAfter(list)
    <3>1. PICK i \in 1..Len(Tail(list)) : m = Tail(list)[i]
      BY <2>2 DEF Listed
    <3>2. i + 1 \in 2..Len(list) /\ list[i + 1] = m
      BY <1>1, <3>1
    <3> QED BY <3>2 DEF ListedAfter
  <2> QED BY <2>1, <2>2
<1>4. Head(list) \in Listed(list) /\ ListedAfter(list) = Listed(list) \ {Head(list)}
  <2>1. 1..Len(list) = {1} \union 2..Len(list) /\ 1 \notin 2..Len(list)
    BY <1>1
  <2>2. ASSUME NEW i \in 2..Len(list) PROVE list[i] # list[1]
    BY <1>1
  <2> QED BY <1>1, <2>1, <2>2 DEF Listed, ListedAfter
<1>5. \A i, j \in 1..Len(Tail(list)) : Tail(list)[i] = Tail(list)[j] => i = j
  <2> SUFFICES ASSUME NEW i \in 1..Len(Tail(list)), NEW j \in 1..Len(Tail(list)),
                      Tail(list)[i] = Tail(list)[j]
               PROVE  i = j
    OBVIOUS
  <2>1. i + 1 \in 1..Len(list) /\ j + 1 \in 1..Len(list) /\ list[i + 1] = list[j + 1]
    BY <1>1
  <2> QED BY <2>1
<1> QED BY <1>1, <1>2, <1>3, <1>4, <1>5

(* What MailHandedOnce says of one mail.                                   *)
Accounted(m) ==
  /\ asked[m] = handed[m] + let_go[m] + (IF m \in unseen THEN 1 ELSE 0)
                 + (IF m \in UnderWay THEN 1 ELSE 0)
  /\ handed[m] > 0 => m \in tracked

LEMMA AccountsSuffice ==
  ASSUME ImapTypes', \A m \in Mails : Accounted(m)'
  PROVE  MailHandedOnce'
<1> SUFFICES ASSUME NEW m \in Mails
             PROVE  /\ handed'[m] <= asked'[m]
                    /\ asked'[m] = handed'[m] + let_go'[m] + Cardinality({m} \intersect unseen')
                                   + Cardinality({m} \intersect UnderWay')
                    /\ handed'[m] > 0 => m \in tracked'
  BY DEF MailHandedOnce
<1>1. Accounted(m)' /\ asked'[m] \in Nat /\ handed'[m] \in Nat /\ let_go'[m] \in Nat
  BY DEF ImapTypes
<1>2. /\ Cardinality({m} \intersect unseen') = IF m \in unseen' THEN 1 ELSE 0
      /\ Cardinality({m} \intersect UnderWay') = IF m \in UnderWay' THEN 1 ELSE 0
  BY OneOrNone
<1> QED BY <1>1, <1>2 DEF Accounted

LEMMA AccountsAreKept ==
  ASSUME ImapInv
  PROVE  \A m \in Mails : Accounted(m)
<1> SUFFICES ASSUME NEW m \in Mails PROVE Accounted(m)
  OBVIOUS
<1>1. /\ Cardinality({m} \intersect unseen) = IF m \in unseen THEN 1 ELSE 0
      /\ Cardinality({m} \intersect UnderWay) = IF m \in UnderWay THEN 1 ELSE 0
  BY OneOrNone
<1> QED BY <1>1 DEF ImapInv, MailHandedOnce, Accounted

(* What is at hand at every step of the proof.                             *)
LEMMA SessionFields ==
  ASSUME ImapTypes
  PROVE  /\ session = Session(session.step, session.unfetched, session.fetched)
         /\ session.unfetched \in SUBSET Mails /\ session.fetched \in Seq(Mails)
BY DEF ImapTypes, Session

LEMMA SessionTyped ==
  ASSUME NEW step \in SessionSteps, NEW found \in SUBSET Mails, NEW list \in Seq(Mails),
         session' = [step |-> step, unfetched |-> found, fetched |-> list]
  PROVE  session' \in [step : SessionSteps, unfetched : SUBSET Mails, fetched : Seq(Mails)]
OBVIOUS

LEMMA MailCounts ==
  ASSUME ImapTypes, NEW m \in Mails
  PROVE  asked[m] \in Nat /\ handed[m] \in Nat /\ let_go[m] \in Nat
BY DEF ImapTypes

LEMMA InitImap == ImapInit => ImapInv
<1> SUFFICES ASSUME ImapInit PROVE ImapInv
  OBVIOUS
<1> USE DEF ImapInit, Closed, Session
<1>1. ImapTypes /\ ListSound /\ ListFits
  BY DEF ImapTypes, SessionSteps, ListSound, ListFits
<1>2. UnderWay = {}
  BY UnderWayIs DEF Listed
<1>3. \A m \in Mails : Cardinality({m} \intersect {}) = 0
  BY OneOrNone
<1>4. MailHandedOnce
  BY <1>2, <1>3 DEF MailHandedOnce
<1> QED BY <1>1, <1>4 DEF ImapInv

LEMMA TurnsKeeps == ASSUME ImapInv, NEW m \in Mails, TurnsUnseen(m) PROVE ImapInv'
<1>1. /\ m \notin unseen /\ unseen' = unseen \union {m}
      /\ UNCHANGED <<session, tracked, imap_ends, handed, let_go>>
      /\ asked' = [asked EXCEPT ![m] = asked[m] + 1]
  BY DEF TurnsUnseen
<1>2. ImapTypes'
  BY <1>1 DEF ImapInv, ImapTypes
<1>3. ListSound' /\ ListFits'
  BY <1>1 DEF ImapInv, ListSound, ListFits
<1>4. UnderWay' = UnderWay
  BY <1>1 DEF UnderWay
<1>5. ASSUME NEW n \in Mails PROVE Accounted(n)'
  <2>1. Accounted(n) /\ asked[n] \in Nat /\ handed[n] \in Nat /\ let_go[n] \in Nat
    BY AccountsAreKept, MailCounts DEF ImapInv
  <2>2. CASE n = m
    <3>1. asked'[n] = asked[n] + 1 /\ n \notin unseen /\ n \in unseen'
      BY <1>1, <2>2 DEF ImapInv, ImapTypes
    <3> QED BY <1>1, <1>4, <2>1, <3>1 DEF Accounted
  <2>3. CASE n # m
    <3>1. asked'[n] = asked[n] /\ (n \in unseen' <=> n \in unseen)
      BY <1>1, <2>3 DEF ImapInv, ImapTypes
    <3> QED BY <1>1, <1>4, <2>1, <3>1 DEF Accounted
  <2> QED BY <2>2, <2>3
<1> QED BY <1>2, <1>3, <1>5, AccountsSuffice DEF ImapInv

(* A step that moves on without a mail changing hands.                     *)
LEMMA MovesKeeps ==
  ASSUME ImapInv, ImapTypes', ListSound', ListFits', UnderWay' = UnderWay,
         UNCHANGED <<unseen, asked, handed, let_go>>, tracked \subseteq tracked'
  PROVE  ImapInv'
<1>1. \A n \in Mails : Accounted(n)'
  BY AccountsAreKept DEF Accounted
<1> QED BY <1>1, AccountsSuffice DEF ImapInv

LEMMA ConnectsKeeps == ASSUME ImapInv, Connects \/ Searches PROVE ImapInv'
<1>1. /\ session'.step \in {"open", "fetch"}
      /\ session'.step = "open" => session'.unfetched = {}
  BY DEF Connects, Searches, Session
<1>2. session'.fetched = << >> /\ session'.unfetched \subseteq unseen
  BY DEF Connects, Searches, Session
<1>3. session.fetched = << >> /\ session.step \in {"closed", "open"}
  BY DEF Connects, Searches, ImapInv, ListFits
<1>4. UNCHANGED <<unseen, tracked, imap_ends, asked, handed, let_go>>
  BY DEF Connects, Searches
<1>5. ImapTypes'
  <2>1. unseen \in SUBSET Mails /\ {} \in SUBSET Mails
    BY DEF ImapInv, ImapTypes
  <2>2. session' \in [step : SessionSteps, unfetched : SUBSET Mails, fetched : Seq(Mails)]
    <3>1. "open" \in SessionSteps /\ "fetch" \in SessionSteps
      BY DEF SessionSteps
    <3>2. CASE session' = [step |-> "open", unfetched |-> {}, fetched |-> << >>]
      BY <2>1, <3>1, <3>2, EmptyList, SessionTyped
    <3>3. CASE session' = [step |-> "fetch", unfetched |-> unseen, fetched |-> << >>]
      BY <2>1, <3>1, <3>3, EmptyList, SessionTyped
    <3> QED BY <3>2, <3>3 DEF Connects, Searches, Session
  <2> QED BY <1>4, <2>2 DEF ImapInv, ImapTypes
<1>6. ListSound' /\ ListFits'
  <2>1. 1..Len(session'.fetched) = {}
    BY <1>2
  <2>2. ListSound'
    BY <1>2, <1>4, <2>1 DEF ListSound
  <2> QED BY <1>1, <1>2, <2>2 DEF ListFits
<1>7. UnderWay' = {} /\ UnderWay = {}
  <2>1. Listed(<< >>) = {} /\ session.step # "mark" /\ session'.step # "mark"
    BY <1>1, <1>3 DEF Listed
  <2> QED BY <1>2, <1>3, <2>1, UnderWayIs, UnderWayNext
<1> QED BY <1>4, <1>5, <1>6, <1>7, MovesKeeps

LEMMA FetchesKeeps == ASSUME ImapInv, NEW m \in Mails, Fetches(m) PROVE ImapInv'
<1> DEFINE list == session.fetched
<1>1. /\ session.step = "fetch" /\ m \in session.unfetched /\ unseen' = unseen \ {m}
      /\ session' = [step |-> "fetch", unfetched |-> session.unfetched \ {m},
                     fetched |-> Append(list, m)]
      /\ UNCHANGED <<tracked, imap_ends, asked, handed, let_go>>
  BY DEF Fetches, UnseenAfterFetch, Session
<1>2. list \in Seq(Mails) /\ session.unfetched \in SUBSET Mails
  BY DEF ImapInv, ImapTypes
<1>3. /\ Append(list, m) \in Seq(Mails) /\ Len(Append(list, m)) = Len(list) + 1
      /\ Append(list, m)[Len(list) + 1] = m /\ Len(list) \in Nat
      /\ \A i \in 1..Len(list) : Append(list, m)[i] = list[i]
  BY <1>2
<1>4. m \in unseen /\ \A i \in 1..Len(list) : list[i] # m
  BY <1>1 DEF ImapInv, ListSound
<1>5. 1..(Len(list) + 1) = 1..Len(list) \union {Len(list) + 1}
  BY <1>3
<1>6. ImapTypes'
  BY <1>1, <1>2, <1>3 DEF ImapInv, ImapTypes, SessionSteps
<1>7. ListSound'
  BY <1>1, <1>3, <1>4, <1>5 DEF ImapInv, ListSound
<1>8. ListFits'
  BY <1>1 DEF ListFits
<1>9. UnderWay' = UnderWay \union {m} /\ m \notin UnderWay
  <2>1. UnderWay = Listed(list)
    BY <1>1, UnderWayIs
  <2>2. UnderWay' = {session'.fetched[i] : i \in 1..Len(session'.fetched)}
    BY <1>1 DEF UnderWay
  <2>3. UnderWay' = {Append(list, m)[i] : i \in 1..(Len(list) + 1)}
    BY <1>1, <1>3, <2>2
  <2> HIDE DEF list
  <2> QED BY <1>3, <1>4, <1>5, <2>1, <2>3 DEF Listed
<1>10. \A n \in Mails : Accounted(n)'
  BY <1>1, <1>4, <1>9, AccountsAreKept, MailCounts DEF Accounted, ImapInv
<1> QED BY <1>6, <1>7, <1>8, <1>10, AccountsSuffice DEF ImapInv

LEMMA FetchedAllKeeps == ASSUME ImapInv, FetchedAll PROVE ImapInv'
<1>1. /\ session.step = "fetch"
      /\ session' = [step |-> IF session.fetched = << >> THEN "open" ELSE "process",
                     unfetched |-> {}, fetched |-> session.fetched]
      /\ UNCHANGED <<unseen, tracked, imap_ends, asked, handed, let_go>>
  BY DEF FetchedAll, ProcessOrWait, Session
<1>2. ImapTypes'
  BY <1>1 DEF ImapInv, ImapTypes, SessionSteps
<1>3. ListSound' /\ ListFits'
  BY <1>1 DEF ImapInv, ListSound, ListFits
<1>4. UnderWay' = UnderWay
  BY <1>1 DEF UnderWay
<1> QED BY <1>1, <1>2, <1>3, <1>4, MovesKeeps

(* The head of the list, which is dropped or handed over.                  *)
LEMMA HeadUnderWay ==
  ASSUME ImapInv, session.step \in {"process", "hand over", "mark"}
  PROVE  LET list == session.fetched IN
         /\ list \in Seq(Mails) /\ list # << >>
         /\ Head(list) \in Mails /\ Tail(list) \in Seq(Mails)
         /\ Listed(Tail(list)) = ListedAfter(list)
         /\ Head(list) \in Listed(list) /\ ListedAfter(list) = Listed(list) \ {Head(list)}
         /\ \A i, j \in 1..Len(Tail(list)) : Tail(list)[i] = Tail(list)[j] => i = j
BY ListTail DEF ImapInv, ImapTypes, ListSound, ListFits

LEMMA ProcessesKeeps == ASSUME ImapInv, Processes \/ HandsOver PROVE ImapInv'
<1>1. PICK m \in Mails : m = Head(session.fetched)
  BY HeadUnderWay DEF Processes, HandsOver
<1>2. PICK step : step \in {"mark", "hand over"} /\ session' = [session EXCEPT !.step = step]
  BY DEF Processes, HandsOver
<1>3. /\ session' = [step |-> step, unfetched |-> session.unfetched, fetched |-> session.fetched]
      /\ session.step \in {"process", "hand over"} /\ session.step # "mark"
  BY <1>2 DEF Processes, HandsOver, ImapInv, ImapTypes
<1>4. /\ UNCHANGED <<unseen, imap_ends, asked>> /\ tracked \subseteq tracked'
      /\ tracked' \in SUBSET Mails
  BY <1>1, <1>3 DEF Processes, HandsOver, ImapInv, ImapTypes
<1>5. session' \in [step : SessionSteps, unfetched : SUBSET Mails, fetched : Seq(Mails)]
  BY <1>2, <1>3 DEF ImapInv, ImapTypes, SessionSteps
<1>6. CASE step = "hand over"
  <2>1. UNCHANGED <<handed, let_go>>
    BY <1>3, <1>6 DEF Processes, HandsOver
  <2>2. ImapTypes'
    BY <1>4, <1>5, <2>1 DEF ImapInv, ImapTypes
  <2>3. ListSound' /\ ListFits'
    <3>1. m \in tracked'
      BY <1>1, <1>3, <1>6 DEF Processes, HandsOver
    <3> QED BY <1>1, <1>3, <1>4, <1>6, <3>1, HeadUnderWay DEF ImapInv, ListSound, ListFits
  <2>4. UnderWay' = UnderWay
    BY <1>3, <1>6 DEF UnderWay
  <2> QED BY <1>4, <2>1, <2>2, <2>3, <2>4, MovesKeeps
<1>7. CASE step = "mark"
  <2>2. ListSound' /\ ListFits'
    BY <1>3, <1>4, <1>7, HeadUnderWay DEF ImapInv, ListSound, ListFits
  <2>3. UnderWay' = UnderWay \ {m} /\ m \in UnderWay
    <3>1. UnderWay = Listed(session.fetched)
      BY <1>3, UnderWayIs
    <3>2. session'.fetched = session.fetched /\ session'.step = "mark"
      BY <1>3, <1>7
    <3>3. UnderWay' = ListedAfter(session.fetched)
      BY <3>2, UnderWayNext
    <3> QED BY <1>1, <1>3, <3>1, <3>3, HeadUnderWay
  <2>4. asked \in [Mails -> Nat] /\ handed \in [Mails -> Nat] /\ let_go \in [Mails -> Nat]
    BY DEF ImapInv, ImapTypes
  <2>5. CASE let_go' = [let_go EXCEPT ![m] = let_go[m] + 1] /\ UNCHANGED handed
    <3>1. ImapTypes'
      <4>1. let_go' \in [Mails -> Nat] /\ handed' = handed
        BY <1>1, <2>4, <2>5
      <4> QED BY <1>4, <1>5, <4>1 DEF ImapInv, ImapTypes
    <3>2. \A n \in Mails : let_go'[n] = let_go[n] + (IF n = m THEN 1 ELSE 0)
      BY <1>1, <2>4, <2>5
    <3>3. \A n \in Mails : Accounted(n)'
      <4> SUFFICES ASSUME NEW n \in Mails PROVE Accounted(n)'
        OBVIOUS
      <4>1. Accounted(n) /\ asked[n] \in Nat /\ handed[n] \in Nat /\ let_go[n] \in Nat
        BY <2>4, AccountsAreKept
      <4> QED BY <1>1, <1>4, <2>3, <2>5, <3>2, <4>1 DEF Accounted
    <3> QED BY <2>2, <3>1, <3>3, AccountsSuffice DEF ImapInv
  <2>6. CASE /\ handed' = [handed EXCEPT ![m] = handed[m] + 1] /\ UNCHANGED let_go
             /\ m \in tracked'
    <3>1. ImapTypes'
      <4>1. handed' \in [Mails -> Nat] /\ let_go' = let_go
        BY <1>1, <2>4, <2>6
      <4> QED BY <1>4, <1>5, <4>1 DEF ImapInv, ImapTypes
    <3>2. \A n \in Mails : handed'[n] = handed[n] + (IF n = m THEN 1 ELSE 0)
      BY <1>1, <2>4, <2>6
    <3>3. \A n \in Mails : Accounted(n)'
      <4> SUFFICES ASSUME NEW n \in Mails PROVE Accounted(n)'
        OBVIOUS
      <4>1. Accounted(n) /\ asked[n] \in Nat /\ handed[n] \in Nat /\ let_go[n] \in Nat
        BY <2>4, AccountsAreKept
      <4> QED BY <1>1, <1>4, <2>3, <2>6, <3>2, <4>1 DEF Accounted
    <3> QED BY <2>2, <3>1, <3>3, AccountsSuffice DEF ImapInv
  <2>7. \/ let_go' = [let_go EXCEPT ![m] = let_go[m] + 1] /\ UNCHANGED handed
        \/ /\ handed' = [handed EXCEPT ![m] = handed[m] + 1] /\ UNCHANGED let_go
           /\ m \in tracked'
    BY <1>1, <1>3, <1>7 DEF Processes, HandsOver, ImapInv, ListFits
  <2> QED BY <2>5, <2>6, <2>7
<1> QED BY <1>2, <1>6, <1>7

LEMMA MarksKeeps == ASSUME ImapInv, MarksSeen PROVE ImapInv'
<1> DEFINE rest == Tail(session.fetched)
<1>1. PICK m \in Mails : m = Head(session.fetched)
  BY HeadUnderWay DEF MarksSeen
<1>2. /\ session.step = "mark" /\ unseen' = unseen \ {m}
      /\ let_go' = [let_go EXCEPT ![m] = let_go[m] + Cardinality({m} \intersect unseen)]
      /\ session' = [step |-> IF rest = << >> THEN "open" ELSE "process",
                     unfetched |-> {}, fetched |-> rest]
      /\ UNCHANGED <<tracked, imap_ends, asked, handed>>
  <2>1. unseen \intersect {m} = {m} \intersect unseen
    OBVIOUS
  <2> QED BY <1>1, <2>1 DEF MarksSeen, ProcessOrWait, Session
<1>3. /\ rest \in Seq(Mails) /\ Listed(rest) = ListedAfter(session.fetched)
      /\ \A i, j \in 1..Len(rest) : rest[i] = rest[j] => i = j
  BY <1>2, HeadUnderWay
<1>4. Cardinality({m} \intersect unseen) = IF m \in unseen THEN 1 ELSE 0
  BY OneOrNone
<1>5. ImapTypes'
  <2>1. let_go' \in [Mails -> Nat]
    BY <1>2, <1>4, MailCounts DEF ImapInv, ImapTypes
  <2>2. session' \in [step : SessionSteps, unfetched : SUBSET Mails, fetched : Seq(Mails)]
    BY <1>2, <1>3 DEF SessionSteps
  <2> QED BY <1>2, <2>1, <2>2 DEF ImapInv, ImapTypes
<1>6. ListSound' /\ ListFits'
  BY <1>2, <1>3 DEF ListSound, ListFits
<1>7. UnderWay' = UnderWay
  <2>1. UnderWay = ListedAfter(session.fetched)
    BY <1>2, UnderWayIs
  <2>2. UnderWay' = Listed(rest)
    <3>1. session'.step # "mark" /\ session'.fetched = rest
      BY <1>2
    <3> QED BY <3>1, UnderWayNext
  <2> QED BY <1>3, <2>1, <2>2
<1>8. \A n \in Mails : Accounted(n)'
  BY <1>2, <1>4, <1>7, AccountsAreKept DEF ImapInv, ImapTypes, Accounted
<1> QED BY <1>5, <1>6, <1>8, AccountsSuffice DEF ImapInv

LEMMA LoopEndsKeeps == ASSUME ImapInv, LoopEnds PROVE ImapInv'
<1>1. /\ session' = [step |-> "closed", unfetched |-> {}, fetched |-> << >>]
      /\ let_go' = [m \in Mails |-> let_go[m] + Cardinality({m} \intersect UnderWay)]
      /\ imap_ends' = imap_ends + 1
      /\ UNCHANGED <<unseen, tracked, asked, handed>>
  BY DEF LoopEnds, Closed, Session
<1>2. \A m \in Mails : let_go'[m] = let_go[m] + (IF m \in UnderWay THEN 1 ELSE 0)
  BY <1>1, OneOrNone
<1>3. ImapTypes'
  <2>1. let_go' \in [Mails -> Nat]
    <3>1. \A m \in Mails : let_go'[m] \in Nat
      BY <1>2, MailCounts DEF ImapInv
    <3> QED BY <1>1, <3>1
  <2>2. "closed" \in SessionSteps /\ {} \in SUBSET Mails /\ << >> \in Seq(Mails)
    BY DEF SessionSteps
  <2>3. session' \in [step : SessionSteps, unfetched : SUBSET Mails, fetched : Seq(Mails)]
    BY <1>1, <2>2, SessionTyped
  <2> QED BY <1>1, <2>1, <2>3 DEF ImapInv, ImapTypes
<1>4. ListSound' /\ ListFits'
  BY <1>1 DEF ListSound, ListFits
<1>5. UnderWay' = {}
  BY <1>1 DEF UnderWay
<1>6. ASSUME NEW n \in Mails PROVE Accounted(n)'
  <2>1. /\ let_go'[n] = let_go[n] + (IF n \in UnderWay THEN 1 ELSE 0)
        /\ n \notin UnderWay'
    BY <1>2, <1>5
  <2>2. Accounted(n) /\ asked[n] \in Nat /\ handed[n] \in Nat /\ let_go[n] \in Nat
    BY AccountsAreKept, MailCounts DEF ImapInv
  <2>3. asked[n] = handed[n] + let_go'[n] + (IF n \in unseen THEN 1 ELSE 0)
    BY ONLY <2>1, <2>2 DEF Accounted
  <2>4. handed[n] > 0 => n \in tracked
    BY <2>2 DEF Accounted
  <2> QED BY <1>1, <2>1, <2>2, <2>3, <2>4 DEF Accounted
<1> QED BY <1>3, <1>4, <1>6, AccountsSuffice DEF ImapInv

LEMMA NextImap == ImapInv /\ [ImapNext]_imap_vars => ImapInv'
<1> SUFFICES ASSUME ImapInv, [ImapNext]_imap_vars PROVE ImapInv'
  OBVIOUS
<1>1. CASE UNCHANGED imap_vars
  <2>1. ImapTypes' /\ ListSound' /\ ListFits'
    BY <1>1 DEF imap_vars, ImapInv, ImapTypes, ListSound, ListFits
  <2>2. UnderWay' = UnderWay
    BY <1>1 DEF imap_vars, UnderWay
  <2> QED BY <1>1, <2>1, <2>2, MovesKeeps DEF imap_vars
<1>2. CASE ImapNext
  BY <1>2, TurnsKeeps, FetchesKeeps, ConnectsKeeps, FetchedAllKeeps, ProcessesKeeps, MarksKeeps,
     LoopEndsKeeps DEF ImapNext
<1> QED BY <1>1, <1>2

(* A mail is handed to the gateway at most once for each time it came to   *)
(* be unseen; each such time it is still unseen, under way, handed over or *)
(* let go, wherever the loop of the IMAP adapter breaks.                   *)
THEOREM ImapHandsOnce == ImapSpec => []MailHandedOnce
<1>1. ImapInv => MailHandedOnce
  BY DEF ImapInv
<1> QED BY <1>1, InitImap, NextImap, PTL DEF ImapSpec

(* A mail that is unseen or under way waits.                               *)
LEMMA UnseenWaits ==
  ASSUME ImapInv, NEW m \in Mails, m \in unseen \/ m \in UnderWay
  PROVE  ImapOnce!Waits(m)
<1>1. Accounted(m) /\ asked[m] \in Nat /\ handed[m] \in Nat /\ let_go[m] \in Nat
  BY AccountsAreKept, MailCounts DEF ImapInv
<1> QED BY <1>1 DEF Accounted, ImapOnce!Waits

LEMMA OneLetGo ==
  ASSUME ImapInv, NEW m \in Mails, ImapOnce!Waits(m), UNCHANGED <<asked, handed>>,
         let_go' = [let_go EXCEPT ![m] = let_go[m] + 1]
  PROVE  ImapOnce!Next
<1>1. let_go = [n \in Mails |-> let_go[n]]
  BY DEF ImapInv, ImapTypes
<1>2. let_go' = [n \in Mails |-> IF n \in {m} THEN let_go[n] + 1 ELSE let_go[n]]
  BY <1>1
<1>3. ImapOnce!LetGo({m}) /\ {m} \in SUBSET {n \in Mails : ImapOnce!Waits(n)}
  BY <1>2 DEF ImapOnce!LetGo
<1> QED BY <1>3 DEF ImapOnce!Next

LEMMA ProcessesOnce ==
  ASSUME ImapInv, Processes \/ HandsOver
  PROVE  [ImapOnce!Next]_<<asked, handed, let_go>>
<1>1. PICK m \in Mails : m = Head(session.fetched)
  BY HeadUnderWay DEF Processes, HandsOver
<1>2. session.step # "mark" /\ session.step \in {"process", "hand over", "mark"}
  BY DEF Processes, HandsOver
<1>3. m \in UnderWay
  <2>1. UnderWay = Listed(session.fetched)
    BY <1>2, UnderWayIs
  <2> QED BY <1>1, <1>2, <2>1, HeadUnderWay
<1>4. ImapOnce!Waits(m)
  BY <1>3, UnseenWaits
<1>5. CASE Processes
  <2>1. UNCHANGED <<asked, handed>>
    BY <1>5 DEF Processes
  <2>2. CASE let_go' = [let_go EXCEPT ![m] = let_go[m] + 1]
    BY <1>4, <2>1, <2>2, OneLetGo
  <2>3. CASE UNCHANGED let_go
    BY <2>1, <2>3
  <2> QED BY <1>1, <1>5, <2>2, <2>3 DEF Processes
<1>6. CASE HandsOver
  <2>1. ImapOnce!Hand(m)
    BY <1>1, <1>4, <1>6 DEF HandsOver, ImapOnce!Hand
  <2> QED BY <2>1 DEF ImapOnce!Next
<1> QED BY <1>5, <1>6

LEMMA MarksOnce ==
  ASSUME ImapInv, MarksSeen
  PROVE  [ImapOnce!Next]_<<asked, handed, let_go>>
<1>1. PICK m \in Mails : m = Head(session.fetched)
  BY HeadUnderWay DEF MarksSeen
<1>2. /\ let_go' = [let_go EXCEPT ![m] = let_go[m] + Cardinality(unseen \intersect {m})]
      /\ UNCHANGED <<asked, handed>>
  BY <1>1 DEF MarksSeen
<1>3. CASE m \in unseen
  <2>1. unseen \intersect {m} = {m} /\ Cardinality({m}) = 1
    BY <1>3, FS_Singleton
  <2> QED BY <1>2, <1>3, <2>1, UnseenWaits, OneLetGo
<1>4. CASE m \notin unseen
  <2>1. unseen \intersect {m} = {} /\ Cardinality({}) = 0
    BY <1>4, FS_EmptySet
  <2>2. let_go[m] + 0 = let_go[m] /\ let_go \in [Mails -> Nat]
    BY MailCounts DEF ImapInv, ImapTypes
  <2>3. let_go' = [let_go EXCEPT ![m] = let_go[m]]
    BY <1>2, <2>1, <2>2
  <2>4. let_go' = let_go
    BY <2>2, <2>3
  <2> QED BY <1>2, <2>4
<1> QED BY <1>3, <1>4

LEMMA LoopEndsOnce ==
  ASSUME ImapInv, LoopEnds
  PROVE  [ImapOnce!Next]_<<asked, handed, let_go>>
<1>1. /\ let_go' = [m \in Mails |-> let_go[m] + Cardinality({m} \intersect UnderWay)]
      /\ UNCHANGED <<asked, handed>>
  BY DEF LoopEnds
<1> DEFINE dropped == Mails \intersect UnderWay
<1>2. \A m \in dropped : ImapOnce!Waits(m)
  BY UnseenWaits
<1>3. \A m \in Mails : Cardinality({m} \intersect UnderWay) = IF m \in UnderWay THEN 1 ELSE 0
  BY OneOrNone
<1>4. let_go' = [m \in Mails |-> IF m \in dropped THEN let_go[m] + 1 ELSE let_go[m]]
  <2>1. \A m \in Mails : let_go[m] + Cardinality({m} \intersect UnderWay)
                           = IF m \in dropped THEN let_go[m] + 1 ELSE let_go[m]
    BY <1>3, MailCounts DEF ImapInv
  <2> QED BY <1>1, <2>1
<1>5. ImapOnce!LetGo(dropped)
  BY <1>1, <1>4 DEF ImapOnce!LetGo
<1>6. dropped \in SUBSET {m \in Mails : ImapOnce!Waits(m)}
  BY <1>2
<1> QED BY <1>5, <1>6 DEF ImapOnce!Next

(* The loop hands on, or drops, only mails that wait: it is at most once   *)
(* for each time a mail comes to be unseen, over disconnections and        *)
(* restarts, whoever reads the mailbox beside it.                          *)
THEOREM ImapIsAtMostOnce == ImapSpec => ImapImplementsAtMostOnce
<1>1. ImapInit => ImapOnce!Init
  BY DEF ImapInit, ImapOnce!Init
<1>2. ASSUME ImapInv, [ImapNext]_imap_vars PROVE [ImapOnce!Next]_<<asked, handed, let_go>>
  <2>1. ASSUME NEW m \in Mails, TurnsUnseen(m) PROVE ImapOnce!Next
    <3>1. asked \in [Mails -> Nat] /\ asked' = [asked EXCEPT ![m] = @ + 1]
      BY <1>2, <2>1 DEF TurnsUnseen, ImapInv, ImapTypes
    <3>2. asked' \in [Mails -> Nat] /\ \A n \in Mails : asked[n] <= asked'[n]
      BY <3>1
    <3> QED BY <2>1, <3>2 DEF TurnsUnseen, ImapOnce!Next, ImapOnce!Ask
  <2>2. ASSUME NEW m \in Mails, Fetches(m) PROVE UNCHANGED <<asked, handed, let_go>>
    BY <2>2 DEF Fetches
  <2>3. ASSUME Connects \/ Searches \/ FetchedAll PROVE UNCHANGED <<asked, handed, let_go>>
    BY <2>3 DEF Connects, Searches, FetchedAll
  <2>4. CASE UNCHANGED imap_vars
    BY <2>4 DEF imap_vars
  <2>5. CASE ImapNext
    BY <1>2, <2>5, <2>1, <2>2, <2>3, ProcessesOnce, MarksOnce, LoopEndsOnce DEF ImapNext
  <2> QED BY <1>2, <2>4, <2>5
<1> QED BY <1>1, <1>2, InitImap, NextImap, PTL DEF ImapSpec, ImapImplementsAtMostOnce, ImapOnce!Spec

(* imap/adapter.py's loop: each mail is accounted for in each state, and   *)
(* handed on or let go only while it waits, in each step.                  *)
THEOREM ImapKeepsPromise == ImapSpec => ImapPromiseKept
<1>1. ImapInv => ImapTypes
  BY DEF ImapInv
<1> QED BY <1>1, InitImap, NextImap, ImapHandsOnce, ImapIsAtMostOnce, PTL
        DEF ImapSpec, ImapPromiseKept
HIDE ImapAssumption

-------------------------------------------------------------------------------
(***************************************************************************)
(* TelegramBridge: the long poll of updates, for any page size, losses and *)
(* restarts.                                                               *)
(*                                                                         *)
(* What is left of an answer follows on what was taken and goes no further *)
(* than a page from what is confirmed (PageFollows); everything before was *)
(* relayed or passed over (AllTaken), in this run only once                *)
(* (RelayedBefore).                                                        *)
(***************************************************************************)
(* The update the loop takes next, or asks for.                            *)
NextUpdate == IF offset > confirmed THEN offset ELSE confirmed

(* What is left of an answer follows on what was taken, and no answer goes *)
(* further than a page from what is confirmed.                             *)
PageFollows ==
  /\ offset <= confirmed + UpdatePage
  /\ NextUpdate + Len(updates) <= confirmed + UpdatePage
  /\ NextUpdate + Len(updates) <= update_id + 1
  /\ \A i \in 1..Len(updates) : updates[i] = NextUpdate + i - 1

RelayedUpdate(id) == \E i \in 1..Len(relayed) : relayed[i].id = id
AllTaken == \A id \in 1..(NextUpdate - 1) : id \in passed_over \/ RelayedUpdate(id)

(* What went to the gateway is before the offset, or was not confirmed.    *)
RelayedBefore ==
  \A i \in 1..Len(relayed) :
    /\ relayed[i].id < confirmed + UpdatePage
    /\ relayed[i].run <= run
    /\ relayed[i].run = run => relayed[i].id < offset

TelegramInv == TelegramTypes /\ PageFollows /\ AllTaken /\ RelayedBefore /\ UpdatesInOrder
USE TelegramAssumption

LEMMA NextUpdateIs ==
  ASSUME TelegramTypes
  PROVE  /\ NextUpdate \in Nat \ {0} /\ NextUpdate >= offset /\ NextUpdate >= confirmed
         /\ NextUpdate = offset \/ NextUpdate = confirmed
         /\ Len(updates) \in Nat /\ Len(relayed) \in Nat
BY DEF TelegramTypes, NextUpdate

LEMMA RelayedTyped ==
  ASSUME TelegramTypes, NEW i \in 1..Len(relayed)
  PROVE  relayed[i].id \in Nat /\ relayed[i].run \in Nat
<1>1. relayed[i] \in RelayRecords
  BY DEF TelegramTypes
<1> QED BY <1>1 DEF RelayRecords

LEMMA InitTelegram == TelegramInit => TelegramInv
<1> SUFFICES ASSUME TelegramInit PROVE TelegramInv
  OBVIOUS
<1> USE DEF TelegramInit
<1>1. \A S : << >> \in Seq(S)
  OBVIOUS
<1>2. 1..Len(updates) = {} /\ 1..Len(relayed) = {} /\ Len(updates) = 0
  OBVIOUS
<1>3. TelegramTypes
  BY <1>1 DEF TelegramTypes
<1>4. NextUpdate = 1
  BY DEF NextUpdate
<1>5. PageFollows /\ AllTaken /\ RelayedBefore
  BY <1>2, <1>4 DEF PageFollows, AllTaken, RelayedBefore
<1>6. UpdatesInOrder
  BY <1>2 DEF UpdatesInOrder
<1> QED BY <1>3, <1>5, <1>6 DEF TelegramInv

(* The third part of the property, from what was taken.                    *)
LEMMA TakenIsAll ==
  ASSUME TelegramTypes, AllTaken
  PROVE  \A id \in 1..(offset - 1) : id \in passed_over \/ RelayedUpdate(id)
<1> SUFFICES ASSUME NEW id \in 1..(offset - 1) PROVE id \in passed_over \/ RelayedUpdate(id)
  OBVIOUS
<1>1. id \in 1..(NextUpdate - 1)
  BY NextUpdateIs DEF TelegramTypes
<1> QED BY <1>1 DEF AllTaken

LEMMA GetKeeps == ASSUME TelegramInv, NEW lost \in BOOLEAN, GetUpdates(lost) PROVE TelegramInv'
<1> DEFINE n == update_id + 1 - NextUpdate
           size == IF n < UpdatePage THEN n ELSE UpdatePage
           answer == [i \in 1..size |-> NextUpdate + i - 1]
<1>1. /\ updates = << >> /\ confirmed' = NextUpdate
      /\ updates' = << >> \/ updates' = answer
      /\ UNCHANGED <<update_id, run, offset, owner, relayed, passed_over>>
  BY DEF GetUpdates, NextUpdate
<1>2. /\ NextUpdate \in Nat \ {0} /\ NextUpdate >= offset /\ NextUpdate >= confirmed
      /\ Len(relayed) \in Nat /\ update_id \in Nat /\ offset \in Nat /\ confirmed \in Nat
  BY NextUpdateIs DEF TelegramInv, TelegramTypes
<1>3. Len(updates) = 0
  BY <1>1
<1>4. NextUpdate <= update_id + 1
  BY <1>2, <1>3 DEF TelegramInv, PageFollows
<1>5. n \in Nat /\ size \in Nat /\ size <= UpdatePage /\ NextUpdate + size <= update_id + 1
  BY <1>2, <1>4
<1>6. NextUpdate' = NextUpdate
  BY <1>1, <1>2 DEF NextUpdate
<1> HIDE DEF n, size
<1>7. answer \in Seq(Nat) /\ Len(answer) = size /\ \A i \in 1..size : answer[i] = NextUpdate + i - 1
  BY <1>2, <1>5
<1> HIDE DEF answer
<1>8. /\ updates' \in Seq(Nat) /\ Len(updates') \in Nat /\ Len(updates') <= size
      /\ \A i \in 1..Len(updates') : updates'[i] = NextUpdate + i - 1
  <2>1. CASE updates' = << >>
    <3>1. << >> \in Seq(Nat) /\ Len(<< >>) = 0
      OBVIOUS
    <3> QED BY <1>5, <2>1, <3>1
  <2>2. CASE updates' = answer
    BY <1>5, <1>7, <2>2
  <2> QED BY <1>1, <2>1, <2>2
<1>9. TelegramTypes'
  BY <1>1, <1>2, <1>8 DEF TelegramInv, TelegramTypes
<1>10. PageFollows'
  <2>1. offset' <= confirmed' + UpdatePage
    BY <1>1, <1>2
  <2> QED BY <1>1, <1>2, <1>5, <1>6, <1>8, <2>1 DEF PageFollows
<1>11. AllTaken'
  BY <1>1, <1>6 DEF TelegramInv, AllTaken, RelayedUpdate
<1>12. RelayedBefore'
  <2> SUFFICES ASSUME NEW i \in 1..Len(relayed)
               PROVE  /\ relayed[i].id < NextUpdate + UpdatePage
                      /\ relayed[i].run <= run
                      /\ relayed[i].run = run => relayed[i].id < offset
    BY <1>1 DEF RelayedBefore
  <2>1. relayed[i].id \in Nat
    BY RelayedTyped DEF TelegramInv
  <2> QED BY <1>2, <2>1 DEF TelegramInv, RelayedBefore
<1>13. UpdatesInOrder'
  BY <1>1 DEF TelegramInv, UpdatesInOrder
<1> QED BY <1>9, <1>10, <1>11, <1>12, <1>13 DEF TelegramInv

(* The update that is at the head of the answer.                           *)
LEMMA HeadUpdate ==
  ASSUME TelegramInv, updates # << >>
  PROVE  /\ Head(updates) = NextUpdate /\ NextUpdate < confirmed + UpdatePage
         /\ NextUpdate < update_id + 1
         /\ Len(updates) \in Nat \ {0} /\ Tail(updates) \in Seq(Nat)
         /\ Len(Tail(updates)) = Len(updates) - 1
         /\ \A i \in 1..Len(Tail(updates)) : Tail(updates)[i] = NextUpdate + i
<1>1. /\ updates \in Seq(Nat) /\ NextUpdate \in Nat /\ confirmed \in Nat /\ update_id \in Nat
      /\ NextUpdate + Len(updates) <= confirmed + UpdatePage
      /\ NextUpdate + Len(updates) <= update_id + 1
      /\ \A i \in 1..Len(updates) : updates[i] = NextUpdate + i - 1
  BY NextUpdateIs DEF TelegramInv, TelegramTypes, PageFollows
<1>2. /\ Head(updates) = updates[1] /\ Len(updates) \in Nat \ {0}
      /\ Tail(updates) \in Seq(Nat) /\ Len(Tail(updates)) = Len(updates) - 1
      /\ \A i \in 1..Len(Tail(updates)) : Tail(updates)[i] = updates[i + 1]
  BY <1>1, Tailed
<1>3. Head(updates) = NextUpdate
  BY <1>1, <1>2
<1>4. ASSUME NEW i \in 1..Len(Tail(updates)) PROVE Tail(updates)[i] = NextUpdate + i
  <2>1. i + 1 \in 1..Len(updates) /\ Tail(updates)[i] = updates[i + 1]
    BY <1>2
  <2> QED BY <1>1, <2>1
<1>5. NextUpdate < confirmed + UpdatePage /\ NextUpdate < update_id + 1
  BY <1>1, <1>2
<1> QED BY <1>2, <1>3, <1>4, <1>5

(* The loop advances past the head, and knows what became of it.           *)
LEMMA AdvancesKeeps ==
  ASSUME TelegramInv, updates # << >>, offset' = Head(updates) + 1,
         updates' = Tail(updates) \/ updates' = << >>,
         UNCHANGED <<update_id, confirmed, run>>,
         \/ relayed' = relayed /\ passed_over' = passed_over \union {Head(updates)}
         \/ /\ relayed' = Append(relayed, [id |-> Head(updates), run |-> run])
            /\ passed_over' = passed_over
  PROVE  TelegramInv'
<1>0. PICK id : id = Head(updates)
  OBVIOUS
<1>1. /\ id = NextUpdate /\ id \in Nat \ {0} /\ id >= offset /\ id >= confirmed
      /\ id < confirmed + UpdatePage /\ id < update_id + 1
      /\ update_id \in Nat /\ offset \in Nat /\ confirmed \in Nat \ {0} /\ run \in Nat
      /\ relayed \in Seq(RelayRecords) /\ Len(relayed) \in Nat
  BY <1>0, HeadUpdate, NextUpdateIs DEF TelegramInv, TelegramTypes
<1>2. offset' = id + 1 /\ NextUpdate' = id + 1
  <2>1. offset' = id + 1
    BY <1>0
  <2>2. offset' > confirmed' /\ confirmed' = confirmed
    BY <1>1, <2>1
  <2> QED BY <2>1, <2>2 DEF NextUpdate
<1>3. /\ updates' \in Seq(Nat) /\ Len(updates') \in Nat /\ Len(updates') <= Len(updates) - 1
      /\ \A i \in 1..Len(updates') : updates'[i] = id + i
      /\ Len(updates) \in Nat \ {0}
  <2>1. /\ Tail(updates) \in Seq(Nat) /\ Len(Tail(updates)) = Len(updates) - 1
        /\ Len(updates) \in Nat \ {0}
        /\ \A i \in 1..Len(Tail(updates)) : Tail(updates)[i] = id + i
    BY <1>1, HeadUpdate
  <2>2. CASE updates' = << >>
    <3>1. << >> \in Seq(Nat) /\ Len(<< >>) = 0
      OBVIOUS
    <3> QED BY <2>1, <2>2, <3>1
  <2>3. CASE updates' = Tail(updates)
    BY <2>1, <2>3
  <2> QED BY <2>2, <2>3
<1>4. PageFollows'
  <2>1. /\ id + Len(updates) <= confirmed + UpdatePage /\ id + Len(updates) <= update_id + 1
    BY <1>1 DEF TelegramInv, PageFollows
  <2>2. id + 1 + Len(updates') <= confirmed + UpdatePage /\ id + 1 + Len(updates') <= update_id + 1
    BY <1>1, <1>3, <2>1
  <2>3. \A i \in 1..Len(updates') : updates'[i] = id + 1 + i - 1
    BY <1>1, <1>3
  <2> QED BY <1>1, <1>2, <2>2, <2>3 DEF PageFollows
<1> DEFINE sent == [id |-> id, run |-> run]
<1>5. sent \in RelayRecords /\ sent.id = id /\ sent.run = run
  BY <1>1 DEF RelayRecords
<1>6. /\ Append(relayed, sent) \in Seq(RelayRecords)
      /\ Len(Append(relayed, sent)) = Len(relayed) + 1
      /\ Append(relayed, sent)[Len(relayed) + 1] = sent
      /\ \A i \in 1..Len(relayed) : Append(relayed, sent)[i] = relayed[i]
  BY <1>1, <1>5, Appended
<1>7. \/ relayed' = relayed /\ passed_over' = passed_over \union {id}
      \/ relayed' = Append(relayed, sent) /\ passed_over' = passed_over
  BY <1>0
<1> HIDE DEF sent
<1>8. /\ relayed' \in Seq(RelayRecords) /\ passed_over \subseteq passed_over'
      /\ Len(relayed) <= Len(relayed') /\ Len(relayed') \in Nat
      /\ \A i \in 1..Len(relayed) : relayed'[i] = relayed[i]
      /\ \A i \in 1..Len(relayed') : i \notin 1..Len(relayed) =>
           relayed'[i] = sent /\ i = Len(relayed) + 1
  <2>1. CASE relayed' = relayed /\ passed_over' = passed_over \union {id}
    BY <1>1, <2>1
  <2>2. CASE relayed' = Append(relayed, sent) /\ passed_over' = passed_over
    BY <1>1, <1>6, <2>2
  <2> QED BY <1>7, <2>1, <2>2
<1>9. TelegramTypes'
  BY <1>1, <1>2, <1>3, <1>8 DEF TelegramTypes
<1>10. AllTaken'
  <2> SUFFICES ASSUME NEW k \in 1..id
               PROVE  k \in passed_over' \/ \E i \in 1..Len(relayed') : relayed'[i].id = k
    BY <1>1, <1>2 DEF AllTaken, RelayedUpdate
  <2>1. CASE k = id
    <3>1. CASE relayed' = Append(relayed, sent)
      <4>1. Len(relayed) + 1 \in 1..Len(relayed') /\ relayed'[Len(relayed) + 1].id = id
        BY <1>1, <1>5, <1>6, <3>1
      <4> QED BY <2>1, <4>1
    <3> QED BY <1>7, <2>1, <3>1
  <2>2. CASE k # id
    <3>1. k \in 1..(NextUpdate - 1)
      BY <1>1, <2>2
    <3>2. k \in passed_over \/ \E i \in 1..Len(relayed) : relayed[i].id = k
      BY <3>1 DEF TelegramInv, AllTaken, RelayedUpdate
    <3>3. \A i \in 1..Len(relayed) : i \in 1..Len(relayed')
      BY <1>1, <1>8
    <3> QED BY <1>8, <3>2, <3>3
  <2> QED BY <2>1, <2>2
<1>11. \A i \in 1..Len(relayed) :
        /\ relayed[i].id \in Nat /\ relayed[i].id < confirmed + UpdatePage
        /\ relayed[i].run \in Nat /\ relayed[i].run <= run
        /\ relayed[i].run = run => relayed[i].id < offset
  BY RelayedTyped DEF TelegramInv, RelayedBefore
<1>12. RelayedBefore'
  <2> SUFFICES ASSUME NEW i \in 1..Len(relayed')
               PROVE  /\ relayed'[i].id < confirmed + UpdatePage /\ relayed'[i].run <= run
                      /\ relayed'[i].run = run => relayed'[i].id < id + 1
    BY <1>2 DEF RelayedBefore
  <2>1. CASE i \in 1..Len(relayed)
    BY <1>1, <1>8, <1>11, <2>1
  <2>2. CASE i \notin 1..Len(relayed)
    BY <1>1, <1>5, <1>8, <2>2
  <2> QED BY <2>1, <2>2
<1>13. UpdatesInOrder'
  <2>1. \A k \in 1..(offset' - 1) : k \in passed_over' \/ RelayedUpdate(k)'
    BY <1>1, <1>2, <1>10 DEF AllTaken
  <2>2. ASSUME NEW i \in 1..Len(relayed'), NEW j \in 1..Len(relayed'), i < j
        PROVE  IF relayed'[i].run = relayed'[j].run THEN relayed'[i].id < relayed'[j].id
               ELSE relayed'[i].id < relayed'[j].id + UpdatePage
    <3>1. i \in 1..Len(relayed) /\ relayed'[i] = relayed[i]
      BY <1>1, <1>8, <2>2
    <3>2. CASE j \in 1..Len(relayed)
      <4>1. relayed'[j] = relayed[j]
        BY <1>8, <3>2
      <4>2. IF relayed[i].run = relayed[j].run THEN relayed[i].id < relayed[j].id
            ELSE relayed[i].id < relayed[j].id + UpdatePage
        BY <2>2, <3>1, <3>2 DEF TelegramInv, UpdatesInOrder
      <4> QED BY <3>1, <4>1, <4>2
    <3>3. CASE j \notin 1..Len(relayed)
      <4>1. relayed'[j].id = id /\ relayed'[j].run = run
        BY <1>5, <1>8, <3>3
      <4>2. /\ relayed[i].id \in Nat /\ relayed[i].id < confirmed + UpdatePage
            /\ relayed[i].run = run => relayed[i].id < offset
        BY <1>11, <3>1
      <4> QED BY <1>1, <3>1, <4>1, <4>2
    <3> QED BY <3>2, <3>3
  <2> QED BY <2>1, <2>2 DEF UpdatesInOrder, RelayedUpdate
<1> QED BY <1>4, <1>9, <1>10, <1>12, <1>13 DEF TelegramInv

LEMMA TakeUpdateKeeps ==
  ASSUME TelegramInv, NEW sender \in BOOLEAN, NEW relays \in BOOLEAN,
         TakeUpdate(sender, relays) \/ UpdateRaises(sender)
  PROVE  TelegramInv'
BY AdvancesKeeps DEF TakeUpdate, UpdateRaises, OffsetAfter

LEMMA BridgeRestartsKeeps == ASSUME TelegramInv, BridgeRestarts PROVE TelegramInv'
<1>1. /\ run' = run + 1 /\ offset' = 0 /\ updates' = << >>
      /\ UNCHANGED <<update_id, confirmed, relayed, passed_over>>
      /\ << >> \in Seq(Nat) /\ Len(updates') = 0
  BY DEF BridgeRestarts
<1>2. /\ run \in Nat /\ confirmed \in Nat \ {0} /\ update_id \in Nat /\ offset \in Nat
      /\ NextUpdate \in Nat /\ confirmed <= NextUpdate /\ Len(updates) \in Nat
  BY NextUpdateIs DEF TelegramInv, TelegramTypes
<1>3. TelegramTypes'
  BY <1>1, <1>2 DEF TelegramInv, TelegramTypes
<1>4. NextUpdate' = confirmed
  BY <1>1, <1>2 DEF NextUpdate
<1>5. PageFollows'
  <2>1. confirmed <= update_id + 1
    BY <1>2 DEF TelegramInv, PageFollows
  <2>2. 1..Len(updates') = {}
    BY <1>1
  <2> QED BY <1>1, <1>2, <1>4, <2>1, <2>2 DEF PageFollows
<1>6. AllTaken'
  <2>1. \A id \in 1..(confirmed - 1) : id \in 1..(NextUpdate - 1)
    BY <1>2
  <2> QED BY <1>1, <1>4, <2>1 DEF TelegramInv, AllTaken, RelayedUpdate
<1>7. RelayedBefore'
  <2> SUFFICES ASSUME NEW i \in 1..Len(relayed)
               PROVE  /\ relayed[i].id < confirmed + UpdatePage /\ relayed[i].run <= run + 1
                      /\ relayed[i].run # run + 1
    BY <1>1 DEF RelayedBefore
  <2>1. relayed[i].run \in Nat
    BY RelayedTyped DEF TelegramInv
  <2> QED BY <1>2, <2>1 DEF TelegramInv, RelayedBefore
<1>8. UpdatesInOrder'
  BY <1>1 DEF TelegramInv, UpdatesInOrder
<1> QED BY <1>3, <1>5, <1>6, <1>7, <1>8 DEF TelegramInv

LEMMA NextTelegram == TelegramInv /\ [TelegramNext]_telegram_vars => TelegramInv'
<1> SUFFICES ASSUME TelegramInv, [TelegramNext]_telegram_vars PROVE TelegramInv'
  OBVIOUS
<1>1. CASE UpdateArrives
  <2>1. /\ update_id' = update_id + 1 /\ update_id \in Nat
        /\ UNCHANGED <<confirmed, run, offset, updates, relayed, passed_over>>
    BY <1>1 DEF UpdateArrives, TelegramInv, TelegramTypes
  <2>2. NextUpdate' = NextUpdate /\ NextUpdate \in Nat /\ Len(updates) \in Nat
    BY <2>1, NextUpdateIs DEF NextUpdate, TelegramInv
  <2>3. PageFollows'
    BY <2>1, <2>2 DEF TelegramInv, PageFollows
  <2> QED BY <2>1, <2>2, <2>3 DEF TelegramInv, TelegramTypes, AllTaken, RelayedUpdate, RelayedBefore,
          UpdatesInOrder
<1>2. CASE SocketCloses \/ UNCHANGED telegram_vars
  <2>1. UNCHANGED <<update_id, confirmed, run, offset, updates, relayed, passed_over>>
    BY <1>2 DEF SocketCloses, telegram_vars
  <2>2. TelegramTypes' /\ PageFollows'
    BY <2>1 DEF TelegramInv, TelegramTypes, PageFollows, NextUpdate
  <2>3. AllTaken' /\ RelayedBefore' /\ UpdatesInOrder'
    BY <2>1 DEF TelegramInv, NextUpdate, AllTaken, RelayedUpdate, RelayedBefore, UpdatesInOrder
  <2> QED BY <2>2, <2>3 DEF TelegramInv
<1> QED BY <1>1, <1>2, GetKeeps, TakeUpdateKeeps, BridgeRestartsKeeps DEF TelegramNext

(* Updates reach the gateway in order and, within a run of live_poll.py,   *)
(* once; a restart repeats no more than the page that was not confirmed;   *)
(* and none before the offset is missing but those the loop passes over.   *)
THEOREM TelegramKeepsOrder == TelegramSpec => []UpdatesInOrder
<1>1. TelegramInv => UpdatesInOrder
  BY DEF TelegramInv
<1> QED BY <1>1, InitTelegram, NextTelegram, PTL DEF TelegramSpec

(* What was relayed or passed over.                                        *)
SettledUpdates == passed_over \union {relayed[i].id : i \in 1..Len(relayed)}

LEMMA UpdatesSettle ==
  ASSUME TelegramInv, UNCHANGED confirmed, passed_over \subseteq passed_over',
         \/ relayed' = relayed
         \/ \E sent \in RelayRecords : relayed' = Append(relayed, sent)
  PROVE  TelegramAtLeastOnce!Next
<1>1. relayed \in Seq(RelayRecords) /\ Len(relayed) \in Nat
  BY DEF TelegramInv, TelegramTypes
<1>2. \A i \in 1..Len(relayed) : i \in 1..Len(relayed') /\ relayed'[i] = relayed[i]
  <2>1. CASE relayed' = relayed
    BY <2>1
  <2>2. ASSUME NEW sent \in RelayRecords, relayed' = Append(relayed, sent)
        PROVE  \A i \in 1..Len(relayed) : i \in 1..Len(relayed') /\ relayed'[i] = relayed[i]
    <3>1. /\ Len(Append(relayed, sent)) = Len(relayed) + 1
          /\ \A i \in 1..Len(relayed) : Append(relayed, sent)[i] = relayed[i]
      BY <1>1, Appended
    <3> QED BY <1>1, <2>2, <3>1
  <2> QED BY <2>1, <2>2
<1>3. SettledUpdates \subseteq SettledUpdates'
  <2> SUFFICES ASSUME NEW id \in SettledUpdates PROVE id \in SettledUpdates'
    OBVIOUS
  <2>1. CASE id \in passed_over
    BY <2>1 DEF SettledUpdates
  <2>2. CASE id \notin passed_over
    <3>1. PICK i \in 1..Len(relayed) : id = relayed[i].id
      BY <2>2 DEF SettledUpdates
    <3>2. i \in 1..Len(relayed') /\ relayed'[i].id = id
      BY <1>2, <3>1
    <3> QED BY <3>2 DEF SettledUpdates
  <2> QED BY <2>1, <2>2
<1> QED BY <1>3 DEF SettledUpdates, TelegramAtLeastOnce!Next, TelegramAtLeastOnce!Settle

LEMMA GetForgets ==
  ASSUME TelegramInv, NEW lost \in BOOLEAN, GetUpdates(lost)
  PROVE  TelegramAtLeastOnce!Next
<1>1. confirmed' = NextUpdate /\ UNCHANGED <<relayed, passed_over>>
  BY DEF GetUpdates, NextUpdate
<1>2. NextUpdate \in Nat /\ confirmed \in Nat /\ NextUpdate >= confirmed
  BY NextUpdateIs DEF TelegramInv, TelegramTypes
<1>3. 1..(confirmed - 1) \subseteq 1..(confirmed' - 1)
  BY <1>1, <1>2
<1>4. 1..(confirmed' - 1) \subseteq SettledUpdates
  <2> SUFFICES ASSUME NEW id \in 1..(NextUpdate - 1) PROVE id \in SettledUpdates
    BY <1>1
  <2>1. id \in passed_over \/ \E i \in 1..Len(relayed) : relayed[i].id = id
    BY DEF TelegramInv, AllTaken, RelayedUpdate
  <2> QED BY <2>1 DEF SettledUpdates
<1>5. (1..(confirmed' - 1)) \ (1..(confirmed - 1)) \subseteq SettledUpdates
  BY <1>4
<1>6. UNCHANGED SettledUpdates
  BY <1>1 DEF SettledUpdates
<1> QED BY <1>3, <1>5, <1>6 DEF SettledUpdates, TelegramAtLeastOnce!Next, TelegramAtLeastOnce!Forget

(* Telegram is told to forget an update only when live_poll.py has relayed *)
(* it or passed it over, over lost answers, rounds cut short and restarts. *)
THEOREM TelegramIsAtLeastOnce == TelegramSpec => TelegramImplementsAtLeastOnce
<1> DEFINE views == <<passed_over \union {relayed[i].id : i \in 1..Len(relayed)},
                      1..(confirmed - 1)>>
<1>1. TelegramInit => TelegramAtLeastOnce!Init
  <2> SUFFICES ASSUME TelegramInit PROVE TelegramAtLeastOnce!Init
    OBVIOUS
  <2>1. passed_over = {} /\ 1..Len(relayed) = {} /\ 1..(confirmed - 1) = {}
    BY DEF TelegramInit
  <2> QED BY <2>1 DEF TelegramAtLeastOnce!Init
<1>2. ASSUME TelegramInv, [TelegramNext]_telegram_vars
      PROVE  TelegramAtLeastOnce!Next
  <2>1. CASE UpdateArrives \/ SocketCloses \/ BridgeRestarts \/ UNCHANGED telegram_vars
    <3>1. UNCHANGED <<confirmed, relayed, passed_over>>
      BY <2>1 DEF UpdateArrives, SocketCloses, BridgeRestarts, telegram_vars
    <3> QED BY <1>2, <3>1, UpdatesSettle
  <2>2. ASSUME NEW lost \in BOOLEAN, GetUpdates(lost) PROVE TelegramAtLeastOnce!Next
    BY <1>2, <2>2, GetForgets
  <2>3. ASSUME NEW sender \in BOOLEAN, NEW relays \in BOOLEAN, TakeUpdate(sender, relays)
        PROVE  TelegramAtLeastOnce!Next
    <3>1. PICK id : id = Head(updates)
      OBVIOUS
    <3>2. updates # << >> /\ UNCHANGED confirmed /\ passed_over \subseteq passed_over'
      BY <2>3 DEF TakeUpdate
    <3>3. id \in Nat /\ run \in Nat
      BY <1>2, <3>1, <3>2, HeadUpdate, NextUpdateIs DEF TelegramInv, TelegramTypes
    <3>4. [id |-> id, run |-> run] \in RelayRecords
      BY <3>3 DEF RelayRecords
    <3>5. relayed' = relayed \/ relayed' = Append(relayed, [id |-> id, run |-> run])
      BY <2>3, <3>1 DEF TakeUpdate
    <3> QED BY <1>2, <3>2, <3>4, <3>5, UpdatesSettle
  <2>4. ASSUME NEW sender \in BOOLEAN, UpdateRaises(sender) PROVE TelegramAtLeastOnce!Next
    <3>1. UNCHANGED <<confirmed, relayed>> /\ passed_over \subseteq passed_over'
      BY <2>4 DEF UpdateRaises
    <3> QED BY <1>2, <3>1, UpdatesSettle
  <2>5. TRUE \in BOOLEAN /\ FALSE \in BOOLEAN
    OBVIOUS
  <2> QED BY <1>2, <2>1, <2>2, <2>3, <2>4, <2>5 DEF TelegramNext
<1>3. TelegramInv /\ [TelegramNext]_telegram_vars => [TelegramAtLeastOnce!Next]_views
  BY <1>2
<1> QED BY <1>1, <1>3, InitTelegram, NextTelegram, PTL
        DEF TelegramSpec, TelegramImplementsAtLeastOnce, TelegramAtLeastOnce!Spec

(* live_poll.py: updates in order and none skipped, in each state; and none*)
(* forgotten by Telegram that was not settled, in each step.               *)
THEOREM TelegramKeepsPromise == TelegramSpec => TelegramPromiseKept
<1>1. TelegramInv => TelegramTypes
  BY DEF TelegramInv
<1> QED BY <1>1, InitTelegram, NextTelegram, TelegramKeepsOrder, TelegramIsAtLeastOnce, PTL
        DEF TelegramSpec, TelegramPromiseKept
HIDE TelegramAssumption

-------------------------------------------------------------------------------
(***************************************************************************)
(* VoiceStreams: the media streams of overlapping calls, for any streams,  *)
(* callers and cap of the buffer.                                          *)
(*                                                                         *)
(* What was said in a stream is partitioned between its buffer, the chunks *)
(* with speech-to-text and the messages (Partitioned); its caller is       *)
(* registered from the start frame to the last flush (CallerFollows).      *)
(***************************************************************************)
VoiceCallers == Phones \union {NoPhone}
HeardChunks == [stream : VoiceStreamIds, chunks : SUBSET Nat, caller : VoiceCallers, evicts : BOOLEAN]
SpokenMessage == [stream : VoiceStreamIds, chunks : SUBSET Nat, caller : VoiceCallers]

VoiceTypes ==
  /\ stream_callers \in [VoiceStreamIds -> VoiceCallers] /\ dialled \in [VoiceStreamIds -> VoiceCallers]
  /\ stream_buffers \in [VoiceStreamIds -> SUBSET Nat] /\ spoken \in [VoiceStreamIds -> Nat]
  /\ line \in [VoiceStreamIds -> {"new", "open", "over"}] /\ stopped \subseteq VoiceStreamIds
  /\ hearing \subseteq HeardChunks /\ voice_messages \subseteq SpokenMessage

(* What of stream s left the buffer.                                       *)
Heard(s) == {x \in hearing : x.stream = s}
Said(s) == {x \in voice_messages : x.stream = s}
Taken(s) == {x.chunks : x \in Heard(s)} \union {x.chunks : x \in Said(s)}

NamedRight(s) == \A x \in Heard(s) \union Said(s) : x.caller = dialled[s]

Partitioned(s) ==
  /\ stream_buffers[s] \union UNION Taken(s) = 1..spoken[s]
  /\ \A a \in Taken(s) : a \intersect stream_buffers[s] = {}
  /\ \A a, b \in Taken(s) : a # b => a \intersect b = {}

(* The caller is registered while frames come, and goes after the last     *)
(* flush; nothing comes before the start.                                  *)
CallerFollows(s) ==
  /\ line[s] = "new" => Heard(s) = {} /\ Said(s) = {} /\ s \notin stopped
  /\ line[s] = "open" => stream_callers[s] = dialled[s] /\ s \notin stopped
  /\ \A h \in Heard(s) : h.evicts => line[s] # "open"
  /\ s \in stopped =>
       /\ stream_buffers[s] = {}
       /\ stream_callers[s] = NoPhone \/ \E h \in Heard(s) : h.evicts

StreamSound(s) ==
  /\ NamedRight(s) /\ Partitioned(s) /\ CallerFollows(s)
  /\ Cardinality(stream_buffers[s]) < MaxBufferChunks

VoiceInv == VoiceTypes /\ \A s \in VoiceStreamIds : StreamSound(s)
USE VoiceAssumption

LEMMA InitVoice == VoiceInit => VoiceInv
<1> SUFFICES ASSUME VoiceInit PROVE VoiceInv
  OBVIOUS
<1> USE DEF VoiceInit
<1>1. VoiceTypes
  BY DEF VoiceTypes, VoiceCallers
<1>2. ASSUME NEW s \in VoiceStreamIds PROVE StreamSound(s)
  <2>1. Heard(s) = {} /\ Said(s) = {} /\ Taken(s) = {}
    BY DEF Heard, Said, Taken
  <2>2. NamedRight(s) /\ CallerFollows(s)
    BY <2>1 DEF NamedRight, CallerFollows
  <2>3. Partitioned(s)
    <3>1. stream_buffers[s] = {} /\ spoken[s] = 0 /\ 1..0 = {}
      OBVIOUS
    <3> QED BY <2>1, <3>1 DEF Partitioned
  <2>4. Cardinality(stream_buffers[s]) = 0
    BY FS_EmptySet
  <2> QED BY <2>2, <2>3, <2>4 DEF StreamSound
<1> QED BY <1>1, <1>2 DEF VoiceInv

(* A step that has nothing to do with stream s.                            *)
LEMMA OtherStream ==
  ASSUME NEW s \in VoiceStreamIds, StreamSound(s),
         Heard(s)' = Heard(s), Said(s)' = Said(s), s \in stopped' <=> s \in stopped,
         stream_callers'[s] = stream_callers[s], stream_buffers'[s] = stream_buffers[s],
         line'[s] = line[s], spoken'[s] = spoken[s], dialled'[s] = dialled[s]
  PROVE  StreamSound(s)'
<1>1. Taken(s)' = Taken(s)
  BY DEF Taken
<1>2. NamedRight(s)' /\ Partitioned(s)'
  BY <1>1 DEF StreamSound, NamedRight, Partitioned
<1>3. CallerFollows(s)'
  BY DEF StreamSound, CallerFollows
<1> QED BY <1>2, <1>3 DEF StreamSound

LEMMA StreamStartsKeeps ==
  ASSUME VoiceInv, NEW s \in VoiceStreamIds, NEW caller \in VoiceCallers, StreamStarts(s, caller)
  PROVE  VoiceInv'
<1>1. /\ stream_callers' = [stream_callers EXCEPT ![s] = caller]
      /\ dialled' = [dialled EXCEPT ![s] = caller]
      /\ UNCHANGED <<stream_buffers, hearing, voice_messages, spoken, stopped>>
  BY DEF StreamStarts
<1>2. line[s] = "new" /\ line' = [line EXCEPT ![s] = "open"]
  BY DEF StreamStarts
<1>3. VoiceTypes'
  BY <1>1, <1>2 DEF VoiceInv, VoiceTypes
<1>4. \A u \in VoiceStreamIds : Heard(u)' = Heard(u) /\ Said(u)' = Said(u) /\ Taken(u)' = Taken(u)
  BY <1>1 DEF Heard, Said, Taken
<1>5. ASSUME NEW u \in VoiceStreamIds, u # s PROVE StreamSound(u)'
  BY <1>1, <1>2, <1>4, <1>5, OtherStream DEF VoiceInv, VoiceTypes
<1>6. StreamSound(s)'
  <2>1. Heard(s) = {} /\ Said(s) = {} /\ s \notin stopped
    BY <1>2 DEF VoiceInv, StreamSound, CallerFollows
  <2>2. stream_callers'[s] = caller /\ dialled'[s] = caller /\ line'[s] = "open"
    BY <1>1, <1>2 DEF VoiceInv, VoiceTypes
  <2>3. NamedRight(s)' /\ CallerFollows(s)'
    BY <1>1, <1>4, <2>1, <2>2 DEF NamedRight, CallerFollows
  <2>4. Partitioned(s)'
    BY <1>1, <1>4 DEF VoiceInv, StreamSound, Partitioned
  <2> QED BY <1>1, <2>3, <2>4 DEF VoiceInv, StreamSound
<1> QED BY <1>3, <1>5, <1>6 DEF VoiceInv

(* The chunks of a stream, as numbers.                                     *)
LEMMA ChunksAreNumbers ==
  ASSUME VoiceInv, NEW s \in VoiceStreamIds
  PROVE  /\ spoken[s] \in Nat /\ stream_buffers[s] \subseteq 1..spoken[s]
         /\ IsFiniteSet(stream_buffers[s]) /\ Cardinality(stream_buffers[s]) \in Nat
         /\ \A a \in Taken(s) : a \subseteq 1..spoken[s]
<1>1. spoken[s] \in Nat
  BY DEF VoiceInv, VoiceTypes
<1>2. stream_buffers[s] \union UNION Taken(s) = 1..spoken[s]
  BY DEF VoiceInv, StreamSound, Partitioned
<1>3. IsFiniteSet(1..spoken[s])
  BY <1>1, FS_Interval
<1>4. stream_buffers[s] \subseteq 1..spoken[s] /\ \A a \in Taken(s) : a \subseteq 1..spoken[s]
  BY <1>2
<1>5. IsFiniteSet(stream_buffers[s])
  BY <1>3, <1>4, FS_Subset
<1> QED BY <1>1, <1>4, <1>5, FS_CardinalityType

(* What a call of speech-to-text takes from the buffer and the new chunks. *)
LEMMA HearsKeeps ==
  ASSUME VoiceInv, NEW s \in VoiceStreamIds, NEW h, h.stream = s, h.caller = dialled[s],
         UNCHANGED <<voice_messages, dialled>>, hearing' = hearing \union {h},
         NEW new, new \intersect 1..spoken[s] = {}, 1..spoken'[s] = 1..spoken[s] \union new,
         stream_buffers'[s] \union h.chunks = stream_buffers[s] \union new,
         stream_buffers'[s] \intersect h.chunks = {}
  PROVE  /\ NamedRight(s)' /\ Partitioned(s)' /\ Said(s)' = Said(s)
         /\ Heard(s)' = Heard(s) \union {h}
<1>1. Said(s)' = Said(s) /\ Heard(s)' = Heard(s) \union {h}
  BY DEF Said, Heard
<1>2. Taken(s)' = Taken(s) \union {h.chunks}
  BY <1>1 DEF Taken
<1>3. NamedRight(s)'
  BY <1>1 DEF VoiceInv, StreamSound, NamedRight
<1>4. Partitioned(s) /\ \A a \in Taken(s) : a \subseteq 1..spoken[s]
  BY ChunksAreNumbers DEF VoiceInv, StreamSound
<1>5. stream_buffers'[s] \union UNION (Taken(s)') = 1..spoken'[s]
  <2>1. UNION (Taken(s) \union {h.chunks}) = (UNION Taken(s)) \union h.chunks
    OBVIOUS
  <2>2. UNION (Taken(s)') = (UNION Taken(s)) \union h.chunks
    BY <1>2, <2>1
  <2> QED BY <1>4, <2>2 DEF Partitioned
<1>6. ASSUME NEW a \in Taken(s)
      PROVE  a \intersect stream_buffers'[s] = {} /\ a \intersect h.chunks = {}
  <2>1. a \intersect stream_buffers[s] = {} /\ a \intersect new = {}
    BY <1>4 DEF Partitioned
  <2> QED BY <2>1
<1>7. Partitioned(s)'
  <2>1. \A a \in Taken(s)' : a \intersect stream_buffers'[s] = {}
    BY <1>2, <1>6
  <2>2. \A a, b \in Taken(s)' : a # b => a \intersect b = {}
    BY <1>2, <1>4, <1>6 DEF Partitioned
  <2> QED BY <1>5, <2>1, <2>2 DEF Partitioned
<1> QED BY <1>1, <1>3, <1>7

LEMMA StreamMediaKeeps == ASSUME VoiceInv, NEW s \in VoiceStreamIds, MediaArrives(s) PROVE VoiceInv'
<1> DEFINE chunk == spoken[s] + 1
           buffered == stream_buffers[s] \union {chunk}
           heard_now == IF ~buffer_audio THEN {chunk}
                        ELSE IF Cardinality(buffered) >= MaxBufferChunks THEN buffered ELSE {}
           h == Hears(s, heard_now, FALSE)
<1>1. /\ line[s] = "open"
      /\ UNCHANGED <<stream_callers, voice_messages, line, dialled, stopped>>
  BY DEF MediaArrives
<1>2. /\ spoken' = [spoken EXCEPT ![s] = chunk]
      /\ stream_buffers' = [stream_buffers EXCEPT ![s] = buffered \ heard_now]
      /\ hearing' = IF heard_now = {} THEN hearing ELSE hearing \union {h}
  BY DEF MediaArrives
<1>3. /\ spoken[s] \in Nat /\ chunk \in Nat /\ stream_buffers[s] \subseteq 1..spoken[s]
      /\ IsFiniteSet(stream_buffers[s]) /\ chunk \notin stream_buffers[s]
      /\ \A a \in Taken(s) : a \subseteq 1..spoken[s]
  BY ChunksAreNumbers
<1>4. 1..chunk = 1..spoken[s] \union {chunk} /\ {chunk} \intersect 1..spoken[s] = {}
  BY <1>3
<1>5. heard_now \subseteq buffered /\ buffered \subseteq Nat
  BY <1>3
<1>6. Cardinality(buffered \ heard_now) < MaxBufferChunks
  <2>1. Cardinality(stream_buffers[s]) < MaxBufferChunks
    BY DEF VoiceInv, StreamSound
  <2>2. Cardinality(buffered) \in Nat
    BY <1>3, FS_AddElement, FS_CardinalityType
  <2>3. CASE ~buffer_audio
    <3>1. buffered \ heard_now = stream_buffers[s]
      BY <1>3, <2>3
    <3> QED BY <2>1, <3>1
  <2>4. CASE buffer_audio /\ Cardinality(buffered) >= MaxBufferChunks
    <3>1. buffered \ heard_now = {}
      BY <2>4
    <3>2. Cardinality({}) = 0 /\ 0 < MaxBufferChunks
      BY FS_EmptySet
    <3> QED BY <3>1, <3>2
  <2>5. CASE buffer_audio /\ ~(Cardinality(buffered) >= MaxBufferChunks)
    <3>1. buffered \ heard_now = buffered
      BY <2>5
    <3> QED BY <2>2, <2>5, <3>1
  <2> QED BY <2>3, <2>4, <2>5
<1> HIDE DEF heard_now
<1>7. /\ h.stream = s /\ h.caller = stream_callers[s] /\ h.chunks = heard_now /\ h.evicts = FALSE
      /\ h \in HeardChunks
  BY <1>5 DEF Hears, HeardChunks, VoiceInv, VoiceTypes
<1>8. /\ stream_callers[s] = dialled[s] /\ s \notin stopped
      /\ stream_callers'[s] = dialled'[s] /\ s \notin stopped' /\ line'[s] = "open"
  BY <1>1 DEF VoiceInv, StreamSound, CallerFollows
<1> HIDE DEF h
<1>9. /\ spoken'[s] = chunk /\ stream_buffers'[s] = buffered \ heard_now
      /\ \A u \in VoiceStreamIds : u # s =>
           spoken'[u] = spoken[u] /\ stream_buffers'[u] = stream_buffers[u]
  BY <1>2 DEF VoiceInv, VoiceTypes
<1>10. VoiceTypes'
  <2>1. spoken' \in [VoiceStreamIds -> Nat]
    BY <1>2, <1>3 DEF VoiceInv, VoiceTypes
  <2>2. stream_buffers' \in [VoiceStreamIds -> SUBSET Nat]
    BY <1>2, <1>5 DEF VoiceInv, VoiceTypes
  <2>3. hearing' \subseteq HeardChunks
    BY <1>2, <1>7 DEF VoiceInv, VoiceTypes
  <2> QED BY <1>1, <2>1, <2>2, <2>3 DEF VoiceInv, VoiceTypes
<1>11. ASSUME NEW u \in VoiceStreamIds, u # s PROVE StreamSound(u)'
  <2>1. Heard(u)' = Heard(u) /\ Said(u)' = Said(u)
    BY <1>1, <1>2, <1>7, <1>11 DEF Heard, Said
  <2> QED BY <1>1, <1>9, <1>11, <2>1, OtherStream DEF VoiceInv
<1>12. CASE heard_now = {}
  <2>1. hearing' = hearing /\ stream_buffers'[s] = buffered
    BY <1>2, <1>9, <1>12
  <2>2. Heard(s)' = Heard(s) /\ Said(s)' = Said(s) /\ Taken(s)' = Taken(s)
    BY <1>1, <2>1 DEF Heard, Said, Taken
  <2>3. NamedRight(s)' /\ CallerFollows(s)'
    BY <1>1, <1>8, <2>2 DEF VoiceInv, StreamSound, NamedRight, CallerFollows
  <2>4. Partitioned(s)'
    <3>1. /\ stream_buffers[s] \union UNION Taken(s) = 1..spoken[s]
          /\ \A a \in Taken(s) : a \intersect stream_buffers[s] = {}
          /\ \A a, b \in Taken(s) : a # b => a \intersect b = {}
      BY DEF VoiceInv, StreamSound, Partitioned
    <3>2. \A a \in Taken(s) : a \intersect buffered = {}
      BY <1>3, <1>4, <3>1
    <3>3. buffered \union UNION Taken(s) = 1..chunk
      BY <1>4, <3>1
    <3> HIDE DEF buffered, chunk
    <3> QED BY <1>9, <2>1, <2>2, <3>1, <3>2, <3>3 DEF Partitioned
  <2> QED BY <1>6, <1>9, <1>10, <1>11, <2>3, <2>4 DEF VoiceInv, StreamSound
<1>13. CASE heard_now # {}
  <2>1. hearing' = hearing \union {h}
    BY <1>2, <1>13
  <2>2. /\ stream_buffers'[s] \union h.chunks = stream_buffers[s] \union {chunk}
        /\ stream_buffers'[s] \intersect h.chunks = {}
    BY <1>5, <1>7, <1>9
  <2>3. 1..spoken'[s] = 1..spoken[s] \union {chunk}
    BY <1>4, <1>9
  <2>4. /\ NamedRight(s)' /\ Partitioned(s)' /\ Said(s)' = Said(s)
        /\ Heard(s)' = Heard(s) \union {h}
    BY <1>1, <1>4, <1>7, <1>8, <2>1, <2>2, <2>3, HearsKeeps
  <2>5. CallerFollows(s)'
    <3>1. \A x \in Heard(s)' : ~x.evicts
      BY <1>1, <1>7, <2>4 DEF VoiceInv, StreamSound, CallerFollows
    <3> QED BY <1>8, <3>1 DEF CallerFollows
  <2> QED BY <1>6, <1>9, <1>10, <1>11, <2>4, <2>5 DEF VoiceInv, StreamSound
<1> QED BY <1>12, <1>13

LEMMA StreamStopsKeeps == ASSUME VoiceInv, NEW s \in VoiceStreamIds, StreamStops(s) PROVE VoiceInv'
<1> DEFINE h == Hears(s, stream_buffers[s], TRUE)
<1>1. /\ stopped' = stopped \union {s} /\ stream_buffers' = [stream_buffers EXCEPT ![s] = {}]
      /\ UNCHANGED <<voice_messages, spoken, dialled>>
      /\ \/ /\ stream_buffers[s] # {} /\ hearing' = hearing \union {h}
            /\ stream_callers' = stream_callers
         \/ /\ stream_buffers[s] = {} /\ hearing' = hearing
            /\ stream_callers' = [stream_callers EXCEPT ![s] = NoPhone]
  BY DEF StreamStops
<1>2. line[s] = "open" /\ line' = [line EXCEPT ![s] = "over"]
  BY DEF StreamStops
<1>3. /\ h.stream = s /\ h.caller = stream_callers[s] /\ h.chunks = stream_buffers[s]
      /\ h.evicts = TRUE /\ h \in HeardChunks
  BY DEF Hears, HeardChunks, VoiceInv, VoiceTypes
<1> HIDE DEF h
<1>4. stream_callers[s] = dialled[s]
  BY <1>2 DEF VoiceInv, StreamSound, CallerFollows
<1>5. VoiceTypes'
  <2>1. NoPhone \in VoiceCallers
    BY DEF VoiceCallers
  <2>2. stream_callers' \in [VoiceStreamIds -> VoiceCallers]
    BY <1>1, <2>1 DEF VoiceInv, VoiceTypes
  <2>3. stream_buffers' \in [VoiceStreamIds -> SUBSET Nat] /\ hearing' \subseteq HeardChunks
    BY <1>1, <1>3 DEF VoiceInv, VoiceTypes
  <2> QED BY <1>1, <1>2, <2>2, <2>3 DEF VoiceInv, VoiceTypes
<1>6. ASSUME NEW u \in VoiceStreamIds, u # s PROVE StreamSound(u)'
  <2>1. Heard(u)' = Heard(u) /\ Said(u)' = Said(u)
    BY <1>1, <1>3, <1>6 DEF Heard, Said
  <2>2. /\ u \in stopped' <=> u \in stopped
        /\ stream_callers'[u] = stream_callers[u] /\ stream_buffers'[u] = stream_buffers[u]
    BY <1>1, <1>6 DEF VoiceInv, VoiceTypes
  <2>3. line'[u] = line[u]
    BY <1>2, <1>6 DEF VoiceInv, VoiceTypes
  <2> QED BY <1>1, <2>1, <2>2, <2>3, OtherStream DEF VoiceInv
<1>7. stream_buffers'[s] = {}
  BY <1>1 DEF VoiceInv, VoiceTypes
<1>8. line'[s] = "over"
  BY <1>2 DEF VoiceInv, VoiceTypes
<1>9. Cardinality(stream_buffers'[s]) < MaxBufferChunks
  BY <1>7, FS_EmptySet
<1>10. CASE stream_buffers[s] # {}
  <2>1. hearing' = hearing \union {h}
    BY <1>1, <1>10
  <2> DEFINE new == {}
  <2>2. new \intersect 1..spoken[s] = {} /\ 1..spoken'[s] = 1..spoken[s] \union new
    BY <1>1
  <2>3. /\ stream_buffers'[s] \union h.chunks = stream_buffers[s] \union new
        /\ stream_buffers'[s] \intersect h.chunks = {}
    BY <1>3, <1>7
  <2> HIDE DEF new
  <2>4. h.stream = s /\ h.caller = dialled[s] /\ UNCHANGED <<voice_messages, dialled>>
    BY <1>1, <1>3, <1>4
  <2>5. /\ NamedRight(s)' /\ Partitioned(s)' /\ Heard(s)' = Heard(s) \union {h}
    BY <2>1, <2>2, <2>3, <2>4, HearsKeeps
  <2>6. CallerFollows(s)'
    BY <1>3, <1>7, <1>8, <2>5 DEF CallerFollows
  <2> QED BY <1>5, <1>6, <1>9, <2>5, <2>6 DEF VoiceInv, StreamSound
<1>11. CASE stream_buffers[s] = {}
  <2>1. hearing' = hearing
    BY <1>1, <1>11
  <2>2. Heard(s)' = Heard(s) /\ Said(s)' = Said(s) /\ Taken(s)' = Taken(s)
    BY <1>1, <2>1 DEF Heard, Said, Taken
  <2>3. stream_callers'[s] = NoPhone
    BY <1>1, <1>11 DEF VoiceInv, VoiceTypes
  <2>4. CallerFollows(s)'
    BY <1>7, <1>8, <2>3 DEF CallerFollows
  <2>5. NamedRight(s)' /\ Partitioned(s)'
    BY <1>1, <1>7, <1>11, <2>2 DEF VoiceInv, StreamSound, NamedRight, Partitioned
  <2> QED BY <1>5, <1>6, <1>9, <2>4, <2>5 DEF VoiceInv, StreamSound
<1> QED BY <1>10, <1>11

LEMMA StreamBreaksKeeps == ASSUME VoiceInv, NEW s \in VoiceStreamIds, StreamBreaks(s) PROVE VoiceInv'
<1>1. UNCHANGED <<stream_callers, stream_buffers, hearing, voice_messages, spoken, dialled, stopped>>
  BY DEF StreamBreaks
<1>2. line[s] = "open" /\ line' = [line EXCEPT ![s] = "over"]
  BY DEF StreamBreaks
<1>3. VoiceTypes'
  BY <1>1, <1>2 DEF VoiceInv, VoiceTypes
<1>4. \A u \in VoiceStreamIds : Heard(u)' = Heard(u) /\ Said(u)' = Said(u) /\ Taken(u)' = Taken(u)
  BY <1>1 DEF Heard, Said, Taken
<1>5. ASSUME NEW u \in VoiceStreamIds, u # s PROVE StreamSound(u)'
  BY <1>1, <1>2, <1>4, <1>5, OtherStream DEF VoiceInv, VoiceTypes
<1>6. StreamSound(s)'
  <2>1. line'[s] = "over"
    BY <1>2 DEF VoiceInv, VoiceTypes
  <2>2. CallerFollows(s)'
    BY <1>1, <1>2, <1>4, <2>1 DEF VoiceInv, StreamSound, CallerFollows
  <2>3. NamedRight(s)' /\ Partitioned(s)'
    BY <1>1, <1>4 DEF VoiceInv, StreamSound, NamedRight, Partitioned
  <2> QED BY <1>1, <2>2, <2>3 DEF VoiceInv, StreamSound
<1> QED BY <1>3, <1>5, <1>6 DEF VoiceInv

LEMMA ReadyKeeps == ASSUME VoiceInv, NEW h \in hearing, TranscriptReady(h) PROVE VoiceInv'
<1> DEFINE m == [stream |-> h.stream, chunks |-> h.chunks, caller |-> h.caller]
<1>1. /\ hearing' = hearing \ {h} /\ voice_messages' = voice_messages \union {m}
      /\ UNCHANGED <<stream_buffers, line, spoken, dialled, stopped>>
      /\ stream_callers' = IF h.evicts THEN [stream_callers EXCEPT ![h.stream] = NoPhone]
                           ELSE stream_callers
  BY DEF TranscriptReady, AttributedTo
<1>2. PICK s \in VoiceStreamIds : s = h.stream
  BY DEF VoiceInv, VoiceTypes, HeardChunks
<1>3. m.stream = s /\ m.chunks = h.chunks /\ m.caller = h.caller /\ m \in SpokenMessage
  BY <1>2 DEF VoiceInv, VoiceTypes, HeardChunks, SpokenMessage
<1> HIDE DEF m
<1>4. VoiceTypes'
  <2>1. NoPhone \in VoiceCallers
    BY DEF VoiceCallers
  <2>2. stream_callers' \in [VoiceStreamIds -> VoiceCallers]
    BY <1>1, <1>2, <2>1 DEF VoiceInv, VoiceTypes
  <2> QED BY <1>1, <1>3, <2>2 DEF VoiceInv, VoiceTypes
<1>5. ASSUME NEW u \in VoiceStreamIds, u # s PROVE StreamSound(u)'
  <2>1. Heard(u)' = Heard(u) /\ Said(u)' = Said(u)
    BY <1>1, <1>2, <1>3, <1>5 DEF Heard, Said
  <2>2. stream_callers'[u] = stream_callers[u]
    BY <1>1, <1>2, <1>5 DEF VoiceInv, VoiceTypes
  <2> QED BY <1>1, <2>1, <2>2, OtherStream DEF VoiceInv
<1>6. h \in Heard(s) /\ Heard(s)' = Heard(s) \ {h} /\ Said(s)' = Said(s) \union {m}
  BY <1>1, <1>2, <1>3 DEF Heard, Said
<1>7. Taken(s)' = Taken(s)
  BY <1>3, <1>6 DEF Taken
<1>8. NamedRight(s)'
  BY <1>1, <1>3, <1>6 DEF VoiceInv, StreamSound, NamedRight
<1>9. Partitioned(s)'
  BY <1>1, <1>7 DEF VoiceInv, StreamSound, Partitioned
<1>10. CallerFollows(s)'
  <2>1. line[s] # "new" /\ line' = line
    BY <1>1, <1>6 DEF VoiceInv, StreamSound, CallerFollows
  <2>2. CASE h.evicts
    <3>1. stream_callers'[s] = NoPhone
      BY <1>1, <1>2, <2>2 DEF VoiceInv, VoiceTypes
    <3>2. line[s] # "open"
      BY <1>6, <2>2 DEF VoiceInv, StreamSound, CallerFollows
    <3> QED BY <1>1, <1>6, <2>1, <3>1, <3>2 DEF VoiceInv, StreamSound, CallerFollows
  <2>3. CASE ~h.evicts
    <3>1. stream_callers' = stream_callers
      BY <1>1, <2>3
    <3> QED BY <1>1, <1>6, <2>1, <2>3, <3>1 DEF VoiceInv, StreamSound, CallerFollows
  <2> QED BY <2>2, <2>3
<1> QED BY <1>1, <1>4, <1>5, <1>8, <1>9, <1>10 DEF VoiceInv, StreamSound

LEMMA NextVoice == VoiceInv /\ [VoiceNext]_voice_vars => VoiceInv'
<1> SUFFICES ASSUME VoiceInv, [VoiceNext]_voice_vars PROVE VoiceInv'
  OBVIOUS
<1>1. CASE UNCHANGED voice_vars
  <2>1. VoiceTypes'
    BY <1>1 DEF voice_vars, VoiceInv, VoiceTypes
  <2>2. \A s \in VoiceStreamIds : StreamSound(s)'
    BY <1>1, OtherStream DEF voice_vars, VoiceInv, Heard, Said
  <2> QED BY <2>1, <2>2 DEF VoiceInv
<1> QED BY <1>1, StreamStartsKeeps, StreamMediaKeeps, StreamStopsKeeps, StreamBreaksKeeps, ReadyKeeps DEF VoiceNext, VoiceCallers

(* What is said in a stream goes to the gateway under the caller its start *)
(* frame named, each chunk once, whatever other streams of the Twilio      *)
(* adapter begin, stop or break meanwhile and however late a transcript    *)
(* comes.                                                                  *)
THEOREM VoiceGoesUnderItsName == VoiceSpec => []VoiceAttributed
<1>1. ASSUME VoiceInv PROVE VoiceAttributed
  <2>1. \A x \in hearing \union voice_messages : x.stream \in VoiceStreamIds
    BY <1>1 DEF VoiceInv, VoiceTypes, HeardChunks, SpokenMessage
  <2>2. \A x \in hearing \union voice_messages : x.caller = dialled[x.stream]
    BY <1>1, <2>1 DEF VoiceInv, StreamSound, NamedRight, Heard, Said
  <2>3. ASSUME NEW s \in VoiceStreamIds
        PROVE  /\ UNION ChunksOf(s) = 1..spoken[s]
               /\ \A a, b \in ChunksOf(s) : a # b => a \intersect b = {}
               /\ Cardinality(stream_buffers[s]) < MaxBufferChunks
               /\ s \in stopped /\ ~(\E h \in hearing : h.stream = s /\ h.evicts)
                    => stream_callers[s] = NoPhone /\ stream_buffers[s] = {}
    <3>1. ChunksOf(s) = {stream_buffers[s]} \union Taken(s)
      BY DEF ChunksOf, Taken, Heard, Said
    <3>2. Partitioned(s) /\ CallerFollows(s) /\ Cardinality(stream_buffers[s]) < MaxBufferChunks
      BY <1>1 DEF VoiceInv, StreamSound
    <3>3. UNION ChunksOf(s) = 1..spoken[s]
      BY <3>1, <3>2 DEF Partitioned
    <3>4. \A a, b \in ChunksOf(s) : a # b => a \intersect b = {}
      BY <3>1, <3>2 DEF Partitioned
    <3> QED BY <3>2, <3>3, <3>4 DEF CallerFollows, Heard
  <2> QED BY <2>2, <2>3 DEF VoiceAttributed
<1> QED BY <1>1, InitVoice, NextVoice, PTL DEF VoiceSpec
HIDE VoiceAssumption

-------------------------------------------------------------------------------
(***************************************************************************)
(* WebhookDelivery: deliveries that a vendor repeats, for any deliveries,  *)
(* requests and batches.                                                   *)
(*                                                                         *)
(* Each answer and each row has an attempt of its own, counting the        *)
(* requests that may still answer or write one (Counted); and requests     *)
(* settle a batch from its front (FromTheFront).                           *)
(***************************************************************************)
Busy == {t \in HookTasks : hook[t] # NoHook}
AtDelivery(t, d) == hook[t] # NoHook /\ hook[t].delivery = d

(* The requests that may still answer event i of d; those of the gateway   *)
(* that may still write a row, and that may still answer.                  *)
Owing(d, i) == {t \in Busy : AtDelivery(t, d) /\ hook[t].event <= i /\ hook[t].step # "200"}
Beginning(d) == {t \in Busy : AtDelivery(t, d) /\ hook[t].step = "begin"}
SendingHooks(d) == {t \in Busy : AtDelivery(t, d) /\ hook[t].step = "send"}

(* Every reply, and every row, has an attempt of its own.                  *)
Counted(d) ==
  IF route[d] = "gateway"
  THEN /\ answers[d][1] + Cardinality(SendingHooks(d)) <= rows[d]
       /\ rows[d] + Cardinality(Beginning(d)) <= attempts[d]
  ELSE /\ rows[d] = 0
       /\ \A i \in Events(d) : answers[d][i] + Cardinality(Owing(d, i)) <= attempts[d]

(* Requests work from the front.                                           *)
FromTheFront(d) ==
  /\ d \in acked => \A i \in Events(d) : Settled(d, i)
  /\ \A i, j \in Events(d) : i < j /\ Settled(d, j) => Settled(d, i)
  /\ \A t \in HookTasks : AtDelivery(t, d) =>
       /\ hook[t].event \in Events(d)
       /\ \A i \in Events(d) : i < hook[t].event \/ hook[t].step = "200" => Settled(d, i)
       /\ hook[t].step \in {"acknowledge", "agent"} => route[d] # "gateway"

DeliveryInv ==
  /\ DeliveryTypes /\ IsFiniteSet(Busy)
  /\ \A d \in Deliveries : Counted(d) /\ FromTheFront(d)

USE DeliveryAssumption

LEMMA EventsOf ==
  ASSUME DeliveryTypes, NEW d \in Deliveries
  PROVE  /\ 1 \in Events(d) /\ Events(d) \subseteq 1..LineBatch
         /\ \A i \in Events(d) : i \in Nat /\ i >= 1 /\ \A j \in 1..i : j \in Events(d)
         /\ route[d] = "gateway" => \A i \in Events(d) : i = 1
<1>1. CASE route[d] = "line"
  <2>1. Events(d) = 1..LineBatch /\ route[d] # "gateway"
    BY <1>1 DEF Events
  <2> QED BY <2>1
<1>2. CASE route[d] # "line"
  <2>1. Events(d) = 1..1
    BY <1>2 DEF Events
  <2> QED BY <2>1
<1> QED BY <1>1, <1>2

LEMMA InitDelivery == DeliveryInit => DeliveryInv
<1> SUFFICES ASSUME DeliveryInit PROVE DeliveryInv
  OBVIOUS
<1>1. DeliveryTypes
  BY DEF DeliveryInit, DeliveryTypes
<1>2. Busy = {}
  BY DEF DeliveryInit, Busy
<1>3. IsFiniteSet(Busy) /\ Cardinality({}) = 0
  BY <1>2, FS_EmptySet
<1>4. ASSUME NEW d \in Deliveries PROVE Counted(d)
  <2>1. SendingHooks(d) = {} /\ Beginning(d) = {} /\ \A i : Owing(d, i) = {}
    BY <1>2 DEF SendingHooks, Beginning, Owing
  <2>2. rows[d] = 0 /\ attempts[d] = 0 /\ \A i \in Events(d) : answers[d][i] = 0
    BY <1>1, EventsOf DEF DeliveryInit
  <2>3. 1 \in Events(d)
    BY <1>1, EventsOf
  <2> QED BY <1>3, <2>1, <2>2, <2>3 DEF Counted
<1>5. ASSUME NEW d \in Deliveries PROVE FromTheFront(d)
  <2>1. \A i \in Events(d) : ~Settled(d, i)
    BY <1>1, EventsOf DEF DeliveryInit, Settled
  <2>2. \A t \in HookTasks : ~AtDelivery(t, d)
    BY <1>2 DEF AtDelivery, Busy
  <2>3. d \notin acked
    BY DEF DeliveryInit
  <2> QED BY <2>1, <2>2, <2>3 DEF FromTheFront
<1> QED BY <1>1, <1>3, <1>4, <1>5 DEF DeliveryInv

LEMMA DeliveryParts ==
  ASSUME DeliveryInv, NEW d
  PROVE  IsFiniteSet(SendingHooks(d)) /\ IsFiniteSet(Beginning(d)) /\ \A i : IsFiniteSet(Owing(d, i))
<1>1. SendingHooks(d) \subseteq Busy /\ Beginning(d) \subseteq Busy /\ \A i : Owing(d, i) \subseteq Busy
  BY DEF SendingHooks, Beginning, Owing
<1> QED BY <1>1, FS_Subset DEF DeliveryInv

(* The counts of one delivery, when its requests that may write or answer  *)
(* are none that were not there before.                                    *)
LEMMA CountedStill ==
  ASSUME DeliveryInv, NEW d \in Deliveries, IsFiniteSet(Busy)', UNCHANGED route,
         answers'[d] = answers[d], rows'[d] = rows[d], attempts'[d] = attempts[d],
         SendingHooks(d)' \subseteq SendingHooks(d), Beginning(d)' \subseteq Beginning(d),
         \A i \in Events(d) : Owing(d, i)' \subseteq Owing(d, i)
  PROVE  Counted(d)'
<1>1. /\ Counted(d) /\ Events(d)' = Events(d) /\ rows[d] \in Nat /\ attempts[d] \in Nat
      /\ 1 \in Events(d) /\ \A i \in Events(d) : answers[d][i] \in Nat
  <2>1. DeliveryTypes /\ Counted(d)
    BY DEF DeliveryInv
  <2>2. 1 \in Events(d) /\ Events(d) \subseteq 1..LineBatch
    BY <2>1, EventsOf
  <2>3. Events(d)' = Events(d)
    BY DEF Events
  <2>4. rows[d] \in Nat /\ attempts[d] \in Nat /\ answers[d] \in [1..LineBatch -> Nat]
    BY <2>1 DEF DeliveryTypes
  <2>5. \A i \in Events(d) : answers[d][i] \in Nat
    BY <2>2, <2>4
  <2> QED BY <2>1, <2>2, <2>3, <2>4, <2>5
<1>3. /\ IsFiniteSet(SendingHooks(d)) /\ IsFiniteSet(Beginning(d))
      /\ \A i \in Events(d) : IsFiniteSet(Owing(d, i))
  BY DeliveryParts
<1>4. /\ Cardinality(SendingHooks(d)') <= Cardinality(SendingHooks(d))
      /\ Cardinality(SendingHooks(d)') \in Nat /\ Cardinality(SendingHooks(d)) \in Nat
  BY <1>3, Counts
<1>5. /\ Cardinality(Beginning(d)') <= Cardinality(Beginning(d))
      /\ Cardinality(Beginning(d)') \in Nat /\ Cardinality(Beginning(d)) \in Nat
  BY <1>3, Counts
<1>6. \A i \in Events(d) :
        /\ Cardinality(Owing(d, i)') <= Cardinality(Owing(d, i))
        /\ Cardinality(Owing(d, i)') \in Nat /\ Cardinality(Owing(d, i)) \in Nat
  BY <1>3, Counts
<1>7. CASE route[d] = "gateway"
  BY <1>1, <1>4, <1>5, <1>7 DEF Counted
<1>8. CASE route[d] # "gateway"
  BY <1>1, <1>6, <1>8 DEF Counted
<1> QED BY <1>7, <1>8

(* The same for the front.                                                 *)
LEMMA FrontStill ==
  ASSUME DeliveryInv, NEW d \in Deliveries, UNCHANGED route,
         d \in acked' => d \in acked \/ \A i \in Events(d) : Settled(d, i),
         \A i \in Events(d) : Settled(d, i)' <=> Settled(d, i),
         \A u \in HookTasks : AtDelivery(u, d)' =>
           AtDelivery(u, d) /\ hook'[u] = hook[u]
  PROVE  FromTheFront(d)'
<1>1. FromTheFront(d) /\ Events(d)' = Events(d)
  BY DEF DeliveryInv, Events
<1> QED BY <1>1 DEF FromTheFront

(* Request t becomes g; what that means for the other requests.            *)
LEMMA OtherDeliveries ==
  ASSUME DeliveryInv, NEW t \in HookTasks, NEW g \in Hooks \union {NoHook},
         hook' = [hook EXCEPT ![t] = g]
  PROVE  /\ hook' \in [HookTasks -> Hooks \union {NoHook}] /\ hook'[t] = g
         /\ \A u \in HookTasks \ {t} : hook'[u] = hook[u]
         /\ Busy' \subseteq Busy \union {t} /\ IsFiniteSet(Busy)'
<1>1. /\ hook' \in [HookTasks -> Hooks \union {NoHook}] /\ hook'[t] = g
      /\ \A u \in HookTasks \ {t} : hook'[u] = hook[u]
  BY DEF DeliveryInv, DeliveryTypes
<1>2. Busy' \subseteq Busy \union {t}
  BY <1>1 DEF Busy
<1>3. IsFiniteSet(Busy)'
  BY <1>2, Counts DEF DeliveryInv
<1> QED BY <1>1, <1>2, <1>3

(* Request t leaves event i of d, which is settled if t goes on.           *)
GoesOn(d, i, g) ==
  /\ g \in Hooks /\ g.delivery = d
  /\ IF i + 1 \in Events(d) THEN g.event = i + 1 /\ g.step = "begin"
     ELSE g.event = i /\ g.step = "200"

LEMMA HookPassesKeeps ==
  ASSUME DeliveryInv, NEW t \in HookTasks, NEW d \in Deliveries, NEW i,
         AtDelivery(t, d), hook[t].event = i, hook[t].step # "200",
         NEW g, hook' = [hook EXCEPT ![t] = g], g = NoHook \/ (GoesOn(d, i, g) /\ Settled(d, i)'),
         UNCHANGED <<route, attempts, acked, rows>>,
         \/ answers' = answers
         \/ hook[t].step = "send" /\ answers' = [answers EXCEPT ![d][i] = @ + 1],
         dismissed' \in {dismissed, dismissed \union {<<d, i>>}}
  PROVE  DeliveryInv'
<1>1. g \in Hooks \union {NoHook}
  BY DEF GoesOn
<1>2. /\ hook' \in [HookTasks -> Hooks \union {NoHook}] /\ hook'[t] = g
      /\ \A u \in HookTasks \ {t} : hook'[u] = hook[u]
      /\ IsFiniteSet(Busy)' /\ Busy' \subseteq Busy \union {t}
  BY <1>1, OtherDeliveries
<1>3. t \in Busy /\ \A e \in Deliveries : e # d => ~AtDelivery(t, e)
  BY DEF Busy, AtDelivery
<1>4. Events(d)' = Events(d) /\ i \in Events(d) /\ i \in 1..LineBatch /\ i \in Nat
  BY EventsOf DEF DeliveryInv, FromTheFront, Events
<1>0. answers \in [Deliveries -> [1..LineBatch -> Nat]]
  BY DEF DeliveryInv, DeliveryTypes
<1>5. \A e \in Deliveries : AtDelivery(t, e)' => e = d /\ GoesOn(d, i, g)
  BY <1>2 DEF AtDelivery, GoesOn
<1>6. \A e \in Deliveries \ {d} : ~AtDelivery(t, e)' /\ answers'[e] = answers[e]
  BY <1>5 DEF DeliveryInv, DeliveryTypes
<1>7. \A e \in Deliveries : \A j \in Events(e) :
        /\ answers'[e][j] = answers[e][j] \/ (e = d /\ j = i)
        /\ Settled(e, j)' <=> Settled(e, j) \/ (e = d /\ j = i /\ Settled(d, i)')
        /\ Settled(e, j) => Settled(e, j)'
  <2> SUFFICES ASSUME NEW e \in Deliveries, NEW j \in Events(e)
               PROVE  /\ answers'[e][j] = answers[e][j] \/ (e = d /\ j = i)
                      /\ Settled(e, j)' <=> Settled(e, j) \/ (e = d /\ j = i /\ Settled(d, i)')
                      /\ Settled(e, j) => Settled(e, j)'
    OBVIOUS
  <2>1. j \in 1..LineBatch /\ answers[e][j] \in Nat
    <3>1. j \in 1..LineBatch
      BY EventsOf DEF DeliveryInv
    <3> QED BY <1>0, <3>1
  <2>2. answers'[e][j] = answers[e][j] \/ (e = d /\ j = i /\ answers'[e][j] = answers[e][j] + 1)
    <3>1. CASE answers' = answers
      BY <3>1
    <3>2. CASE answers' = [answers EXCEPT ![d][i] = @ + 1]
      BY <1>0, <1>4, <2>1, <3>2
    <3> QED BY <3>1, <3>2
  <2>3. <<e, j>> \in dismissed' <=> <<e, j>> \in dismissed \/ (e = d /\ j = i /\ <<e, j>> \in dismissed')
    OBVIOUS
  <2> QED BY <2>1, <2>2, <2>3 DEF Settled
<1>8. DeliveryTypes'
  <2>1. answers' \in [Deliveries -> [1..LineBatch -> Nat]]
    <3>1. CASE answers' = answers
      BY <1>0, <3>1
    <3>2. CASE answers' = [answers EXCEPT ![d][i] = @ + 1]
      <4>1. answers[d][i] + 1 \in Nat
        BY <1>0, <1>4
      <4> QED BY <1>0, <1>4, <3>2, <4>1
    <3> QED BY <3>1, <3>2
  <2> QED BY <1>2, <2>1 DEF DeliveryInv, DeliveryTypes
<1>9. ASSUME NEW e \in Deliveries \ {d} PROVE Counted(e)' /\ FromTheFront(e)'
  <2>1. \A u \in HookTasks : AtDelivery(u, e)' => AtDelivery(u, e) /\ hook'[u] = hook[u] /\ u \in Busy
    BY <1>2, <1>6, <1>9 DEF AtDelivery, Busy
  <2>2. /\ SendingHooks(e)' \subseteq SendingHooks(e) /\ Beginning(e)' \subseteq Beginning(e)
        /\ \A j \in Events(e) : Owing(e, j)' \subseteq Owing(e, j)
    BY <2>1 DEF SendingHooks, Beginning, Owing, Busy
  <2>3. Counted(e)'
    BY <1>2, <1>6, <1>9, <2>2, CountedStill
  <2>4. FromTheFront(e)'
    BY <1>7, <1>9, <2>1, FrontStill
  <2> QED BY <2>3, <2>4
<1>10. FromTheFront(d)'
  <2>1. /\ FromTheFront(d) /\ \A j \in Events(d) : j < i => Settled(d, j)
        /\ \A j \in Events(d) : j \in Nat
    BY EventsOf DEF DeliveryInv, FromTheFront
  <2>2. d \in acked' => \A j \in Events(d) : Settled(d, j)'
    BY <1>7, <2>1 DEF FromTheFront
  <2>3. \A k, j \in Events(d) : k < j /\ Settled(d, j)' => Settled(d, k)'
    BY <1>7, <2>1 DEF FromTheFront
  <2>4. ASSUME NEW u \in HookTasks \ {t}, AtDelivery(u, d)'
        PROVE  /\ hook'[u].event \in Events(d)
               /\ \A j \in Events(d) : j < hook'[u].event \/ hook'[u].step = "200" => Settled(d, j)'
               /\ hook'[u].step \in {"acknowledge", "agent"} => route[d] # "gateway"
    <3>1. hook'[u] = hook[u] /\ AtDelivery(u, d)
      BY <1>2, <2>4 DEF AtDelivery
    <3> QED BY <1>7, <2>1, <3>1 DEF FromTheFront
  <2>5. ASSUME AtDelivery(t, d)'
        PROVE  /\ hook'[t].event \in Events(d)
               /\ \A j \in Events(d) : j < hook'[t].event \/ hook'[t].step = "200" => Settled(d, j)'
    <3>1. hook'[t] = g /\ GoesOn(d, i, g) /\ Settled(d, i)'
      BY <1>2, <1>5, <2>5 DEF AtDelivery
    <3>2. CASE i + 1 \in Events(d)
      <4>1. g.event = i + 1 /\ g.step # "200"
        BY <3>1, <3>2 DEF GoesOn
      <4>2. \A j \in Events(d) : j < i + 1 => j < i \/ j = i
        BY <1>4, <2>1
      <4> QED BY <1>7, <2>1, <3>1, <3>2, <4>1, <4>2
    <3>3. CASE i + 1 \notin Events(d)
      <4>1. g.event = i
        BY <3>1, <3>3 DEF GoesOn
      <4>2. \A j \in Events(d) : j <= i
        <5>1. \A j \in Events(d) : \A k \in 1..j : k \in Events(d)
          BY EventsOf DEF DeliveryInv
        <5> QED BY <1>4, <2>1, <3>3, <5>1
      <4>3. \A j \in Events(d) : j < i \/ j = i
        BY <1>4, <2>1, <4>2
      <4> QED BY <1>4, <1>7, <2>1, <3>1, <4>1, <4>3
    <3> QED BY <3>2, <3>3
  <2>6. AtDelivery(t, d)' => hook'[t].step \notin {"acknowledge", "agent"}
    BY <1>2, <1>5 DEF GoesOn
  <2>7. \A u \in HookTasks : AtDelivery(u, d)' =>
          /\ hook'[u].event \in Events(d)
          /\ \A j \in Events(d) : j < hook'[u].event \/ hook'[u].step = "200" => Settled(d, j)'
          /\ hook'[u].step \in {"acknowledge", "agent"} => route[d] # "gateway"
    BY <2>4, <2>5, <2>6
  <2> QED BY <1>4, <2>2, <2>3, <2>7 DEF FromTheFront
<1>11. \A u \in HookTasks : AtDelivery(u, d)' /\ u # t => AtDelivery(u, d) /\ hook'[u] = hook[u] /\ u \in Busy
  BY <1>2 DEF AtDelivery, Busy
<1>12. Counted(d)'
  <2>1. CASE route[d] = "gateway"
    <3>1. i = 1 /\ i + 1 \notin Events(d)
      BY <1>4, <2>1, EventsOf DEF DeliveryInv
    <3>2. AtDelivery(t, d)' => hook'[t].step = "200"
      BY <1>2, <1>5, <3>1 DEF GoesOn
    <3>3. SendingHooks(d)' \subseteq SendingHooks(d) \ {t} /\ Beginning(d)' \subseteq Beginning(d)
      BY <1>11, <3>2 DEF SendingHooks, Beginning, Busy
    <3>4. /\ IsFiniteSet(SendingHooks(d)) /\ IsFiniteSet(Beginning(d))
          /\ hook[t].step = "send" => t \in SendingHooks(d)
      BY <1>3, DeliveryParts DEF SendingHooks
    <3>5. /\ Cardinality(Beginning(d)') <= Cardinality(Beginning(d))
          /\ Cardinality(Beginning(d)') \in Nat /\ Cardinality(Beginning(d)) \in Nat
      BY <3>3, <3>4, Counts
    <3>6. /\ Cardinality(SendingHooks(d)') <= Cardinality(SendingHooks(d))
          /\ Cardinality(SendingHooks(d)') \in Nat /\ Cardinality(SendingHooks(d)) \in Nat
          /\ t \in SendingHooks(d) => Cardinality(SendingHooks(d)') + 1 <= Cardinality(SendingHooks(d))
      <4>1. SendingHooks(d)' \subseteq SendingHooks(d)
        BY <3>3
      <4> QED BY <3>3, <3>4, <4>1, Counts
    <3>7. /\ Counted(d) /\ answers[d][1] \in Nat /\ rows[d] \in Nat /\ attempts[d] \in Nat
          /\ answers'[d][1] = answers[d][1] \/ (t \in SendingHooks(d) /\ answers'[d][1] = answers[d][1] + 1)
      BY <1>4, <3>1, <3>4 DEF DeliveryInv, DeliveryTypes
    <3> QED BY <2>1, <3>5, <3>6, <3>7 DEF Counted
  <2>2. CASE route[d] # "gateway"
    <3>1. \A j \in Events(d) : Owing(d, j)' \subseteq Owing(d, j) /\ t \notin Owing(d, i)'
      <4> SUFFICES ASSUME NEW j \in Events(d)
                   PROVE  Owing(d, j)' \subseteq Owing(d, j) /\ t \notin Owing(d, i)'
        OBVIOUS
      <4>1. \A u \in Owing(d, j)' : u # t => u \in Owing(d, j)
        BY <1>11 DEF Owing, Busy
      <4>2. j \in Nat
        BY EventsOf DEF DeliveryInv
      <4>3. \A k \in Events(d) : t \in Owing(d, k)' => i + 1 <= k
        BY <1>2, <1>5 DEF Owing, Busy, GoesOn
      <4>4. t \in Owing(d, j)' => i <= j
        BY <1>4, <4>2, <4>3
      <4>5. i <= j => t \in Owing(d, j)
        BY <1>3 DEF Owing
      <4>6. t \notin Owing(d, i)'
        BY <1>4, <4>3
      <4> QED BY <4>1, <4>4, <4>5, <4>6
    <3>2. \A j \in Events(d) : IsFiniteSet(Owing(d, j))
      BY DeliveryParts
    <3>3. \A j \in Events(d) :
            /\ Cardinality(Owing(d, j)') <= Cardinality(Owing(d, j))
            /\ Cardinality(Owing(d, j)') \in Nat /\ Cardinality(Owing(d, j)) \in Nat
      BY <3>1, <3>2, Counts
    <3>4. Cardinality(Owing(d, i)') + 1 <= Cardinality(Owing(d, i))
      <4>1. t \in Owing(d, i) /\ Owing(d, i)' \subseteq Owing(d, i) \ {t}
        <5>1. t \in Owing(d, i)
          BY <1>3, <1>4 DEF Owing
        <5> QED BY <1>4, <3>1, <5>1
      <4> QED BY <1>4, <3>2, <4>1, Counts
    <3>5. /\ Counted(d) /\ attempts[d] \in Nat /\ \A j \in Events(d) : answers[d][j] \in Nat
          /\ \A j \in Events(d) : answers'[d][j] = answers[d][j] \/ (j = i /\ answers'[d][j] = answers[d][j] + 1)
      <4>1. \A j \in Events(d) : j \in 1..LineBatch
        BY EventsOf DEF DeliveryInv
      <4> QED BY <1>4, <4>1 DEF DeliveryInv, DeliveryTypes
    <3>6. ASSUME NEW j \in Events(d) PROVE answers'[d][j] + Cardinality(Owing(d, j)') <= attempts[d]
      <4>1. answers[d][j] + Cardinality(Owing(d, j)) <= attempts[d]
        BY <2>2, <3>5 DEF Counted
      <4> QED BY <3>3, <3>4, <3>5, <4>1
    <3> QED BY <1>4, <2>2, <3>5, <3>6 DEF Counted
  <2> QED BY <2>1, <2>2
<1>13. \A e \in Deliveries : Counted(e)' /\ FromTheFront(e)'
  BY <1>9, <1>10, <1>12
<1> QED BY <1>2, <1>8, <1>13 DEF DeliveryInv

(* Request t goes on with its event; the gateway's writes the row.         *)
LEMMA HookStaysKeeps ==
  ASSUME DeliveryInv, NEW t \in HookTasks, NEW d \in Deliveries, AtDelivery(t, d),
         hook[t].step # "200",
         NEW g \in Hooks, hook' = [hook EXCEPT ![t] = g], g.delivery = d, g.event = hook[t].event,
         g.step # "200", g.step # "begin",
         g.step \in {"acknowledge", "agent"} => route[d] # "gateway",
         UNCHANGED <<route, attempts, acked, answers, dismissed>>,
         IF route[d] = "gateway" THEN hook[t].step = "begin" /\ rows' = [rows EXCEPT ![d] = @ + 1]
         ELSE rows' = rows
  PROVE  DeliveryInv'
<1>1. /\ hook' \in [HookTasks -> Hooks \union {NoHook}] /\ hook'[t] = g
      /\ \A u \in HookTasks \ {t} : hook'[u] = hook[u]
      /\ IsFiniteSet(Busy)' /\ Busy' \subseteq Busy \union {t}
  BY OtherDeliveries
<1>2. t \in Busy /\ \A e \in Deliveries : e # d => ~AtDelivery(t, e) /\ ~AtDelivery(t, e)'
  BY <1>1 DEF Busy, AtDelivery
<1>3. /\ rows \in [Deliveries -> Nat]
      /\ rows' \in [Deliveries -> Nat] /\ \A e \in Deliveries \ {d} : rows'[e] = rows[e]
      /\ rows'[d] = IF route[d] = "gateway" THEN rows[d] + 1 ELSE rows[d]
  BY DEF DeliveryInv, DeliveryTypes
<1>4. DeliveryTypes'
  BY <1>1, <1>3 DEF DeliveryInv, DeliveryTypes
<1>5. \A e \in Deliveries : \A j \in Events(e) : Settled(e, j)' <=> Settled(e, j)
  BY DEF Settled
<1>6. ASSUME NEW e \in Deliveries \ {d} PROVE Counted(e)' /\ FromTheFront(e)'
  <2>1. \A u \in HookTasks : AtDelivery(u, e)' => AtDelivery(u, e) /\ hook'[u] = hook[u] /\ u \in Busy
    BY <1>1, <1>2, <1>6 DEF AtDelivery, Busy
  <2>2. /\ SendingHooks(e)' \subseteq SendingHooks(e) /\ Beginning(e)' \subseteq Beginning(e)
        /\ \A j \in Events(e) : Owing(e, j)' \subseteq Owing(e, j)
    BY <2>1 DEF SendingHooks, Beginning, Owing, Busy
  <2>3. Counted(e)'
    BY <1>1, <1>3, <1>6, <2>2, CountedStill
  <2>4. FromTheFront(e)'
    BY <1>5, <1>6, <2>1, FrontStill
  <2> QED BY <2>3, <2>4
<1>7. \A u \in HookTasks : AtDelivery(u, d)' /\ u # t => AtDelivery(u, d) /\ hook'[u] = hook[u] /\ u \in Busy
  BY <1>1 DEF AtDelivery, Busy
<1>8. FromTheFront(d)'
  <2>1. FromTheFront(d) /\ Events(d)' = Events(d) /\ \A u \in HookTasks : AtDelivery(u, d)' => AtDelivery(u, d)
    BY <1>7 DEF DeliveryInv, Events
  <2>2. \A u \in HookTasks : AtDelivery(u, d)' =>
          /\ hook'[u].event = hook[u].event
          /\ hook'[u].step = "200" => hook[u].step = "200"
          /\ hook'[u].step \in {"acknowledge", "agent"} => route[d] # "gateway"
    BY <1>1, <1>7, <2>1 DEF FromTheFront
  <2> QED BY <1>5, <2>1, <2>2 DEF FromTheFront
<1>9. Counted(d)'
  <2>1. CASE route[d] = "gateway"
    <3>1. /\ SendingHooks(d)' \subseteq SendingHooks(d) \union {t}
          /\ Beginning(d)' \subseteq Beginning(d) \ {t} /\ t \in Beginning(d)
      <4>1. t \in Beginning(d) /\ t \notin Beginning(d)'
        BY <1>1, <1>2, <2>1 DEF Beginning
      <4> QED BY <1>7, <4>1 DEF SendingHooks, Beginning, Busy
    <3>2. IsFiniteSet(SendingHooks(d)) /\ IsFiniteSet(Beginning(d))
      BY DeliveryParts
    <3>3. /\ Cardinality(Beginning(d)') + 1 <= Cardinality(Beginning(d))
          /\ Cardinality(Beginning(d)') \in Nat /\ Cardinality(Beginning(d)) \in Nat
      <4>1. Beginning(d)' \subseteq Beginning(d)
        BY <3>1
      <4> QED BY <3>1, <3>2, <4>1, Counts
    <3>4. /\ Cardinality(SendingHooks(d)') <= Cardinality(SendingHooks(d)) + 1
          /\ Cardinality(SendingHooks(d)') \in Nat /\ Cardinality(SendingHooks(d)) \in Nat
      <4>1. /\ Cardinality(SendingHooks(d)) \in Nat
            /\ \A S, x : S \subseteq SendingHooks(d) \union {x} =>
                 Cardinality(S) \in Nat /\ Cardinality(S) <= Cardinality(SendingHooks(d)) + 1
        BY <3>2, Counts
      <4> QED BY <3>1, <4>1
    <3>5. /\ Counted(d) /\ answers[d][1] \in Nat /\ rows[d] \in Nat /\ attempts[d] \in Nat
          /\ rows'[d] = rows[d] + 1
      BY <1>3, <2>1 DEF DeliveryInv, DeliveryTypes
    <3>6. /\ answers[d][1] + Cardinality(SendingHooks(d)) <= rows[d]
          /\ rows[d] + Cardinality(Beginning(d)) <= attempts[d]
      BY <2>1, <3>5 DEF Counted
    <3>7. /\ Cardinality(SendingHooks(d)) \in Nat
          /\ answers'[d][1] = answers[d][1] /\ attempts'[d] = attempts[d] /\ route'[d] = "gateway"
      BY <2>1, <3>2, FS_CardinalityType
    <3>8. /\ answers'[d][1] + Cardinality(SendingHooks(d)') <= rows'[d]
          /\ rows'[d] + Cardinality(Beginning(d)') <= attempts'[d]
      BY <3>3, <3>4, <3>5, <3>6, <3>7
    <3> QED BY <3>7, <3>8 DEF Counted
  <2>2. CASE route[d] # "gateway"
    <3>1. \A j \in Events(d) : Owing(d, j)' \subseteq Owing(d, j)
      BY <1>1, <1>2, <1>7 DEF Owing, Busy
    <3>2. \A j \in Events(d) : IsFiniteSet(Owing(d, j))
      BY DeliveryParts
    <3>3. \A j \in Events(d) :
            /\ Cardinality(Owing(d, j)') <= Cardinality(Owing(d, j))
            /\ Cardinality(Owing(d, j)') \in Nat /\ Cardinality(Owing(d, j)) \in Nat
      BY <3>1, <3>2, Counts
    <3>4. /\ Counted(d) /\ attempts[d] \in Nat /\ \A j \in Events(d) : answers[d][j] \in Nat
          /\ Events(d)' = Events(d) /\ rows'[d] = rows[d]
      <4>1. \A j \in Events(d) : j \in 1..LineBatch
        BY EventsOf DEF DeliveryInv
      <4> QED BY <1>3, <2>2, <4>1 DEF DeliveryInv, DeliveryTypes, Events
    <3>5. ASSUME NEW j \in Events(d) PROVE answers[d][j] + Cardinality(Owing(d, j)') <= attempts[d]
      <4>1. answers[d][j] + Cardinality(Owing(d, j)) <= attempts[d]
        BY <2>2, <3>4 DEF Counted
      <4> QED BY <3>3, <3>4, <4>1
    <3>6. rows'[d] = 0
      BY <2>2, <3>4 DEF Counted
    <3> QED BY <2>2, <3>4, <3>5, <3>6 DEF Counted
  <2> QED BY <2>1, <2>2
<1>10. \A e \in Deliveries : Counted(e)' /\ FromTheFront(e)'
  BY <1>6, <1>8, <1>9
<1> QED BY <1>1, <1>4, <1>10 DEF DeliveryInv

LEMMA DeliverKeeps ==
  ASSUME DeliveryInv, NEW t \in HookTasks, NEW d \in Deliveries, Deliver(t, d) PROVE DeliveryInv'
<1> DEFINE g == [step |-> "begin", delivery |-> d, event |-> 1]
<1>1. /\ hook[t] = NoHook /\ hook' = [hook EXCEPT ![t] = g] /\ d \notin acked
      /\ attempts' = [attempts EXCEPT ![d] = @ + 1]
      /\ UNCHANGED <<route, acked, rows, answers, dismissed>>
  BY DEF Deliver
<1>2. g \in Hooks /\ g.delivery = d /\ g.event = 1 /\ g # NoHook
  <2>1. 1 \in 1..LineBatch
    OBVIOUS
  <2>2. g.step # NoHook.step
    BY DEF NoHook
  <2> QED BY <2>1, <2>2 DEF Hooks
<1>3. g.step = "begin"
  OBVIOUS
<1> HIDE DEF g
<1>4. /\ hook' \in [HookTasks -> Hooks \union {NoHook}] /\ hook'[t] = g
      /\ \A u \in HookTasks \ {t} : hook'[u] = hook[u]
      /\ IsFiniteSet(Busy)' /\ Busy' \subseteq Busy \union {t}
  BY <1>1, <1>2, OtherDeliveries
<1>5. \A e \in Deliveries : ~AtDelivery(t, e) /\ (e # d => ~AtDelivery(t, e)')
  BY <1>1, <1>2, <1>4 DEF AtDelivery
<1>6. /\ attempts \in [Deliveries -> Nat] /\ attempts' \in [Deliveries -> Nat]
      /\ attempts'[d] = attempts[d] + 1 /\ \A e \in Deliveries \ {d} : attempts'[e] = attempts[e]
  BY <1>1 DEF DeliveryInv, DeliveryTypes
<1>7. DeliveryTypes'
  BY <1>1, <1>4, <1>6 DEF DeliveryInv, DeliveryTypes
<1>8. \A e \in Deliveries : \A j \in Events(e) : Settled(e, j)' <=> Settled(e, j)
  BY <1>1 DEF Settled
<1>9. ASSUME NEW e \in Deliveries \ {d} PROVE Counted(e)' /\ FromTheFront(e)'
  <2>1. \A u \in HookTasks : AtDelivery(u, e)' => AtDelivery(u, e) /\ hook'[u] = hook[u] /\ u \in Busy
    BY <1>4, <1>5, <1>9 DEF AtDelivery, Busy
  <2>2. /\ SendingHooks(e)' \subseteq SendingHooks(e) /\ Beginning(e)' \subseteq Beginning(e)
        /\ \A j \in Events(e) : Owing(e, j)' \subseteq Owing(e, j)
    BY <2>1 DEF SendingHooks, Beginning, Owing, Busy
  <2>3. Counted(e)'
    BY <1>1, <1>4, <1>6, <1>9, <2>2, CountedStill
  <2>4. FromTheFront(e)'
    BY <1>1, <1>8, <1>9, <2>1, FrontStill
  <2> QED BY <2>3, <2>4
<1>10. \A u \in HookTasks : AtDelivery(u, d)' /\ u # t => AtDelivery(u, d) /\ hook'[u] = hook[u] /\ u \in Busy
  BY <1>4 DEF AtDelivery, Busy
<1>11. /\ FromTheFront(d) /\ Counted(d) /\ Events(d)' = Events(d) /\ 1 \in Events(d)
       /\ \A j \in Events(d) : j \in 1..LineBatch /\ j \in Nat /\ j >= 1
  BY <1>1, EventsOf DEF DeliveryInv, Events
<1>12. FromTheFront(d)'
  <2>1. ASSUME NEW u \in HookTasks, AtDelivery(u, d)'
        PROVE  /\ hook'[u].event \in Events(d)
               /\ \A j \in Events(d) : j < hook'[u].event \/ hook'[u].step = "200" => Settled(d, j)
               /\ hook'[u].step \in {"acknowledge", "agent"} => route[d] # "gateway"
    <3>1. CASE u # t
      BY <1>10, <1>11, <2>1, <3>1 DEF FromTheFront
    <3>2. CASE u = t
      <4>1. hook'[u].step \notin {"200", "acknowledge", "agent"}
        BY <1>3, <1>4, <3>2
      <4>2. hook'[u].event = 1 /\ \A j \in Events(d) : ~(j < 1)
        BY <1>2, <1>4, <1>11, <3>2
      <4> QED BY <1>11, <4>1, <4>2
    <3> QED BY <3>1, <3>2
  <2> QED BY <1>1, <1>8, <1>11, <2>1 DEF FromTheFront
<1>13. Counted(d)'
  <2>1. CASE route[d] = "gateway"
    <3>1. SendingHooks(d)' \subseteq SendingHooks(d) /\ Beginning(d)' \subseteq Beginning(d) \union {t}
      <4>1. t \notin SendingHooks(d)'
        BY <1>3, <1>4 DEF SendingHooks
      <4> QED BY <1>10, <4>1 DEF SendingHooks, Beginning, Busy
    <3>2. IsFiniteSet(SendingHooks(d)) /\ IsFiniteSet(Beginning(d))
      BY DeliveryParts
    <3>3. /\ Cardinality(Beginning(d)') <= Cardinality(Beginning(d)) + 1
          /\ Cardinality(Beginning(d)') \in Nat /\ Cardinality(Beginning(d)) \in Nat
      BY <3>1, <3>2, Counts
    <3>4. /\ Cardinality(SendingHooks(d)') <= Cardinality(SendingHooks(d))
          /\ Cardinality(SendingHooks(d)') \in Nat /\ Cardinality(SendingHooks(d)) \in Nat
      BY <3>1, <3>2, Counts
    <3>5. answers[d][1] \in Nat /\ rows[d] \in Nat /\ attempts[d] \in Nat
      BY <1>11 DEF DeliveryInv, DeliveryTypes
    <3> QED BY <1>1, <1>6, <1>11, <2>1, <3>3, <3>4, <3>5 DEF Counted
  <2>2. CASE route[d] # "gateway"
    <3>1. \A j \in Events(d) : Owing(d, j)' \subseteq Owing(d, j) \union {t}
      BY <1>10 DEF Owing, Busy
    <3>2. \A j \in Events(d) : IsFiniteSet(Owing(d, j))
      BY DeliveryParts
    <3>3. \A j \in Events(d) :
            /\ Cardinality(Owing(d, j)') <= Cardinality(Owing(d, j)) + 1
            /\ Cardinality(Owing(d, j)') \in Nat /\ Cardinality(Owing(d, j)) \in Nat
      BY <3>1, <3>2, Counts
    <3>4. attempts[d] \in Nat /\ \A j \in Events(d) : answers[d][j] \in Nat
      BY <1>11 DEF DeliveryInv, DeliveryTypes
    <3>5. ASSUME NEW j \in Events(d) PROVE answers[d][j] + Cardinality(Owing(d, j)') <= attempts'[d]
      <4>1. answers[d][j] + Cardinality(Owing(d, j)) <= attempts[d]
        BY <1>11, <2>2 DEF Counted
      <4> QED BY <1>6, <3>3, <3>4, <4>1
    <3>6. rows[d] = 0
      BY <1>11, <2>2 DEF Counted
    <3> QED BY <1>1, <1>11, <2>2, <3>5, <3>6 DEF Counted
  <2> QED BY <2>1, <2>2
<1>14. \A e \in Deliveries : Counted(e)' /\ FromTheFront(e)'
  BY <1>9, <1>12, <1>13
<1> QED BY <1>4, <1>7, <1>14 DEF DeliveryInv

(* A request at work, and what leaves it alone.                            *)
LEMMA AtWork ==
  ASSUME DeliveryInv, NEW t \in HookTasks, hook[t].step \notin {"none"}
  PROVE  /\ hook[t] \in Hooks /\ hook[t].delivery \in Deliveries /\ AtDelivery(t, hook[t].delivery)
         /\ hook[t].event \in Events(hook[t].delivery)
<1>1. hook[t] # NoHook /\ hook[t] \in Hooks \union {NoHook}
  BY DEF NoHook, DeliveryInv, DeliveryTypes
<1>2. hook[t] \in Hooks
  BY <1>1
<1>3. hook[t].delivery \in Deliveries
  BY <1>2 DEF Hooks
<1>4. AtDelivery(t, hook[t].delivery)
  BY <1>1 DEF AtDelivery
<1> QED BY <1>2, <1>3, <1>4 DEF DeliveryInv, FromTheFront

LEMMA ProceedsTo ==
  ASSUME DeliveryInv, NEW t \in HookTasks, hook[t].step # "none", Proceeds(t)
  PROVE  \E g : hook' = [hook EXCEPT ![t] = g] /\ GoesOn(hook[t].delivery, hook[t].event, g)
<1> DEFINE h == hook[t]
           g == IF h.event + 1 \in Events(h.delivery)
                THEN [h EXCEPT !.event = @ + 1, !.step = "begin"] ELSE [h EXCEPT !.step = "200"]
<1>1. hook' = [hook EXCEPT ![t] = g]
  BY DEF Proceeds
<1>2. h \in Hooks /\ h.delivery \in Deliveries
  BY AtWork
<1> HIDE DEF h
<1>3. CASE h.event + 1 \in Events(h.delivery)
  <2>1. h.event + 1 \in 1..LineBatch
    BY <1>2, <1>3, EventsOf DEF DeliveryInv
  <2>2. g = [step |-> "begin", delivery |-> h.delivery, event |-> h.event + 1]
    BY <1>2, <1>3 DEF Hooks
  <2>3. GoesOn(h.delivery, h.event, g)
    BY <1>2, <1>3, <2>1, <2>2 DEF GoesOn, Hooks
  <2> QED BY <1>1, <2>3 DEF h
<1>4. CASE h.event + 1 \notin Events(h.delivery)
  <2>1. g = [step |-> "200", delivery |-> h.delivery, event |-> h.event]
    BY <1>2, <1>4 DEF Hooks
  <2>2. h.event \in 1..LineBatch
    BY <1>2 DEF Hooks
  <2>3. GoesOn(h.delivery, h.event, g)
    BY <1>2, <1>4, <2>1, <2>2 DEF GoesOn, Hooks
  <2> QED BY <1>1, <2>3 DEF h
<1> QED BY <1>3, <1>4

LEMMA HookGoesTo ==
  ASSUME DeliveryInv, NEW t \in HookTasks, hook[t].step # "none",
         NEW step \in {"acknowledge", "agent", "send"}, Goes(t, step)
  PROVE  \E g \in Hooks : /\ hook' = [hook EXCEPT ![t] = g] /\ g.delivery = hook[t].delivery
                          /\ g.event = hook[t].event /\ g.step = step
<1> DEFINE g == [hook[t] EXCEPT !.step = step]
<1>1. hook[t] \in Hooks
  BY AtWork
<1>2. g \in Hooks /\ g.delivery = hook[t].delivery /\ g.event = hook[t].event /\ g.step = step
  BY <1>1 DEF Hooks
<1>3. hook' = [hook EXCEPT ![t] = g]
  BY DEF Goes
<1> QED BY <1>2, <1>3

LEMMA HookBeginsKeeps == ASSUME DeliveryInv, NEW t \in HookTasks, HandleBegins(t) PROVE DeliveryInv'
<1>1. PICK d \in Deliveries, i \in Nat :
        /\ d = hook[t].delivery /\ i = hook[t].event /\ AtDelivery(t, d) /\ i \in Events(d)
        /\ hook[t].step = "begin"
  <2>1. hook[t].step = "begin" /\ hook[t].step \notin {"none"}
    BY DEF HandleBegins
  <2> QED BY <2>1, AtWork, EventsOf DEF DeliveryInv
<1>2. hook[t].step # "200" /\ hook[t].step # "none"
  BY <1>1
<1>3. UNCHANGED <<route, attempts, acked, answers>>
  BY DEF HandleBegins
<1>4. CASE Dismiss(d, i) /\ Proceeds(t) /\ UNCHANGED rows
  <2>1. PICK g : hook' = [hook EXCEPT ![t] = g] /\ GoesOn(d, i, g)
    BY <1>1, <1>2, <1>4, ProceedsTo
  <2>2. dismissed' = dismissed \union {<<d, i>>} /\ Settled(d, i)'
    BY <1>4 DEF Dismiss, Settled
  <2> QED BY <1>1, <1>2, <1>3, <1>4, <2>1, <2>2, HookPassesKeeps
<1>5. CASE hook' = [hook EXCEPT ![t] = NoHook] /\ UNCHANGED <<rows, dismissed>>
  BY <1>1, <1>2, <1>3, <1>5, HookPassesKeeps
<1>6. CASE /\ Goes(t, IF route[d] = "line" THEN "acknowledge" ELSE "send") /\ UNCHANGED dismissed
           /\ rows' = IF route[d] = "gateway" THEN [rows EXCEPT ![d] = @ + 1] ELSE rows
  <2>1. PICK g \in Hooks : /\ hook' = [hook EXCEPT ![t] = g] /\ g.delivery = d /\ g.event = i
                           /\ g.step = IF route[d] = "line" THEN "acknowledge" ELSE "send"
    BY <1>1, <1>2, <1>6, HookGoesTo
  <2>2. /\ g.step # "200" /\ g.step # "begin"
        /\ g.step \in {"acknowledge", "agent"} => route[d] # "gateway"
    BY <2>1
  <2> QED BY <1>1, <1>2, <1>3, <1>6, <2>1, <2>2, HookStaysKeeps
<1>7. CASE route[d] = "line" /\ Goes(t, "send") /\ UNCHANGED <<rows, dismissed>>
  <2>1. PICK g \in Hooks : /\ hook' = [hook EXCEPT ![t] = g] /\ g.delivery = d /\ g.event = i
                           /\ g.step = "send"
    BY <1>1, <1>2, <1>7, HookGoesTo
  <2>2. /\ g.step # "200" /\ g.step # "begin" /\ g.step \notin {"acknowledge", "agent"}
        /\ route[d] # "gateway"
    BY <1>7, <2>1
  <2> QED BY <1>1, <1>2, <1>3, <1>7, <2>1, <2>2, HookStaysKeeps
<1> QED BY <1>1, <1>4, <1>5, <1>6, <1>7 DEF HandleBegins, Raises

LEMMA AcknowledgeKeeps == ASSUME DeliveryInv, NEW t \in HookTasks, Acknowledge(t) PROVE DeliveryInv'
<1>1. PICK d \in Deliveries, i \in Nat :
        /\ d = hook[t].delivery /\ i = hook[t].event /\ AtDelivery(t, d) /\ i \in Events(d)
        /\ hook[t].step = "acknowledge"
  <2>1. hook[t].step = "acknowledge" /\ hook[t].step \notin {"none"}
    BY DEF Acknowledge
  <2> QED BY <2>1, AtWork, EventsOf DEF DeliveryInv
<1>2. hook[t].step # "200" /\ hook[t].step # "none"
  BY <1>1
<1>3. UNCHANGED <<route, attempts, acked, rows, answers>>
  BY DEF Acknowledge
<1>4. CASE Dismiss(d, i) /\ Proceeds(t)
  <2>1. PICK g : hook' = [hook EXCEPT ![t] = g] /\ GoesOn(d, i, g)
    BY <1>1, <1>2, <1>4, ProceedsTo
  <2>2. dismissed' = dismissed \union {<<d, i>>} /\ Settled(d, i)'
    BY <1>4 DEF Dismiss, Settled
  <2> QED BY <1>1, <1>2, <1>3, <2>1, <2>2, HookPassesKeeps
<1>5. CASE Raises(t) /\ UNCHANGED dismissed
  BY <1>1, <1>2, <1>3, <1>5, HookPassesKeeps DEF Raises
<1>6. CASE Goes(t, "agent") /\ UNCHANGED dismissed
  <2>1. PICK g \in Hooks : /\ hook' = [hook EXCEPT ![t] = g] /\ g.delivery = d /\ g.event = i
                           /\ g.step = "agent"
    BY <1>1, <1>2, <1>6, HookGoesTo
  <2>2. g.step # "200" /\ g.step # "begin"
    BY <2>1
  <2>3. route[d] # "gateway"
    BY <1>1 DEF DeliveryInv, FromTheFront
  <2> QED BY <1>1, <1>2, <1>3, <1>6, <2>1, <2>2, <2>3, HookStaysKeeps
<1> QED BY <1>1, <1>4, <1>5, <1>6 DEF Acknowledge

LEMMA AgentKeeps == ASSUME DeliveryInv, NEW t \in HookTasks, AgentAnswers(t) PROVE DeliveryInv'
<1>1. PICK d \in Deliveries, i \in Nat :
        /\ d = hook[t].delivery /\ i = hook[t].event /\ AtDelivery(t, d) /\ i \in Events(d)
        /\ hook[t].step = "agent"
  <2>1. hook[t].step = "agent" /\ hook[t].step \notin {"none"}
    BY DEF AgentAnswers
  <2> QED BY <2>1, AtWork, EventsOf DEF DeliveryInv
<1>2. hook[t].step # "200" /\ hook[t].step # "none"
  BY <1>1
<1>3. UNCHANGED <<route, attempts, acked, rows, answers, dismissed>> /\ Goes(t, "send")
  BY DEF AgentAnswers
<1>4. PICK g \in Hooks : /\ hook' = [hook EXCEPT ![t] = g] /\ g.delivery = d /\ g.event = i
                         /\ g.step = "send"
  BY <1>1, <1>2, <1>3, HookGoesTo
<1>5. g.step # "200" /\ g.step # "begin" /\ g.step \notin {"acknowledge", "agent"}
  BY <1>4
<1>6. route[d] # "gateway"
  BY <1>1 DEF DeliveryInv, FromTheFront
<1> QED BY <1>1, <1>2, <1>3, <1>4, <1>5, <1>6, HookStaysKeeps

LEMMA SendEndsKeeps == ASSUME DeliveryInv, NEW t \in HookTasks, SendEnds(t) PROVE DeliveryInv'
<1>1. PICK d \in Deliveries, i \in Nat :
        /\ d = hook[t].delivery /\ i = hook[t].event /\ AtDelivery(t, d) /\ i \in Events(d)
        /\ hook[t].step = "send"
  <2>1. hook[t].step = "send" /\ hook[t].step \notin {"none"}
    BY DEF SendEnds
  <2> QED BY <2>1, AtWork, EventsOf DEF DeliveryInv
<1>2. hook[t].step # "200" /\ hook[t].step # "none"
  BY <1>1
<1>3. UNCHANGED <<route, attempts, acked, rows>>
  BY DEF SendEnds
<1>4. ASSUME Proceeds(t) PROVE \E g : hook' = [hook EXCEPT ![t] = g] /\ GoesOn(d, i, g)
  BY <1>1, <1>2, <1>4, ProceedsTo
<1>5. CASE Replied(d, i) /\ Proceeds(t) /\ UNCHANGED dismissed
  <2>1. PICK g : hook' = [hook EXCEPT ![t] = g] /\ GoesOn(d, i, g)
    BY <1>4, <1>5
  <2>2. answers' = [answers EXCEPT ![d][i] = @ + 1]
    BY <1>5 DEF Replied
  <2>3. Settled(d, i)'
    <3>1. i \in 1..LineBatch /\ answers \in [Deliveries -> [1..LineBatch -> Nat]]
      BY <1>1, EventsOf DEF DeliveryInv, DeliveryTypes
    <3>2. answers'[d][i] = answers[d][i] + 1 /\ answers[d][i] \in Nat
      BY <2>2, <3>1
    <3> QED BY <3>2 DEF Settled
  <2> QED BY <1>1, <1>2, <1>3, <1>5, <2>1, <2>2, <2>3, HookPassesKeeps
<1>6. CASE Dismiss(d, i) /\ Proceeds(t) /\ UNCHANGED answers
  <2>1. PICK g : hook' = [hook EXCEPT ![t] = g] /\ GoesOn(d, i, g)
    BY <1>4, <1>6
  <2>2. dismissed' = dismissed \union {<<d, i>>} /\ Settled(d, i)'
    BY <1>6 DEF Dismiss, Settled
  <2> QED BY <1>1, <1>2, <1>3, <1>6, <2>1, <2>2, HookPassesKeeps
<1>7. CASE Replied(d, i) /\ Raises(t) /\ UNCHANGED dismissed
  BY <1>1, <1>2, <1>3, <1>7, HookPassesKeeps DEF Raises, Replied
<1>8. CASE Raises(t) /\ UNCHANGED <<answers, dismissed>>
  BY <1>1, <1>2, <1>3, <1>8, HookPassesKeeps DEF Raises
<1> QED BY <1>1, <1>5, <1>6, <1>7, <1>8 DEF SendEnds

(* Requests that end, the 200 included.                                    *)
LEMMA HookEndsKeep ==
  ASSUME DeliveryInv, NEW G \in SUBSET HookTasks,
         hook' = [t \in HookTasks |-> IF t \in G THEN NoHook ELSE hook[t]],
         UNCHANGED <<route, attempts, rows, answers, dismissed>>,
         \A d \in acked' : d \in acked \/ \E t \in G : AtDelivery(t, d) /\ hook[t].step = "200"
  PROVE  DeliveryInv'
<1>1. /\ hook' \in [HookTasks -> Hooks \union {NoHook}] /\ \A t \in G : hook'[t] = NoHook
      /\ \A t \in HookTasks \ G : hook'[t] = hook[t]
  BY DEF DeliveryInv, DeliveryTypes
<1>2. DeliveryTypes'
  BY <1>1 DEF DeliveryInv, DeliveryTypes
<1>3. \A t \in HookTasks, d \in Deliveries : AtDelivery(t, d)' => AtDelivery(t, d) /\ hook'[t] = hook[t] /\ t \in Busy
  BY <1>1 DEF AtDelivery, Busy
<1>4. Busy' \subseteq Busy
  BY <1>1 DEF Busy
<1>5. IsFiniteSet(Busy)'
  BY <1>4, FS_Subset DEF DeliveryInv
<1>6. ASSUME NEW d \in Deliveries PROVE Counted(d)' /\ FromTheFront(d)'
  <2>1. /\ SendingHooks(d)' \subseteq SendingHooks(d) /\ Beginning(d)' \subseteq Beginning(d)
        /\ \A i \in Events(d) : Owing(d, i)' \subseteq Owing(d, i)
    BY <1>3 DEF SendingHooks, Beginning, Owing, Busy
  <2>2. Counted(d)'
    BY <1>5, <2>1, CountedStill
  <2>3. d \in acked' => d \in acked \/ \A i \in Events(d) : Settled(d, i)
    BY DEF DeliveryInv, FromTheFront
  <2>4. FromTheFront(d)'
    BY <1>3, <2>3, FrontStill DEF Settled
  <2> QED BY <2>2, <2>4
<1> QED BY <1>2, <1>5, <1>6 DEF DeliveryInv

LEMMA NextDelivery == DeliveryInv /\ [DeliveryNext]_delivery_vars => DeliveryInv'
<1> SUFFICES ASSUME DeliveryInv, [DeliveryNext]_delivery_vars PROVE DeliveryInv'
  OBVIOUS
<1>1. hook \in [HookTasks -> Hooks \union {NoHook}]
  BY DEF DeliveryInv, DeliveryTypes
<1>2. ASSUME NEW t \in HookTasks, Finish(t) PROVE DeliveryInv'
  <2>1. hook' = [u \in HookTasks |-> IF u \in {t} THEN NoHook ELSE hook[u]]
    BY <1>1, <1>2 DEF Finish
  <2>2. AtDelivery(t, hook[t].delivery) /\ hook[t].step = "200"
    BY <1>2, AtWork DEF Finish
  <2>3. acked' = acked \union {hook[t].delivery} \/ acked' = acked
    BY <1>2 DEF Finish
  <2> QED BY <1>2, <2>1, <2>2, <2>3, HookEndsKeep DEF Finish
<1>3. CASE ReceiversDie
  <2>1. hook' = [u \in HookTasks |-> IF u \in HookTasks THEN NoHook ELSE hook[u]]
    BY <1>3 DEF ReceiversDie
  <2> QED BY <1>3, <2>1, HookEndsKeep DEF ReceiversDie
<1>4. CASE UNCHANGED delivery_vars
  <2> DEFINE None == {}
  <2>1. hook' = [u \in HookTasks |-> IF u \in None THEN NoHook ELSE hook[u]]
    BY <1>1, <1>4 DEF delivery_vars
  <2>2. None \in SUBSET HookTasks
    OBVIOUS
  <2>3. UNCHANGED <<route, attempts, acked, rows, answers, dismissed>>
    BY <1>4 DEF delivery_vars
  <2> HIDE DEF None
  <2> QED BY <2>1, <2>2, <2>3, HookEndsKeep
<1> QED BY <1>2, <1>3, <1>4, DeliverKeeps, HookBeginsKeeps, AcknowledgeKeeps, AgentKeeps, SendEndsKeeps
        DEF DeliveryNext

(* A delivery that the vendor will not repeat is settled in full, a batch  *)
(* from its front, and none is answered oftener than it was made, through  *)
(* exceptions, crashes, lost 200s and redeliveries that overlap.           *)
THEOREM AckedIsSettledAlways == DeliverySpec => []AckedIsSettled
<1>1. ASSUME DeliveryInv PROVE AckedIsSettled
  <2> SUFFICES ASSUME NEW d \in Deliveries
               PROVE  /\ d \in acked => \A i \in Events(d) : Settled(d, i)
                      /\ \A i, j \in Events(d) : i < j /\ Settled(d, j) => Settled(d, i)
                      /\ \A i \in Events(d) :
                           answers[d][i] <= IF route[d] = "gateway" THEN rows[d] ELSE attempts[d]
                      /\ rows[d] <= attempts[d]
    BY DEF AckedIsSettled
  <2>1. FromTheFront(d) /\ Counted(d)
    BY <1>1 DEF DeliveryInv
  <2>2. /\ rows[d] \in Nat /\ attempts[d] \in Nat /\ 1 \in Events(d)
        /\ \A i \in Events(d) : answers[d][i] \in Nat
    BY <1>1, EventsOf DEF DeliveryInv, DeliveryTypes
  <2>3. /\ Cardinality(SendingHooks(d)) \in Nat /\ Cardinality(Beginning(d)) \in Nat
        /\ \A i : Cardinality(Owing(d, i)) \in Nat
    BY <1>1, DeliveryParts, FS_CardinalityType
  <2>4. CASE route[d] = "gateway"
    <3>1. \A i \in Events(d) : i = 1
      BY <1>1, <2>4, EventsOf DEF DeliveryInv
    <3> QED BY <2>1, <2>2, <2>3, <2>4, <3>1 DEF Counted, FromTheFront
  <2>5. CASE route[d] # "gateway"
    BY <2>1, <2>2, <2>3, <2>5 DEF Counted, FromTheFront
  <2> QED BY <2>4, <2>5
<1> QED BY <1>1, InitDelivery, NextDelivery, PTL DEF DeliverySpec

(* The deliveries that were settled in full.                               *)
SettledDeliveries == {d \in Deliveries : \A i \in Events(d) : Settled(d, i)}

LEMMA RepliesAdd ==
  ASSUME DeliveryInv, NEW d, NEW i, Replied(d, i)
  PROVE  \A c \in Deliveries, k \in 1..LineBatch : answers[c][k] > 0 => answers'[c][k] > 0
<1> SUFFICES ASSUME NEW c \in Deliveries, NEW k \in 1..LineBatch, answers[c][k] > 0
             PROVE  answers'[c][k] > 0
  OBVIOUS
<1>1. /\ answers' = [answers EXCEPT ![d][i] = answers[d][i] + 1]
      /\ answers \in [Deliveries -> [1..LineBatch -> Nat]]
  BY DEF Replied, DeliveryInv, DeliveryTypes
<1>2. answers[c][k] \in Nat
  BY <1>1
<1>3. CASE c = d
  <2>1. answers'[c] = [answers[c] EXCEPT ![i] = answers[d][i] + 1]
    BY <1>1, <1>3
  <2>2. answers[c] \in [1..LineBatch -> Nat]
    BY <1>1
  <2>3. answers'[c][k] = IF k = i THEN answers[c][k] + 1 ELSE answers[c][k]
    BY <1>3, <2>1, <2>2
  <2> QED BY <1>2, <2>3
<1>4. CASE c # d
  <2>1. answers'[c] = answers[c]
    BY <1>1, <1>4
  <2> QED BY <2>1
<1> QED BY <1>3, <1>4

LEMMA HooksSettle ==
  ASSUME DeliveryInv, UNCHANGED <<route, acked>>, dismissed \subseteq dismissed',
         \A c \in Deliveries, k \in 1..LineBatch : answers[c][k] > 0 => answers'[c][k] > 0
  PROVE  WebhookAtLeastOnce!Next
<1>1. \A d : Events(d)' = Events(d)
  BY DEF Events
<1>2. \A d \in Deliveries : Events(d) \subseteq 1..LineBatch
  BY EventsOf DEF DeliveryInv
<1>3. \A d \in Deliveries : \A i \in Events(d) : Settled(d, i) => Settled(d, i)'
  BY <1>2 DEF Settled
<1>4. SettledDeliveries \subseteq SettledDeliveries'
  BY <1>1, <1>3 DEF SettledDeliveries
<1> QED BY <1>4 DEF SettledDeliveries, WebhookAtLeastOnce!Next, WebhookAtLeastOnce!Settle

LEMMA FinishForgets ==
  ASSUME DeliveryInv, NEW t \in HookTasks, Finish(t)
  PROVE  WebhookAtLeastOnce!Next
<1>1. PICK d \in Deliveries : d = hook[t].delivery /\ AtDelivery(t, d)
  <2>1. AtDelivery(t, hook[t].delivery) /\ hook[t].delivery \in Deliveries
    BY AtWork DEF Finish
  <2> QED BY <2>1
<1>2. /\ hook[t].step = "200"
      /\ acked' = acked \union {d} \/ acked' = acked
      /\ UNCHANGED <<route, answers, dismissed>>
  BY <1>1 DEF Finish
<1>3. d \in SettledDeliveries
  BY <1>1, <1>2 DEF DeliveryInv, FromTheFront, SettledDeliveries
<1>4. acked \subseteq acked' /\ acked' \ acked \subseteq SettledDeliveries
  BY <1>2, <1>3
<1>5. UNCHANGED SettledDeliveries
  <2>1. \A c : Events(c)' = Events(c) /\ \A i : Settled(c, i)' <=> Settled(c, i)
    BY <1>2 DEF Events, Settled
  <2> QED BY <2>1 DEF SettledDeliveries
<1> QED BY <1>4, <1>5 DEF SettledDeliveries, WebhookAtLeastOnce!Next, WebhookAtLeastOnce!Forget

(* A vendor that delivers until it has its 200 gets it only when every     *)
(* event of the delivery is settled, over exceptions in the middle of a    *)
(* batch, redeliveries that overlap, lost 200s and crashes.                *)
THEOREM WebhookIsAtLeastOnce == DeliverySpec => WebhookImplementsAtLeastOnce
<1> DEFINE views == <<{d \in Deliveries : \A i \in Events(d) : Settled(d, i)}, acked>>
<1>1. DeliveryInit => WebhookAtLeastOnce!Init
  <2> SUFFICES ASSUME DeliveryInit PROVE WebhookAtLeastOnce!Init
    OBVIOUS
  <2>1. DeliveryTypes /\ acked = {}
    BY InitDelivery DEF DeliveryInv, DeliveryInit
  <2>2. \A d \in Deliveries : 1 \in Events(d) /\ 1 \in 1..LineBatch
    BY <2>1, EventsOf
  <2>3. \A d \in Deliveries : ~Settled(d, 1)
    BY <2>2 DEF DeliveryInit, Settled
  <2>4. SettledDeliveries = {}
    BY <2>2, <2>3 DEF SettledDeliveries
  <2> QED BY <2>1, <2>4 DEF SettledDeliveries, WebhookAtLeastOnce!Init
<1>2. ASSUME DeliveryInv, [DeliveryNext]_delivery_vars PROVE WebhookAtLeastOnce!Next
  <2>1. ASSUME NEW t \in HookTasks,
               \/ (\E d \in Deliveries : Deliver(t, d)) \/ HandleBegins(t)
               \/ Acknowledge(t) \/ AgentAnswers(t)
        PROVE  WebhookAtLeastOnce!Next
    <3>1. UNCHANGED <<route, acked, answers>> /\ dismissed \subseteq dismissed'
      BY <2>1 DEF Deliver, HandleBegins, Acknowledge, AgentAnswers, Dismiss
    <3> QED BY <1>2, <3>1, HooksSettle
  <2>2. ASSUME NEW t \in HookTasks, SendEnds(t) PROVE WebhookAtLeastOnce!Next
    <3>1. PICK d, i : d = hook[t].delivery /\ i = hook[t].event
      OBVIOUS
    <3>2. /\ UNCHANGED <<route, acked>> /\ dismissed \subseteq dismissed'
          /\ Replied(d, i) \/ UNCHANGED answers
      BY <2>2, <3>1 DEF SendEnds, Dismiss
    <3>3. \A c \in Deliveries, k \in 1..LineBatch : answers[c][k] > 0 => answers'[c][k] > 0
      BY <1>2, <3>2, RepliesAdd
    <3> QED BY <1>2, <3>2, <3>3, HooksSettle
  <2>3. ASSUME NEW t \in HookTasks, Finish(t) PROVE WebhookAtLeastOnce!Next
    BY <1>2, <2>3, FinishForgets
  <2>4. CASE ReceiversDie \/ UNCHANGED delivery_vars
    <3>1. UNCHANGED <<route, acked, answers, dismissed>>
      BY <2>4 DEF ReceiversDie, delivery_vars
    <3> QED BY <1>2, <3>1, HooksSettle
  <2> QED BY <1>2, <2>1, <2>2, <2>3, <2>4 DEF DeliveryNext
<1>3. DeliveryInv /\ [DeliveryNext]_delivery_vars => [WebhookAtLeastOnce!Next]_views
  BY <1>2
<1> QED BY <1>1, <1>3, InitDelivery, NextDelivery, PTL
        DEF DeliverySpec, WebhookImplementsAtLeastOnce, WebhookAtLeastOnce!Spec

(* The webhook receivers: what has its 200 is settled, in each state; and  *)
(* what was settled or acknowledged stays so, in each step.                *)
THEOREM WebhooksKeepPromise == DeliverySpec => WebhookPromiseKept
<1>1. DeliveryInv => DeliveryTypes
  BY DEF DeliveryInv
<1> QED BY <1>1, InitDelivery, NextDelivery, AckedIsSettledAlways, WebhookIsAtLeastOnce, PTL
        DEF DeliverySpec, WebhookPromiseKept
HIDE DeliveryAssumption

-------------------------------------------------------------------------------
(***************************************************************************)
(* SendTokens: LINE's reply tokens and Teams' bearer token, for any users, *)
(* tasks, times to live and timeouts.                                      *)
(*                                                                         *)
(* The reply token of a sender is that of the last event until it is used, *)
(* and when there is none the last one was used or is too old (TokenKept); *)
(* a reply of Teams under way is no older than a call's timeout, which its *)
(* token outlasts (ReplyInTime).                                           *)
(***************************************************************************)
LineEvent == [user : LineUsers, at : Nat]
LineSent == [user : LineUsers, at : Nat, event : Nat, events : Nat]
ReplyTokens == [event : Nat, ends : Nat]
TeamsReply == [step : {"idle", "ask", "post"}, since : Nat, token : Nat]

TokenTypes ==
  /\ now \in Nat
  /\ line_events \in Seq(LineEvent) /\ line_sends \in Seq(LineSent)
  /\ reply_tokens \in [LineUsers -> ReplyTokens]
  /\ token_cache \in [token : Nat, ends : Nat] /\ teams \in [TeamsTasks -> TeamsReply]
  /\ teams_posts \in Seq([token : Nat, at : Nat])

IsLast(e, u, n) ==
  /\ e \in 1..n /\ line_events[e].user = u
  /\ \A i \in (e + 1)..n : line_events[i].user # u

UsedToken(e, k) == \E j \in 1..(k - 1) : line_sends[j].event = e
LateFor(e, at) == at > line_events[e].at + LineTtl

(* What a reply was sent with.                                             *)
SentRight(k) ==
  /\ line_sends[k].events <= Len(line_events) /\ line_sends[k].event <= Len(line_events)
  /\ \E e \in 1..Len(line_events) :
       /\ IsLast(e, line_sends[k].user, line_sends[k].events)
       /\ line_sends[k].event = IF UsedToken(e, k) \/ LateFor(e, line_sends[k].at) THEN 0 ELSE e

(* The token of a sender is that of the last event, until it is used; and  *)
(* when there is none the last one was used or is too old.                 *)
TokenKept(u) ==
  \/ reply_tokens[u] = NoReplyToken /\ \A i \in 1..Len(line_events) : line_events[i].user # u
  \/ \E e \in 1..Len(line_events) :
       /\ IsLast(e, u, Len(line_events))
       /\ \/ /\ reply_tokens[u] = [event |-> e, ends |-> line_events[e].at + LineTtl]
             /\ ~UsedToken(e, Len(line_sends) + 1)
          \/ /\ reply_tokens[u] = NoReplyToken
             /\ UsedToken(e, Len(line_sends) + 1) \/ LateFor(e, now)

LineInv == (\A u \in LineUsers : TokenKept(u)) /\ (\A k \in 1..Len(line_sends) : SentRight(k))

(* A reply under way is not older than a call's timeout, and its token     *)
(* outlasts it; the cache overrates its token by a timeout at most.        *)
ReplyInTime(t) ==
  teams[t].step # "idle" =>
    /\ teams[t].since <= now /\ now <= teams[t].since + TeamsTimeout
    /\ teams[t].step = "post" => teams[t].token >= teams[t].since + TeamsTimeout

TeamsInv ==
  /\ token_cache.ends <= token_cache.token + TeamsTimeout
  /\ \A t \in TeamsTasks : ReplyInTime(t)
  /\ \A k \in 1..Len(teams_posts) : teams_posts[k].at <= teams_posts[k].token

TokensInv == TokenTypes /\ LineInv /\ TeamsInv

USE TokenAssumption

LEMMA OneLast ==
  ASSUME NEW s, NEW e, s.events \in Nat, IsLast(e, s.user, s.events)
  PROVE  LastEvent(s) = e
<1>1. \A f : IsLast(f, s.user, s.events) => f = e
  <2> SUFFICES ASSUME NEW f, IsLast(f, s.user, s.events), f # e PROVE FALSE
    OBVIOUS
  <2>1. e \in Nat /\ f \in Nat /\ e \in 1..s.events /\ f \in 1..s.events
    BY DEF IsLast
  <2>2. f \in (e + 1)..s.events \/ e \in (f + 1)..s.events
    BY <2>1
  <2> QED BY <2>2 DEF IsLast
<1>2. LastEvent(s) = CHOOSE f : IsLast(f, s.user, s.events)
  BY DEF LastEvent, IsLast
<1> QED BY <1>1, <1>2

(* What is only appended to keeps its past.                                *)
LEMMA PastStays ==
  ASSUME TokenTypes, NEW k \in 1..Len(line_sends), SentRight(k),
         Len(line_events) <= Len(line_events'), Len(line_events') \in Nat,
         \A i \in 1..Len(line_events) : line_events'[i] = line_events[i],
         \A j \in 1..Len(line_sends) : line_sends'[j] = line_sends[j]
  PROVE  SentRight(k)'
<1>1. PICK e \in 1..Len(line_events) :
        /\ IsLast(e, line_sends[k].user, line_sends[k].events)
        /\ line_sends[k].event = IF UsedToken(e, k) \/ LateFor(e, line_sends[k].at) THEN 0 ELSE e
  BY DEF SentRight
<1>2. /\ line_sends[k].events <= Len(line_events) /\ line_sends[k].event <= Len(line_events)
      /\ line_sends'[k] = line_sends[k]
  BY DEF SentRight
<1>3. /\ line_sends[k].events \in Nat /\ line_sends[k].event \in Nat /\ Len(line_events) \in Nat
      /\ Len(line_sends) \in Nat
  <2>1. line_sends[k] \in LineSent /\ Len(line_events) \in Nat /\ Len(line_sends) \in Nat
    BY DEF TokenTypes
  <2> QED BY <2>1 DEF LineSent
<1>4. IsLast(e, line_sends[k].user, line_sends[k].events)'
  <2>1. \A i \in 1..line_sends[k].events : line_events'[i] = line_events[i]
    <3>1. \A i \in 1..line_sends[k].events : i \in 1..Len(line_events)
      BY <1>2, <1>3
    <3> QED BY <3>1
  <2>2. /\ e \in 1..line_sends[k].events /\ line_events[e].user = line_sends[k].user
        /\ \A i \in (e + 1)..line_sends[k].events : line_events[i].user # line_sends[k].user
    BY <1>1 DEF IsLast
  <2>3. \A i \in (e + 1)..line_sends[k].events : i \in 1..line_sends[k].events
    BY <1>3, <2>2
  <2>4. line_sends'[k].events = line_sends[k].events /\ line_sends'[k].user = line_sends[k].user
    BY <1>2
  <2> QED BY <2>1, <2>2, <2>3, <2>4 DEF IsLast
<1>5. UsedToken(e, k)' <=> UsedToken(e, k)
  <2>1. \A j \in 1..(k - 1) : j \in 1..Len(line_sends)
    BY <1>3
  <2> QED BY <2>1 DEF UsedToken
<1>6. line_events'[e] = line_events[e]
  BY <1>1, <1>2, <1>3 DEF IsLast
<1>7. e \in 1..Len(line_events')
  BY <1>1, <1>3
<1>8. LateFor(e, line_sends[k].at)' <=> LateFor(e, line_sends[k].at)
  BY <1>2, <1>6 DEF LateFor
<1>9. line_sends'[k].event = IF UsedToken(e, k)' \/ LateFor(e, line_sends[k].at)' THEN 0 ELSE e
  BY <1>1, <1>2, <1>5, <1>8
<1>10. /\ line_sends'[k].events <= Len(line_events') /\ line_sends'[k].event <= Len(line_events')
  BY <1>2, <1>3
<1> QED BY <1>4, <1>7, <1>9, <1>10 DEF SentRight

LEMMA LineInboundKeeps ==
  ASSUME TokensInv, NEW u \in LineUsers, LineInbound(u) PROVE TokensInv'
<1> DEFINE x == [user |-> u, at |-> now]
<1>0. PICK n : n = Len(line_events) + 1
  OBVIOUS
<1>1. /\ line_events' = Append(line_events, x)
      /\ UNCHANGED <<now, line_sends, token_cache, teams, teams_posts>>
  BY DEF LineInbound
<1>2. x \in LineEvent /\ x.user = u /\ x.at = now
  BY DEF TokensInv, TokenTypes, LineEvent
<1> HIDE DEF x
<1>3. line_events \in Seq(LineEvent) /\ now \in Nat
  BY DEF TokensInv, TokenTypes
<1>4. /\ line_events' \in Seq(LineEvent) /\ Len(line_events') = n /\ n \in Nat /\ n >= 1
      /\ Len(line_events) \in Nat
      /\ line_events'[n] = x /\ \A i \in 1..Len(line_events) : line_events'[i] = line_events[i]
  BY <1>0, <1>1, <1>2, <1>3
<1>5. reply_tokens' = [reply_tokens EXCEPT ![u] = [event |-> n, ends |-> now + LineTtl]]
  BY <1>4 DEF LineInbound
<1>6. TokenTypes'
  <2>1. [event |-> n, ends |-> now + LineTtl] \in ReplyTokens
    BY <1>3, <1>4 DEF ReplyTokens
  <2>2. reply_tokens' \in [LineUsers -> ReplyTokens]
    BY <1>5, <2>1 DEF TokensInv, TokenTypes
  <2> QED BY <1>1, <1>4, <2>2 DEF TokensInv, TokenTypes
<1>7. \A k \in 1..Len(line_sends) : SentRight(k)'
  BY <1>1, <1>4, PastStays DEF TokensInv, LineInv
<1>8. \A j \in 1..Len(line_sends) : line_sends[j].event < n
  <2>1. ASSUME NEW j \in 1..Len(line_sends) PROVE line_sends[j].event < n
    <3>1. line_sends[j] \in LineSent
      BY DEF TokensInv, TokenTypes
    <3>2. line_sends[j].event \in Nat
      BY <3>1 DEF LineSent
    <3>3. line_sends[j].event <= Len(line_events)
      BY DEF TokensInv, LineInv, SentRight
    <3> QED BY <1>0, <1>4, <3>2, <3>3
  <2> QED BY <2>1
<1>9. Len(line_sends) \in Nat /\ \A j \in 1..(Len(line_sends) + 1 - 1) : j \in 1..Len(line_sends)
  BY DEF TokensInv, TokenTypes
<1>10. TokenKept(u)'
  <2>1. IsLast(n, u, n)'
    BY <1>2, <1>4 DEF IsLast
  <2>2. ~UsedToken(n, Len(line_sends) + 1)'
    BY <1>1, <1>4, <1>8, <1>9 DEF UsedToken
  <2>3. reply_tokens'[u] = [event |-> n, ends |-> line_events'[n].at + LineTtl]
    BY <1>2, <1>4, <1>5 DEF TokensInv, TokenTypes
  <2>4. n \in 1..Len(line_events')
    BY <1>4
  <2> QED BY <1>1, <1>4, <2>1, <2>2, <2>3, <2>4 DEF TokenKept
<1>11. ASSUME NEW v \in LineUsers, v # u PROVE TokenKept(v)'
  <2>1. TokenKept(v) /\ reply_tokens'[v] = reply_tokens[v]
    BY <1>5, <1>11 DEF TokensInv, TokenTypes, LineInv
  <2>2. \A i \in 1..n : i \in 1..Len(line_events) \/ (i = n /\ line_events'[i].user # v)
    BY <1>0, <1>2, <1>4, <1>11
  <2>3. CASE reply_tokens[v] = NoReplyToken /\ \A i \in 1..Len(line_events) : line_events[i].user # v
    BY <1>4, <2>1, <2>2, <2>3 DEF TokenKept
  <2>4. ASSUME NEW e \in 1..Len(line_events), IsLast(e, v, Len(line_events))
        PROVE  IsLast(e, v, n)' /\ e \in 1..n /\ line_events'[e] = line_events[e]
    <3>1. e \in 1..n /\ line_events'[e] = line_events[e]
      BY <1>0, <1>4
    <3>2. \A i \in (e + 1)..n : i \in (e + 1)..Len(line_events) \/ i = n
      BY <1>0, <1>4
    <3>3. \A i \in (e + 1)..Len(line_events) : line_events'[i] = line_events[i]
      BY <1>4
    <3> QED BY <1>2, <1>4, <1>11, <2>4, <3>1, <3>2, <3>3 DEF IsLast
  <2>5. ASSUME NEW e PROVE UsedToken(e, Len(line_sends) + 1)' <=> UsedToken(e, Len(line_sends) + 1)
    BY <1>1 DEF UsedToken
  <2>6. ASSUME NEW e \in 1..Len(line_events), IsLast(e, v, Len(line_events)),
               \/ /\ reply_tokens[v] = [event |-> e, ends |-> line_events[e].at + LineTtl]
                  /\ ~UsedToken(e, Len(line_sends) + 1)
               \/ /\ reply_tokens[v] = NoReplyToken
                  /\ UsedToken(e, Len(line_sends) + 1) \/ LateFor(e, now)
        PROVE  TokenKept(v)'
    <3>1. IsLast(e, v, n)' /\ e \in 1..n /\ line_events'[e] = line_events[e]
      BY <2>4, <2>6
    <3>2. LateFor(e, now)' <=> LateFor(e, now)
      BY <1>1, <3>1 DEF LateFor
    <3> QED BY <1>1, <1>4, <2>1, <2>5, <2>6, <3>1, <3>2 DEF TokenKept
  <2> QED BY <2>1, <2>3, <2>6 DEF TokenKept
<1>12. TeamsInv'
  BY <1>1 DEF TokensInv, TeamsInv, ReplyInTime
<1> QED BY <1>1, <1>6, <1>7, <1>10, <1>11, <1>12 DEF TokensInv, LineInv

LEMMA LineSendKeeps ==
  ASSUME TokensInv, NEW u \in LineUsers, LineSend(u) PROVE TokensInv'
<1> DEFINE kept == reply_tokens[u]
           event == IF kept # NoReplyToken /\ kept.ends >= now THEN kept.event ELSE 0
           x == [user |-> u, at |-> now, event |-> event, events |-> Len(line_events)]
<1>0. PICK n : n = Len(line_sends) + 1
  OBVIOUS
<1>1. /\ line_sends' = Append(line_sends, x)
      /\ reply_tokens' = [reply_tokens EXCEPT ![u] = NoReplyToken]
      /\ UNCHANGED <<now, line_events, token_cache, teams, teams_posts>>
  BY DEF LineSend, TokensLeft
<1>2. PICK e \in 1..Len(line_events) :
        /\ IsLast(e, u, Len(line_events))
        /\ \/ /\ reply_tokens[u] = [event |-> e, ends |-> line_events[e].at + LineTtl]
              /\ ~UsedToken(e, n)
           \/ /\ reply_tokens[u] = NoReplyToken
              /\ UsedToken(e, n) \/ LateFor(e, now)
  <2>1. TokenKept(u) /\ \E i \in 1..Len(line_events) : line_events[i].user = u
    BY DEF TokensInv, LineInv, LineSend, TokenTypes
  <2> QED BY <1>0, <2>1 DEF TokenKept
<1>3. /\ line_events \in Seq(LineEvent) /\ now \in Nat /\ line_sends \in Seq(LineSent)
      /\ kept \in ReplyTokens
  BY DEF TokensInv, TokenTypes
<1>4. /\ Len(line_events) \in Nat /\ line_events[e].at \in Nat /\ Len(line_sends) \in Nat
      /\ e \in Nat /\ e >= 1 /\ e <= Len(line_events)
  <2>1. line_events[e] \in LineEvent
    BY <1>3
  <2> QED BY <1>3, <2>1 DEF LineEvent
<1>5. event = IF UsedToken(e, n) \/ LateFor(e, now) THEN 0 ELSE e
  <2>1. CASE reply_tokens[u] = NoReplyToken
    <3>1. reply_tokens[u] # [event |-> e, ends |-> line_events[e].at + LineTtl]
      BY <1>4, <2>1 DEF NoReplyToken
    <3> QED BY <1>2, <2>1, <3>1
  <2>2. CASE reply_tokens[u] # NoReplyToken
    <3>1. kept.event = e /\ kept.ends = line_events[e].at + LineTtl /\ ~UsedToken(e, n)
      BY <1>2, <2>2
    <3> QED BY <1>3, <1>4, <2>2, <3>1 DEF LateFor
  <2> QED BY <2>1, <2>2
<1>6. event \in Nat /\ event <= Len(line_events) /\ (event # 0 => event = e)
  BY <1>4, <1>5
<1>7. x \in LineSent /\ x.user = u /\ x.at = now /\ x.event = event /\ x.events = Len(line_events)
  BY <1>3, <1>4, <1>6 DEF LineSent
<1> HIDE DEF event, x
<1>8. /\ line_sends' \in Seq(LineSent) /\ Len(line_sends') = n /\ n \in Nat /\ n >= 1
      /\ line_sends'[n] = x /\ \A j \in 1..Len(line_sends) : line_sends'[j] = line_sends[j]
  BY <1>0, <1>1, <1>3, <1>7
<1>9. TokenTypes'
  <2>1. NoReplyToken \in ReplyTokens
    BY DEF NoReplyToken, ReplyTokens
  <2>2. reply_tokens' \in [LineUsers -> ReplyTokens]
    BY <1>1, <2>1 DEF TokensInv, TokenTypes
  <2> QED BY <1>1, <1>8, <2>2 DEF TokensInv, TokenTypes
<1>10. UsedToken(e, n)' <=> UsedToken(e, n)
  <2>1. \A j \in 1..(n - 1) : line_sends'[j] = line_sends[j]
    BY <1>0, <1>4, <1>8
  <2> QED BY <2>1 DEF UsedToken
<1>11. SentRight(n)'
  <2>1. IsLast(e, u, Len(line_events))'
    BY <1>1, <1>2 DEF IsLast
  <2>2. LateFor(e, now)' <=> LateFor(e, now)
    BY <1>1 DEF LateFor
  <2>3. line_sends'[n].event = IF UsedToken(e, n)' \/ LateFor(e, now)' THEN 0 ELSE e
    BY <1>5, <1>7, <1>8, <1>10, <2>2
  <2>4. Len(line_events') = Len(line_events) /\ now' = now
    BY <1>1
  <2> QED BY <1>4, <1>6, <1>7, <1>8, <2>1, <2>3, <2>4 DEF SentRight
<1>12. \A k \in 1..Len(line_sends') : SentRight(k)'
  <2>1. Len(line_events) <= Len(line_events') /\ Len(line_events') \in Nat
        /\ \A i \in 1..Len(line_events) : line_events'[i] = line_events[i]
    BY <1>1, <1>4
  <2>2. \A k \in 1..Len(line_sends) : SentRight(k)'
    BY <1>8, <2>1, PastStays DEF TokensInv, LineInv
  <2>3. \A k \in 1..n : k \in 1..Len(line_sends) \/ k = n
    BY <1>0, <1>4
  <2> QED BY <1>8, <1>11, <2>2, <2>3
<1>13. \A f : UsedToken(f, n + 1)' <=> UsedToken(f, n) \/ f = event
  <2>1. /\ \A j \in 1..(n - 1) : line_sends'[j] = line_sends[j]
        /\ line_sends'[n].event = event
    BY <1>0, <1>4, <1>7, <1>8
  <2>2. \A j : j \in 1..(n + 1 - 1) <=> j \in 1..(n - 1) \/ j = n
    BY <1>8
  <2>3. n \in Nat
    BY <1>8
  <2>4. ASSUME NEW f
        PROVE  UsedToken(f, n + 1)' <=> \E j \in 1..n : line_sends'[j].event = f
    BY <2>3 DEF UsedToken
  <2>5. ASSUME NEW f
        PROVE  (\E j \in 1..n : line_sends'[j].event = f) <=> UsedToken(f, n) \/ f = event
    BY <2>1, <2>2, <2>3 DEF UsedToken
  <2> QED BY <2>4, <2>5
<1>14. TokenKept(u)'
  <2>1. IsLast(e, u, Len(line_events))'
    BY <1>1, <1>2 DEF IsLast
  <2>2. UsedToken(e, n + 1)' \/ LateFor(e, now)'
    <3>1. LateFor(e, now)' <=> LateFor(e, now)
      BY <1>1 DEF LateFor
    <3> QED BY <1>5, <1>13, <3>1
  <2>3. reply_tokens'[u] = NoReplyToken
    BY <1>1 DEF TokensInv, TokenTypes
  <2> QED BY <1>1, <1>8, <2>1, <2>2, <2>3 DEF TokenKept
<1>15. ASSUME NEW v \in LineUsers, v # u PROVE TokenKept(v)'
  <2>1. TokenKept(v) /\ reply_tokens'[v] = reply_tokens[v]
    BY <1>1, <1>15 DEF TokensInv, TokenTypes, LineInv
  <2>2. CASE reply_tokens[v] = NoReplyToken /\ \A i \in 1..Len(line_events) : line_events[i].user # v
    BY <1>1, <2>1, <2>2 DEF TokenKept
  <2>3. ASSUME NEW f \in 1..Len(line_events), IsLast(f, v, Len(line_events)),
               \/ /\ reply_tokens[v] = [event |-> f, ends |-> line_events[f].at + LineTtl]
                  /\ ~UsedToken(f, n)
               \/ /\ reply_tokens[v] = NoReplyToken
                  /\ UsedToken(f, n) \/ LateFor(f, now)
        PROVE  TokenKept(v)'
    <3>1. IsLast(f, v, Len(line_events))'
      BY <1>1, <2>3 DEF IsLast
    <3>2. f # e /\ f # 0
      BY <1>2, <1>15, <2>3, <1>4 DEF IsLast
    <3>3. UsedToken(f, n + 1)' <=> UsedToken(f, n)
      BY <1>6, <1>13, <3>2
    <3>4. LateFor(f, now)' <=> LateFor(f, now)
      BY <1>1 DEF LateFor
    <3> QED BY <1>1, <1>8, <2>1, <2>3, <3>1, <3>3, <3>4 DEF TokenKept
  <2> QED BY <1>0, <2>1, <2>2, <2>3 DEF TokenKept
<1>16. TeamsInv'
  BY <1>1 DEF TokensInv, TeamsInv, ReplyInTime
<1> QED BY <1>1, <1>9, <1>12, <1>14, <1>15, <1>16 DEF TokensInv, LineInv

(* A step of the replies of Teams, or of the clock.                        *)
LEMMA LineStill ==
  ASSUME TokensInv, now' \in Nat, now <= now',
         UNCHANGED <<reply_tokens, line_events, line_sends>>
  PROVE  LineInv'
<1>1. now \in Nat /\ \A e \in 1..Len(line_events) : line_events[e].at \in Nat
  <2>1. \A e \in 1..Len(line_events) : line_events[e] \in LineEvent
    BY DEF TokensInv, TokenTypes
  <2> QED BY <2>1 DEF TokensInv, TokenTypes, LineEvent
<1>2. \A e, k : UsedToken(e, k)' <=> UsedToken(e, k)
  BY DEF UsedToken
<1>3. \A e, u, n : IsLast(e, u, n)' <=> IsLast(e, u, n)
  BY DEF IsLast
<1>5. \A e \in 1..Len(line_events) : LateFor(e, now) => LateFor(e, now)'
  BY <1>1 DEF LateFor
<1>6. \A k \in 1..Len(line_sends) : SentRight(k)'
  BY PastStays DEF TokensInv, TokenTypes, LineInv
<1>7. ASSUME NEW u \in LineUsers PROVE TokenKept(u)'
  BY <1>2, <1>3, <1>5 DEF TokensInv, LineInv, TokenKept
<1> QED BY <1>6, <1>7 DEF LineInv

LEMMA TeamsTypes ==
  ASSUME TokensInv, NEW t \in TeamsTasks, NEW step \in {"idle", "ask", "post"}, NEW token \in Nat,
         TeamsTo(t, step, token)
  PROVE  /\ teams' \in [TeamsTasks -> TeamsReply]
         /\ teams'[t].step = step /\ teams'[t].since = now /\ teams'[t].token = token
         /\ \A u \in TeamsTasks : u # t => teams'[u] = teams[u]
<1> DEFINE r == [step |-> step, since |-> now, token |-> token]
<1>1. teams' = [teams EXCEPT ![t] = r]
  BY DEF TeamsTo
<1>2. r \in TeamsReply /\ r.step = step /\ r.since = now /\ r.token = token
  BY DEF TokensInv, TokenTypes, TeamsReply
<1> HIDE DEF r
<1>3. teams \in [TeamsTasks -> TeamsReply]
  BY DEF TokensInv, TokenTypes
<1>4. teams'[t] = r /\ \A u \in TeamsTasks : u # t => teams'[u] = teams[u]
  BY <1>1, <1>3
<1> QED BY <1>1, <1>2, <1>3, <1>4

(* One reply changes, the clock does not.                                  *)
LEMMA RepliesKeep ==
  ASSUME TokensInv, NEW t \in TeamsTasks, UNCHANGED <<now, reply_tokens, line_events, line_sends>>,
         teams' \in [TeamsTasks -> TeamsReply], \A u \in TeamsTasks : u # t => teams'[u] = teams[u],
         ReplyInTime(t)',
         token_cache' \in [token : Nat, ends : Nat],
         token_cache'.ends <= token_cache'.token + TeamsTimeout,
         teams_posts' \in Seq([token : Nat, at : Nat]),
         \A k \in 1..Len(teams_posts') : teams_posts'[k].at <= teams_posts'[k].token
  PROVE  TokensInv'
<1>1. TokenTypes'
  BY DEF TokensInv, TokenTypes
<1>2. LineInv'
  BY LineStill DEF TokensInv, TokenTypes
<1>3. \A u \in TeamsTasks : ReplyInTime(u)'
  <2>1. ASSUME NEW u \in TeamsTasks, u # t PROVE ReplyInTime(u)'
    BY <2>1 DEF TokensInv, TeamsInv, ReplyInTime
  <2> QED BY <2>1
<1> QED BY <1>1, <1>2, <1>3 DEF TokensInv, TeamsInv

LEMMA CacheFacts ==
  ASSUME TokensInv
  PROVE  /\ now \in Nat /\ token_cache.token \in Nat /\ token_cache.ends \in Nat
         /\ token_cache.ends <= token_cache.token + TeamsTimeout
         /\ token_cache \in [token : Nat, ends : Nat]
         /\ teams_posts \in Seq([token : Nat, at : Nat])
         /\ \A k \in 1..Len(teams_posts) : teams_posts[k].at <= teams_posts[k].token
BY DEF TokensInv, TokenTypes, TeamsInv

LEMMA ReplyFacts ==
  ASSUME TokensInv, NEW t \in TeamsTasks
  PROVE  /\ teams[t].since \in Nat /\ teams[t].token \in Nat /\ ReplyInTime(t)
BY DEF TokensInv, TokenTypes, TeamsInv, TeamsReply

LEMMA TeamsBeginsKeeps == ASSUME TokensInv, NEW t \in TeamsTasks, TeamsBegins(t) PROVE TokensInv'
<1>1. UNCHANGED <<now, reply_tokens, line_events, line_sends, token_cache, teams_posts>>
  BY DEF TeamsBegins
<1>2. CASE CacheServes
  <2>1. TeamsTo(t, "post", token_cache.token)
    BY <1>2 DEF TeamsBegins
  <2>2. /\ teams' \in [TeamsTasks -> TeamsReply]
        /\ teams'[t].since = now /\ teams'[t].token = token_cache.token
        /\ \A u \in TeamsTasks : u # t => teams'[u] = teams[u]
    BY <2>1, TeamsTypes, CacheFacts
  <2>3. token_cache.token >= now + TeamsTimeout /\ now <= now /\ now <= now + TeamsTimeout
    BY <1>2, CacheFacts DEF CacheServes
  <2>4. ReplyInTime(t)'
    BY <1>1, <2>2, <2>3 DEF ReplyInTime
  <2> QED BY <1>1, <2>2, <2>4, RepliesKeep, CacheFacts
<1>3. CASE ~CacheServes
  <2>1. TeamsTo(t, "ask", 0)
    BY <1>3 DEF TeamsBegins
  <2>2. /\ teams' \in [TeamsTasks -> TeamsReply]
        /\ teams'[t].since = now /\ teams'[t].step = "ask"
        /\ \A u \in TeamsTasks : u # t => teams'[u] = teams[u]
    BY <2>1, TeamsTypes
  <2>3. now <= now /\ now <= now + TeamsTimeout
    BY CacheFacts
  <2>4. ReplyInTime(t)'
    BY <1>1, <2>2, <2>3 DEF ReplyInTime
  <2> QED BY <1>1, <2>2, <2>4, RepliesKeep, CacheFacts
<1> QED BY <1>2, <1>3

LEMMA TokenArrivesKeeps ==
  ASSUME TokensInv, NEW t \in TeamsTasks, NEW life \in Lifetimes, TokenArrives(t, life)
  PROVE  TokensInv'
<1>1. PICK issued \in teams[t].since..now :
        /\ token_cache' = [token |-> issued + life, ends |-> now + life]
        /\ TeamsTo(t, "post", issued + life)
  BY DEF TokenArrives
<1>2. UNCHANGED <<now, reply_tokens, line_events, line_sends, teams_posts>> /\ teams[t].step # "idle"
  BY DEF TokenArrives
<1>3. teams[t].since <= now /\ now <= teams[t].since + TeamsTimeout
  BY <1>2, ReplyFacts DEF ReplyInTime
<1>4. /\ now \in Nat /\ teams[t].since \in Nat /\ life \in Nat /\ life >= 2 * TeamsTimeout
  BY ReplyFacts, CacheFacts
<1>5. /\ issued \in Nat /\ issued + life \in Nat /\ now + life <= issued + life + TeamsTimeout
      /\ issued + life >= now + TeamsTimeout /\ now <= now + TeamsTimeout /\ now <= now
  BY <1>3, <1>4
<1>6. /\ teams' \in [TeamsTasks -> TeamsReply]
      /\ teams'[t].since = now /\ teams'[t].token = issued + life
      /\ \A u \in TeamsTasks : u # t => teams'[u] = teams[u]
  BY <1>1, <1>5, TeamsTypes
<1>7. ReplyInTime(t)'
  BY <1>2, <1>5, <1>6 DEF ReplyInTime
<1>8. /\ token_cache' \in [token : Nat, ends : Nat]
      /\ token_cache'.ends <= token_cache'.token + TeamsTimeout
  BY <1>1, <1>4, <1>5
<1> QED BY <1>2, <1>6, <1>7, <1>8, RepliesKeep, CacheFacts

LEMMA TeamsPostsKeeps == ASSUME TokensInv, NEW t \in TeamsTasks, TeamsPosts(t) PROVE TokensInv'
<1> DEFINE post == [token |-> teams[t].token, at |-> now]
<1>1. /\ teams_posts' = Append(teams_posts, post) /\ TeamsTo(t, "idle", 0)
      /\ UNCHANGED <<now, reply_tokens, line_events, line_sends, token_cache>>
  BY DEF TeamsPosts
<1>2. teams[t].step # "idle" /\ teams[t].step = "post"
  BY DEF TeamsPosts
<1>3. now <= teams[t].token /\ now \in Nat /\ teams[t].token \in Nat
  <2>1. now <= teams[t].since + TeamsTimeout /\ teams[t].token >= teams[t].since + TeamsTimeout
    BY <1>2, ReplyFacts DEF ReplyInTime
  <2> QED BY <2>1, ReplyFacts, CacheFacts
<1>4. post \in [token : Nat, at : Nat] /\ post.at <= post.token
  BY <1>3
<1> HIDE DEF post
<1>5. /\ teams_posts' \in Seq([token : Nat, at : Nat])
      /\ \A k \in 1..Len(teams_posts') : teams_posts'[k].at <= teams_posts'[k].token
  <2>1. /\ teams_posts' \in Seq([token : Nat, at : Nat])
        /\ Len(teams_posts') = Len(teams_posts) + 1 /\ teams_posts'[Len(teams_posts')] = post
        /\ \A k \in 1..Len(teams_posts) : teams_posts'[k] = teams_posts[k]
    BY <1>1, <1>4, CacheFacts
  <2>2. \A k \in 1..Len(teams_posts') : k \in 1..Len(teams_posts) \/ k = Len(teams_posts')
    BY <2>1, CacheFacts
  <2> QED BY <1>4, <2>1, <2>2, CacheFacts
<1>6. /\ teams' \in [TeamsTasks -> TeamsReply] /\ teams'[t].step = "idle"
      /\ \A u \in TeamsTasks : u # t => teams'[u] = teams[u]
  BY <1>1, TeamsTypes
<1>7. ReplyInTime(t)'
  BY <1>6 DEF ReplyInTime
<1> QED BY <1>1, <1>5, <1>6, <1>7, RepliesKeep, CacheFacts

LEMMA TeamsFailsKeeps == ASSUME TokensInv, NEW t \in TeamsTasks, TeamsFails(t) PROVE TokensInv'
<1>1. /\ TeamsTo(t, "idle", 0)
      /\ UNCHANGED <<now, reply_tokens, line_events, line_sends, token_cache, teams_posts>>
  BY DEF TeamsFails
<1>2. /\ teams' \in [TeamsTasks -> TeamsReply] /\ teams'[t].step = "idle"
      /\ \A u \in TeamsTasks : u # t => teams'[u] = teams[u]
  BY <1>1, TeamsTypes
<1>3. ReplyInTime(t)'
  BY <1>2 DEF ReplyInTime
<1> QED BY <1>1, <1>2, <1>3, RepliesKeep, CacheFacts

LEMMA TokensTickKeeps == ASSUME TokensInv, TokensTick PROVE TokensInv'
<1>1. /\ now' = now + 1 /\ now \in Nat /\ UNCHANGED token_vars
      /\ \A t \in TeamsTasks : teams[t].step # "idle" => now < teams[t].since + TeamsTimeout
  BY CacheFacts DEF TokensTick, Passes
<1>2. TokenTypes'
  BY <1>1 DEF token_vars, TokensInv, TokenTypes
<1>3. LineInv'
  BY <1>1, LineStill DEF token_vars
<1>4. ASSUME NEW t \in TeamsTasks PROVE ReplyInTime(t)'
  <2>1. teams' = teams /\ teams[t].since \in Nat /\ ReplyInTime(t)
    BY <1>1, ReplyFacts DEF token_vars
  <2> QED BY <1>1, <2>1 DEF ReplyInTime
<1> QED BY <1>1, <1>2, <1>3, <1>4 DEF token_vars, TokensInv, TeamsInv

LEMMA InitTokens == ClockInit /\ TokensInit => TokensInv
<1> SUFFICES ASSUME ClockInit, TokensInit PROVE TokensInv
  OBVIOUS
<1>1. /\ line_events \in Seq(LineEvent) /\ line_sends \in Seq(LineSent) /\ Len(line_events) = 0
      /\ Len(line_sends) = 0
      /\ teams_posts \in Seq([token : Nat, at : Nat]) /\ Len(teams_posts) = 0
  BY DEF TokensInit
<1>2. reply_tokens \in [LineUsers -> ReplyTokens]
  BY DEF TokensInit, ReplyTokens, NoReplyToken
<1>3. teams \in [TeamsTasks -> TeamsReply]
  BY DEF TokensInit, TeamsReply, TeamsIdle
<1>4. token_cache \in [token : Nat, ends : Nat] /\ token_cache.ends <= token_cache.token + TeamsTimeout
  BY DEF TokensInit
<1>5. TokenTypes
  BY <1>1, <1>2, <1>3, <1>4 DEF TokenTypes, ClockInit
<1>6. LineInv
  BY <1>1 DEF LineInv, TokenKept, TokensInit
<1>7. \A t \in TeamsTasks : ReplyInTime(t)
  BY DEF TokensInit, TeamsIdle, ReplyInTime
<1> QED BY <1>1, <1>4, <1>5, <1>6, <1>7 DEF TokensInv, TeamsInv

LEMMA NextTokens == TokensInv /\ [TokensNext]_<<now, token_vars>> => TokensInv'
<1> SUFFICES ASSUME TokensInv, [TokensNext]_<<now, token_vars>> PROVE TokensInv'
  OBVIOUS
<1>1. CASE UNCHANGED <<now, token_vars>>
  <2>1. TokenTypes'
    BY <1>1 DEF token_vars, TokensInv, TokenTypes
  <2>2. LineInv'
    BY <1>1, LineStill, CacheFacts DEF token_vars
  <2>3. TeamsInv'
    BY <1>1 DEF token_vars, TokensInv, TeamsInv, ReplyInTime
  <2> QED BY <2>1, <2>2, <2>3 DEF TokensInv
<1> QED BY <1>1, LineInboundKeeps, LineSendKeeps, TeamsBeginsKeeps, TokenArrivesKeeps, TeamsPostsKeeps,
        TeamsFailsKeeps, TokensTickKeeps DEF TokensNext

(* A reply of LINE is a push only if the sender's last token was used or   *)
(* is too old, and a token is used once; a reply of Teams is never posted  *)
(* with an expired token, however long fetching and posting take.          *)
THEOREM TokensStayGood == TokensSpec => []TokensGood
<1>1. ASSUME TokensInv PROVE TokensGood
  <2>1. ASSUME NEW k \in DOMAIN line_sends
        PROVE  LET s == line_sends[k]
                   last == LastEvent(s)
                   used == \E j \in 1..(k - 1) : line_sends[j].event = last
                   late == s.at > line_events[last].at + LineTtl
               IN  s.event = IF used \/ late THEN 0 ELSE last
    <3>1. k \in 1..Len(line_sends) /\ line_sends[k] \in LineSent
      BY <1>1, <2>1 DEF TokensInv, TokenTypes
    <3>2. PICK e : /\ IsLast(e, line_sends[k].user, line_sends[k].events)
                   /\ line_sends[k].event = IF UsedToken(e, k) \/ LateFor(e, line_sends[k].at) THEN 0 ELSE e
      BY <1>1, <3>1 DEF TokensInv, LineInv, SentRight
    <3>3. LastEvent(line_sends[k]) = e
      BY <3>1, <3>2, OneLast DEF LineSent
    <3> QED BY <3>2, <3>3 DEF UsedToken, LateFor
  <2>2. DOMAIN teams_posts = 1..Len(teams_posts)
    BY <1>1, CacheFacts
  <2> QED BY <1>1, <2>1, <2>2, CacheFacts DEF TokensGood
<1> QED BY <1>1, InitTokens, NextTokens, PTL DEF TokensSpec
HIDE TokenAssumption

-------------------------------------------------------------------------------
(***************************************************************************)
(* AdapterGates: the mention rule between an adapter and the gateway, for  *)
(* any users and files.                                                    *)
(*                                                                         *)
(* What the adapter let pass while the rule was on is a mention or excused *)
(* (MentionKept), and the two gates read the same rule or the later one    *)
(* reads a stricter file.                                                  *)
(***************************************************************************)
(* Why a public message that mentions nobody may go on.                    *)
Excused(m, was) ==
  \/ m.kind \in {"twilio_sms", "twilio_voice", "webui"}
  \/ m.kind \in {"slack", "imap", "line", "gmail"} /\ was # "untrusted"
  \/ m.kind \in {"telegram", "webhook", "line"} /\ m.flag

MentionKept(m, env, was) ==
  /\ m.public /\ ~m.mentioned /\ strict => Excused(m, was)
  /\ env.trust \in {"untrusted", was}

GatesInv ==
  /\ strict \in BOOLEAN /\ gate_yaml \in Yamls
  /\ passage.step \in {"none", "adapter", "gateway", "answered"}
  /\ passage.step = "adapter" => passage.m \in Messages
  /\ passage.step # "none" => (strict => gate_yaml.mention_only)
  /\ passage.step = "gateway" =>
       passage = [step |-> "gateway", m |-> passage.m, env |-> passage.env, was |-> passage.was]
  /\ passage.step \in {"gateway", "answered"} => MentionKept(passage.m, passage.env, passage.was)

(* Who mentions nobody is admitted nowhere while the rule is on.           *)
LEMMA NothingAdmitted ==
  ASSUME gate_yaml.mention_only, NEW u, NEW with_owners, NEW unmentioned, unmentioned
  PROVE  ~Admits(u, with_owners, unmentioned)
BY DEF Admits

(* An envelope says no more of the sender than the pairings do.            *)
LEMMA EnvelopeHonest ==
  ASSUME NEW m \in Messages, NEW e \in OnMessage(m) PROVE e.trust \in {"untrusted", trust[m.user]}
<1>1. \A level, unmentioned : \A x \in Told(level, unmentioned) : x.trust = level
  BY DEF Told
<1>2. \A x \in Envelope(m) : x.trust = trust[m.user]
  BY <1>1 DEF Envelope
<1>3. m.kind \in Kinds
  BY DEF Messages
<1>4. CASE m.kind \in {"discord", "slack", "signal", "matrix", "teams"}
  BY <1>1, <1>2, <1>4 DEF OnMessage, DiscordGate, SlackGate, SignalGate, MatrixGate, TeamsGate
<1>5. CASE m.kind \in {"webhook", "telegram", "local_mic", "webui", "line"}
  BY <1>1, <1>2, <1>5 DEF OnMessage, WebhookGate, TelegramGate, LocalMicGate, WebuiGate, LineGate
<1>6. CASE m.kind \in {"whatsapp", "imap", "gmail", "twilio_sms", "twilio_voice"}
  BY <1>1, <1>2, <1>6 DEF OnMessage, WhatsAppGate, ImapGate, GmailGate, TwilioSmsGate, TwilioVoiceGate
<1> QED BY <1>3, <1>4, <1>5, <1>6 DEF Kinds

(* The adapter's gate, kind by kind.                                       *)
LEMMA GateKeepsRule ==
  ASSUME gate_yaml.mention_only, NEW m \in Messages, m.public, ~m.mentioned, OnMessage(m) # {}
  PROVE  Excused(m, trust[m.user])
<1>1. /\ m.kind \in Kinds /\ m.flag \in BOOLEAN /\ m.mentioned = FALSE /\ m.public = TRUE
  BY DEF Messages
<1>2. \A unmentioned \in BOOLEAN : PublicGate(m, ~unmentioned) => ~unmentioned
  BY NothingAdmitted DEF PublicGate
<1>3. ~PublicGate(m, FALSE) /\ (PublicGate(m, m.flag) => m.flag)
  BY <1>1, <1>2, NothingAdmitted DEF PublicGate
<1>4. CASE m.kind \in {"discord", "signal", "matrix", "teams", "local_mic", "whatsapp"}
  <2>1. ~Admits(m.user, TRUE, m.public /\ ~m.mentioned)
    BY <1>1, NothingAdmitted
  <2>2. OnMessage(m) = {}
    BY <1>1, <1>3, <1>4, <2>1
       DEF OnMessage, DiscordGate, SignalGate, MatrixGate, TeamsGate, LocalMicGate, WhatsAppGate
  <2> QED BY <2>2
<1>5. CASE m.kind \in {"webhook", "telegram"}
  BY <1>1, <1>3, <1>5 DEF OnMessage, WebhookGate, TelegramGate, Excused
<1>6. CASE m.kind \in {"slack", "imap"}
  BY <1>1, <1>6 DEF OnMessage, SlackGate, ImapGate, Excused
<1>7. CASE m.kind = "line"
  <2>1. ~m.flag => ~Admits(m.user, FALSE, ~m.flag)
    BY NothingAdmitted
  <2> QED BY <1>1, <1>7, <2>1 DEF OnMessage, LineGate, Excused
<1>8. CASE m.kind = "gmail"
  <2>1. trust[m.user] = "untrusted" => ~GmailListed(m)
    BY NothingAdmitted DEF GmailListed
  <2> QED BY <1>1, <1>8, <2>1 DEF OnMessage, GmailGate, Excused
<1>9. CASE m.kind \in {"twilio_sms", "twilio_voice", "webui"}
  BY <1>9 DEF Excused
<1> QED BY <1>1, <1>4, <1>5, <1>6, <1>7, <1>8, <1>9 DEF Kinds

LEMMA GatewayKeeps == ASSUME GatesInv, GatewayGate PROVE GatesInv'
<1>1. /\ passage.step = "gateway" /\ UNCHANGED <<gate_yaml, strict>>
      /\ passage' = NoPassage \/ passage' = [passage EXCEPT !.step = "answered"]
  BY DEF GatewayGate
<1>2. /\ passage = [step |-> "gateway", m |-> passage.m, env |-> passage.env, was |-> passage.was]
      /\ MentionKept(passage.m, passage.env, passage.was)
  BY <1>1 DEF GatesInv
<1>3. CASE passage' = NoPassage
  <2>1. passage'.step = "none"
    BY <1>3 DEF NoPassage
  <2> QED BY <1>1, <2>1 DEF GatesInv
<1>4. CASE passage' = [passage EXCEPT !.step = "answered"]
  <2>1. /\ passage'.step = "answered" /\ passage'.m = passage.m /\ passage'.env = passage.env
        /\ passage'.was = passage.was
    BY <1>2, <1>4
  <2>2. MentionKept(passage'.m, passage'.env, passage'.was)
    BY <1>2, <2>1
  <2>3. MentionKept(passage.m, passage.env, passage.was)'
    BY <1>1, <2>2 DEF MentionKept
  <2> QED BY <1>1, <2>1, <2>3 DEF GatesInv
<1> QED BY <1>1, <1>3, <1>4

LEMMA AdapterKeeps == ASSUME GatesInv, AdapterGate PROVE GatesInv'
<1>1. passage.step = "adapter" /\ UNCHANGED <<trust, gate_yaml, strict>>
  BY DEF AdapterGate
<1>2. passage.m \in Messages /\ (strict => gate_yaml.mention_only)
  BY <1>1 DEF GatesInv
<1>3. CASE passage' = NoPassage
  <2>1. passage'.step = "none"
    BY <1>3 DEF NoPassage
  <2> QED BY <1>1, <2>1 DEF GatesInv
<1>4. ASSUME NEW e \in OnMessage(passage.m),
             passage' = [step |-> "gateway", m |-> passage.m, env |-> e, was |-> trust[passage.m.user]]
      PROVE  GatesInv'
  <2>1. /\ passage'.step = "gateway" /\ passage'.m = passage.m /\ passage'.env = e
        /\ passage'.was = trust[passage.m.user]
    BY <1>4
  <2>2. passage' = [step |-> "gateway", m |-> passage'.m, env |-> passage'.env, was |-> passage'.was]
    BY <1>4, <2>1
  <2>3. e.trust \in {"untrusted", trust[passage.m.user]}
    BY <1>2, EnvelopeHonest
  <2>4. passage.m.public /\ ~passage.m.mentioned /\ strict => Excused(passage.m, trust[passage.m.user])
    BY <1>2, GateKeepsRule
  <2>5. MentionKept(passage.m, passage.env, passage.was)'
    BY <1>1, <2>1, <2>3, <2>4 DEF MentionKept
  <2> QED BY <1>1, <1>2, <2>1, <2>2, <2>5 DEF GatesInv
<1>5. OnMessage(passage.m) = {} => passage' = NoPassage
  BY DEF AdapterGate
<1>6. \/ passage' = NoPassage
      \/ \E e \in OnMessage(passage.m) :
           passage' = [step |-> "gateway", m |-> passage.m, env |-> e, was |-> trust[passage.m.user]]
  BY <1>5 DEF AdapterGate
<1> QED BY <1>3, <1>4, <1>6

(* An edit of channels.yaml leaves the rule on, or ends it for the message.*)
LEMMA ChangesKeep == ASSUME GatesInv, GateChanges PROVE GatesInv'
<1>1. gate_yaml' \in Yamls /\ passage' = passage /\ strict' = (strict /\ gate_yaml'.mention_only)
  BY DEF GateChanges, GatesInv
<1>2. (strict' => strict) /\ (strict' => gate_yaml'.mention_only) /\ strict' \in BOOLEAN
  BY <1>1 DEF Yamls, GatesInv
<1>3. passage.step \in {"gateway", "answered"} => MentionKept(passage.m, passage.env, passage.was)'
  BY <1>1, <1>2 DEF GatesInv, MentionKept
<1> QED BY <1>1, <1>2, <1>3 DEF GatesInv

LEMMA NextGates == GatesInv /\ [GatesNext]_gate_vars => GatesInv'
<1> SUFFICES ASSUME GatesInv, [GatesNext]_gate_vars PROVE GatesInv'
  OBVIOUS
<1>1. ASSUME NEW m \in Messages, Comes(m) PROVE GatesInv'
  <2>1. passage' = [step |-> "adapter", m |-> m] /\ strict' = gate_yaml.mention_only /\ gate_yaml' = gate_yaml
    BY <1>1 DEF Comes
  <2>2. passage'.step = "adapter" /\ passage'.m = m
    BY <2>1
  <2>3. gate_yaml \in Yamls /\ gate_yaml.mention_only \in BOOLEAN
    BY DEF GatesInv, Yamls
  <2> QED BY <2>1, <2>2, <2>3 DEF GatesInv
<1>2. CASE Answered
  <2>1. passage'.step = "none" /\ UNCHANGED <<gate_yaml, strict>>
    BY <1>2 DEF Answered, NoPassage
  <2> QED BY <2>1 DEF GatesInv
<1>3. CASE UNCHANGED gate_vars
  BY <1>3 DEF gate_vars, GatesInv, MentionKept
<1> QED BY <1>1, <1>2, <1>3, AdapterKeeps, GatewayKeeps, ChangesKeep DEF GatesNext

(* With mention_only_in_public a public message that mentions nobody is    *)
(* answered only by the adapters that do not look for mentions, and nobody *)
(* is answered as more than the pairings said, whatever changes between    *)
(* the two gates.                                                          *)
THEOREM MentionRuleIsKept == GatesSpec => []MentionRuleKept
<1>1. ASSUME GatesInit PROVE GatesInv
  <2>1. passage.step = "none" /\ strict \in BOOLEAN /\ gate_yaml \in Yamls
    BY <1>1 DEF GatesInit, NoPassage
  <2> QED BY <2>1 DEF GatesInv
<1>2. GatesInv => MentionRuleKept
  BY DEF GatesInv, MentionKept, Excused, MentionRuleKept
<1> QED BY <1>1, <1>2, NextGates, PTL DEF GatesSpec

-------------------------------------------------------------------------------
(***************************************************************************)
(* AdapterSends: the replies of every adapter.                             *)
(*                                                                         *)
(* What the result says of the vendor's answer (Honest) is a case by case  *)
(* argument over the steps and the adapters.                               *)
(***************************************************************************)
(* Who calls the vendor itself.                                            *)
VendorCallers == {"telegram", "webhook", "whatsapp", "twilio_sms", "teams", "gmail", "imap"}

(* What the result says, given what the vendor has.                        *)
Honest(r, result, has) ==
  /\ has.says = "limits" =>
       \/ result = "limited"
       \/ ~r.injected /\ r.ch = "gmail" /\ result = "raised"
       \/ ~r.injected /\ r.ch \in PassesJsonOn /\ has.json /\ ~has.tells
       \/ ~r.injected /\ r.ch = "telegram" /\ ~has.json /\ result = "raised"
  /\ result = "done" => has.says = "accepts" \/ (~r.injected /\ r.ch = "webui")
  /\ result = "raised" => \/ has.says # "accepts"
                          \/ ~r.injected /\ r.ch \in {"telegram", "teams"} /\ ~has.json

SendInv ==
  /\ outgoing.step \in {"none", "speech", "token", "typing", "call", "over", "answered"}
  /\ outgoing.step \notin {"over", "answered"} => vendor_has = NoAnswer
  /\ outgoing.step # "none" => outgoing.r \in Replies
  /\ outgoing.step = "token" => ~outgoing.r.injected /\ outgoing.r.ch = "teams"
  /\ outgoing.step = "typing" => outgoing.r.injected
  /\ outgoing.step = "call" => outgoing.r.injected \/ outgoing.r.ch \in VendorCallers
  /\ outgoing.step \in {"over", "answered"} => Honest(outgoing.r, outgoing.result, vendor_has)
  /\ outgoing.step = "answered" => (outgoing.status = 500 => outgoing.result = "raised")

LEMMA GoesKeeps ==
  ASSUME SendInv, NEW r \in Replies, NEW step, GoesTo(r, step), vendor_has' = NoAnswer,
         \/ step = "speech"
         \/ step = "token" /\ ~r.injected /\ r.ch = "teams"
         \/ step = "typing" /\ r.injected
         \/ step = "call" /\ (r.injected \/ r.ch \in VendorCallers)
  PROVE  SendInv'
<1>1. outgoing'.step = step /\ outgoing'.r = r
  BY DEF GoesTo
<1> QED BY <1>1 DEF SendInv

LEMMA OverKeeps ==
  ASSUME NEW r \in Replies, NEW result, Over(r, result), Honest(r, result, vendor_has')
  PROVE  SendInv'
<1>1. outgoing'.step = "over" /\ outgoing'.r = r /\ outgoing'.result = result
  BY DEF Over
<1>2. Honest(outgoing'.r, outgoing'.result, vendor_has')
  BY <1>1
<1>3. Honest(outgoing.r, outgoing.result, vendor_has)'
  BY <1>2
<1> QED BY <1>1, <1>3 DEF SendInv

(* A result without a call.                                                *)
LEMMA NothingSaid ==
  ASSUME NEW r, NEW result, result = "done" => ~r.injected /\ r.ch = "webui"
  PROVE  Honest(r, result, NoAnswer)
BY DEF Honest, NoAnswer

(* The vendor's answer, channel by channel.                                *)
LEMMA AnswerHonest ==
  ASSUME NEW r \in Replies, NEW v \in VendorAnswersOf, r.injected \/ r.ch \in VendorCallers
  PROVE  Honest(r, ResultOf(r, v), v)
<1>1. v.says \in {"accepts", "limits", "refuses"} /\ v.json \in BOOLEAN /\ v.tells \in BOOLEAN
  BY DEF VendorAnswersOf
<1>2. r.injected \in BOOLEAN
  BY DEF Replies
<1>3. /\ v.says = "limits" => Passed(v) = "limited"
      /\ v.says = "accepts" <=> Passed(v) = "done"
      /\ Passed(v) # "raised"
  BY <1>1 DEF Passed
<1>4. /\ v.says = "accepts" <=> Body(v) = "done"
      /\ v.says = "limits" /\ v.tells => Body(v) = "limited"
      /\ Body(v) # "raised"
  BY <1>1 DEF Body
<1>5. CASE r.injected
  BY <1>3, <1>5 DEF ResultOf, Honest
<1>6. CASE ~r.injected /\ r.ch = "telegram"
  BY <1>1, <1>3, <1>6 DEF ResultOf, Honest, TelegramSend
<1>7. CASE ~r.injected /\ r.ch \in {"webhook", "whatsapp"}
  BY <1>1, <1>3, <1>4, <1>7 DEF ResultOf, Honest, WebhookSend, WhatsAppSend, PassesJsonOn
<1>8. CASE ~r.injected /\ r.ch = "twilio_sms"
  BY <1>1, <1>3, <1>8 DEF ResultOf, Honest, TwilioSmsSend
<1>9. CASE ~r.injected /\ r.ch = "teams"
  BY <1>1, <1>3, <1>9 DEF ResultOf, Honest, TeamsSend
<1>10. CASE ~r.injected /\ r.ch = "imap"
  BY <1>1, <1>3, <1>10 DEF ResultOf, Honest, ImapSend
<1>11. CASE ~r.injected /\ r.ch = "gmail"
  BY <1>1, <1>3, <1>11 DEF ResultOf, Honest, GmailSend
<1> QED BY <1>2, <1>5, <1>6, <1>7, <1>8, <1>9, <1>10, <1>11 DEF VendorCallers

LEMMA SendBeginsKeeps == ASSUME SendInv, NEW r \in Replies, SendBegins(r) PROVE SendInv'
<1>1. vendor_has = NoAnswer /\ vendor_has' = NoAnswer
  BY DEF SendBegins, SendInv
<1>2. r.ch \in SendChannels /\ r.injected \in BOOLEAN /\ r.text \in BOOLEAN /\ r.ready \in BOOLEAN
  BY DEF Replies
<1>3. ASSUME Over(r, "raised") \/ Over(r, "refusal") \/ Over(r, "unsent") PROVE SendInv'
  BY <1>1, <1>3, NothingSaid, OverKeeps
<1>4. \/ Over(r, "raised") \/ Over(r, "refusal") \/ Over(r, "unsent") \/ GoesTo(r, "speech")
      \/ GoesTo(r, "typing") /\ r.injected
      \/ Over(r, "done") /\ ~r.injected /\ r.ch = "webui"
      \/ GoesTo(r, "token") /\ ~r.injected /\ r.ch = "teams"
      \/ GoesTo(r, "call") /\ (r.injected \/ r.ch \in VendorCallers)
  BY <1>2 DEF SendBegins, SendChannels, VendorCallers, Voiceless
<1>5. CASE Over(r, "done") /\ ~r.injected /\ r.ch = "webui"
  BY <1>1, <1>5, NothingSaid, OverKeeps
<1> QED BY <1>1, <1>3, <1>4, <1>5, GoesKeeps

LEMMA NextSend == SendInv /\ [SendNext]_send_vars => SendInv'
<1> SUFFICES ASSUME SendInv, [SendNext]_send_vars PROVE SendInv'
  OBVIOUS
<1> DEFINE r == outgoing.r
<1>1. CASE Speaks
  <2>1. r \in Replies /\ vendor_has' = NoAnswer
    BY <1>1 DEF Speaks, SendInv
  <2>2. \/ r.injected /\ GoesTo(r, "call")
        \/ Over(r, "unsent") \/ Over(r, "raised")
    BY <1>1 DEF Speaks
  <2> HIDE DEF r
  <2> QED BY <2>1, <2>2, GoesKeeps, OverKeeps, NothingSaid
<1>2. CASE TokenFetched
  <2>1. r \in Replies /\ vendor_has' = NoAnswer /\ r.ch \in VendorCallers
    BY <1>2 DEF TokenFetched, SendInv, VendorCallers
  <2>2. GoesTo(r, "call") \/ Over(r, "raised")
    BY <1>2 DEF TokenFetched
  <2> HIDE DEF r
  <2> QED BY <2>1, <2>2, GoesKeeps, OverKeeps, NothingSaid
<1>3. CASE TypingShown
  <2>1. r \in Replies /\ vendor_has' = NoAnswer /\ r.injected
    BY <1>3 DEF TypingShown, SendInv
  <2>2. GoesTo(r, "call") \/ Over(r, "limited") \/ Over(r, "raised")
    BY <1>3 DEF TypingShown
  <2> HIDE DEF r
  <2> QED BY <2>1, <2>2, GoesKeeps, OverKeeps, NothingSaid
<1>4. ASSUME NEW v \in VendorAnswersOf, CallAnswered(v) PROVE SendInv'
  <2>1. r \in Replies /\ (r.injected \/ r.ch \in VendorCallers)
    BY <1>4 DEF CallAnswered, SendInv
  <2>2. vendor_has' = v /\ Over(r, ResultOf(r, v))
    BY <1>4 DEF CallAnswered
  <2> HIDE DEF r
  <2>3. Honest(r, ResultOf(r, v), vendor_has')
    BY <2>1, <2>2, AnswerHonest
  <2> QED BY <2>1, <2>2, <2>3, OverKeeps
<1>5. CASE CallBreaks
  <2>1. r \in Replies /\ Over(r, "raised")
    BY <1>5 DEF CallBreaks, SendInv
  <2>2. vendor_has'.says # "accepts" /\ vendor_has'.says # "limits"
    <3>1. vendor_has' \in {[NoAnswer EXCEPT !.says = "accepts, unheard"], NoAnswer}
      BY <1>5 DEF CallBreaks
    <3>2. [NoAnswer EXCEPT !.says = "accepts, unheard"].says = "accepts, unheard" /\ NoAnswer.says = "nothing"
      BY DEF NoAnswer
    <3> QED BY <3>1, <3>2
  <2> HIDE DEF r
  <2>3. Honest(r, "raised", vendor_has')
    BY <2>2 DEF Honest
  <2> QED BY <2>1, <2>3, OverKeeps
<1>6. CASE RouteAnswers
  <2>1. /\ outgoing.step = "over" /\ vendor_has' = vendor_has
        /\ outgoing' = [r |-> outgoing.r, step |-> "answered", result |-> outgoing.result,
                        status |-> IF outgoing.result = "raised" THEN 500 ELSE 200]
    BY <1>6 DEF RouteAnswers
  <2>2. /\ outgoing'.step = "answered" /\ outgoing'.r = outgoing.r
        /\ outgoing'.result = outgoing.result
        /\ outgoing'.status = IF outgoing.result = "raised" THEN 500 ELSE 200
    BY <2>1
  <2>3. Honest(outgoing.r, outgoing.result, vendor_has) /\ outgoing.r \in Replies
    BY <2>1 DEF SendInv
  <2>4. Honest(outgoing.r, outgoing.result, vendor_has)'
    BY <2>1, <2>2, <2>3
  <2> QED BY <2>2, <2>3, <2>4 DEF SendInv
<1>7. CASE NextReply
  <2>1. outgoing'.step = "none" /\ vendor_has' = NoAnswer
    BY <1>7 DEF NextReply
  <2> QED BY <2>1 DEF SendInv
<1>8. CASE UNCHANGED send_vars
  BY <1>8 DEF send_vars, SendInv
<1> QED BY <1>1, <1>2, <1>3, <1>4, <1>5, <1>6, <1>7, <1>8, SendBeginsKeeps DEF SendNext

(* A vendor's rate limit reaches the caller as one, "done" is said of what *)
(* the vendor accepted, and a vendor is made to repeat an inbound after an *)
(* accepted reply only when the acceptance was not understood; but for the *)
(* adapters and answers that SendTells names.                              *)
THEOREM SendsAreTold == SendSpec => []SendTells
<1>1. ASSUME SendInit PROVE SendInv
  <2>1. outgoing.step = "none" /\ vendor_has = NoAnswer
    BY <1>1 DEF SendInit
  <2> QED BY <2>1 DEF SendInv
<1>2. SendInv => SendTells
  BY DEF SendInv, Honest, SendTells
<1> QED BY <1>1, <1>2, NextSend, PTL DEF SendSpec

-------------------------------------------------------------------------------
(***************************************************************************)
(* WhatsAppRoutes: which vendor a reply goes out by, for any senders,      *)
(* replies at a time and size of the cache.                                *)
(*                                                                         *)
(* Behind the entry of a sender are only those remembered since his latest *)
(* message, unless those alone would fill the cache (BehindSince); the     *)
(* entry has the vendor of that message unless a trial overlapped it       *)
(* (EntryIsLatest), and a trial is only of senders for whom nothing is     *)
(* claimed (TrialsExcused).                                                *)
(***************************************************************************)
WaItems == [user : WaUsers, via : WaProviders]
WaTrying(t) == wa_send[t].pc \in {"try meta", "try twilio"}

WaTypes ==
  /\ provider_cache \in Seq(WaItems)
  /\ heard \in [WaUsers -> WaProviders \union {"nothing"}]
  /\ since \in [WaUsers -> SUBSET WaUsers]

WaSends ==
  [pc : {"idle", "direct", "try meta", "try twilio"}, user : WaUsers \union {""},
   via : WaProviders \union {""}]
SendTypes == wa_send \in [WaTasks -> WaSends]

CacheOnce ==
  /\ Len(provider_cache) <= WaCacheMax
  /\ \A i, j \in 1..Len(provider_cache) : provider_cache[i].user = provider_cache[j].user => i = j

SinceFinite == \A u \in WaUsers : IsFiniteSet(since[u])

(* The others remembered since would fill the cache.                       *)
Crowded(u) == Cardinality(since[u]) >= WaCacheMax

(* A place of u in the cache with only members of S behind it.             *)
PlaceOf(cache, u, S) ==
  \E i \in 1..Len(cache) : cache[i].user = u /\ \A j \in (i + 1)..Len(cache) : cache[j].user \in S

BehindSince ==
  \A u \in WaUsers : heard[u] # "nothing" => Crowded(u) \/ PlaceOf(provider_cache, u, since[u])

EntryIsLatest ==
  \A u \in WaUsers : heard[u] # "nothing" /\ u \notin overlapped /\ ~Crowded(u) =>
    \A i \in 1..Len(provider_cache) :
      provider_cache[i].user = u => provider_cache[i].via = heard[u]

SenderExcused(u) == u \in WaUsers /\ (heard[u] = "nothing" \/ u \in overlapped \/ Crowded(u))

TrialsExcused ==
  \A t \in WaTasks : WaTrying(t) =>
    wa_send[t].via \in WaProviders /\ SenderExcused(wa_send[t].user)

WaInv == WaTypes /\ SendTypes /\ CacheOnce /\ SinceFinite /\ BehindSince /\ EntryIsLatest /\ TrialsExcused

LEMMA InitWa == WaInit => WaInv
<1> SUFFICES ASSUME WaInit PROVE WaInv
  OBVIOUS
<1>1. WaTypes
  <2>1. provider_cache \in Seq(WaItems)
    BY DEF WaInit
  <2>2. heard \in [WaUsers -> WaProviders \union {"nothing"}]
    BY DEF WaInit
  <2>3. since \in [WaUsers -> SUBSET WaUsers]
    BY DEF WaInit
  <2> QED BY <2>1, <2>2, <2>3 DEF WaTypes
<1>6. SendTypes
  BY DEF WaInit, SendTypes, WaSends, WaIdle
<1>2. CacheOnce
  BY WaAssumption DEF WaInit, CacheOnce
<1>3. SinceFinite
  BY FS_EmptySet DEF WaInit, SinceFinite
<1>4. BehindSince /\ EntryIsLatest
  BY DEF WaInit, BehindSince, EntryIsLatest
<1>5. TrialsExcused
  BY DEF WaInit, TrialsExcused, WaTrying, WaIdle
<1> QED BY <1>1, <1>2, <1>3, <1>4, <1>5, <1>6 DEF WaInv

(* What a sequence is without the element at a place.                      *)
LEMMA RemovedAt ==
  ASSUME NEW S, NEW s \in Seq(S), NEW k \in 1..Len(s)
  PROVE  /\ RemoveAt(s, k) \in Seq(S) /\ Len(RemoveAt(s, k)) = Len(s) - 1
         /\ \A j \in 1..(Len(s) - 1) :
              RemoveAt(s, k)[j] = IF j < k THEN s[j] ELSE s[j + 1]
<1> DEFINE a == SubSeq(s, 1, k - 1)
           b == SubSeq(s, k + 1, Len(s))
<1>1. Len(s) \in Nat /\ k \in Nat /\ 1 <= k /\ k <= Len(s)
  OBVIOUS
<1>2. a \in Seq(S) /\ Len(a) = k - 1 /\ \A j \in 1..(k - 1) : a[j] = s[j]
  BY <1>1
<1>3. b \in Seq(S) /\ Len(b) = Len(s) - k /\ \A j \in 1..(Len(s) - k) : b[j] = s[j + k]
  BY <1>1
<1> HIDE DEF a, b
<1>4. /\ a \o b \in Seq(S) /\ Len(a \o b) = Len(a) + Len(b)
      /\ \A j \in 1..(Len(a) + Len(b)) : (a \o b)[j] = IF j <= Len(a) THEN a[j] ELSE b[j - Len(a)]
  <2>1. a \in Seq(S) /\ b \in Seq(S)
    BY <1>2, <1>3
  <2> QED BY <2>1
<1>5. ASSUME NEW j \in 1..(Len(s) - 1)
      PROVE  (a \o b)[j] = IF j < k THEN s[j] ELSE s[j + 1]
  <2>1. CASE j < k
    BY <2>1, <1>1, <1>2, <1>3, <1>4
  <2>2. CASE ~(j < k)
    <3>1. j - (k - 1) \in 1..(Len(s) - k) /\ (j - (k - 1)) + k = j + 1
      BY <2>2, <1>1
    <3>2. (a \o b)[j] = b[j - (k - 1)]
      BY <2>2, <1>1, <1>2, <1>3, <1>4
    <3> QED BY <2>2, <3>1, <3>2, <1>3
  <2> QED BY <2>1, <2>2
<1>6. RemoveAt(s, k) = a \o b
  BY DEF RemoveAt, a, b
<1>7. Len(a) + Len(b) = Len(s) - 1
  BY <1>1, <1>2, <1>3
<1> QED BY <1>4, <1>5, <1>6, <1>7

(* _remember_provider() puts u last; the others stay in their order, and   *)
(* only the first of a full cache goes, for a user who is new.             *)
LEMMA Remembered ==
  ASSUME WaTypes, CacheOnce, NEW u \in WaUsers, NEW via \in WaProviders, Remember(u, via)
  PROVE  LET n == Len(provider_cache')  new == [user |-> u, via |-> via] IN
         /\ provider_cache' \in Seq(WaItems) /\ n \in 1..WaCacheMax
         /\ provider_cache'[n] = new
         /\ \A j \in 1..(n - 1) :
              provider_cache'[j].user # u
              /\ \E i \in 1..Len(provider_cache) : provider_cache'[j] = provider_cache[i]
         /\ \A i, j \in 1..n : provider_cache'[i].user = provider_cache'[j].user => i = j
         /\ \A v \in WaUsers : \A S : v # u /\ IsFiniteSet(S) /\ PlaceOf(provider_cache, v, S) =>
              \/ Cardinality(S \union {u}) >= WaCacheMax
              \/ PlaceOf(provider_cache', v, S \union {u})
<1> DEFINE c == provider_cache
           new == [user |-> u, via |-> via]
           mine == {i \in 1..Len(c) : c[i].user = u}
           k == CHOOSE i \in mine : TRUE
           kept == IF mine # {} THEN RemoveAt(c, k)
                   ELSE IF Len(c) >= WaCacheMax THEN Tail(c) ELSE c
<1>a. c \in Seq(WaItems) /\ Len(c) \in Nat /\ Len(c) <= WaCacheMax /\ WaCacheMax \in Nat \ {0}
  <2>1. c \in Seq(WaItems)
    BY DEF WaTypes
  <2>2. Len(c) \in Nat
    BY <2>1
  <2> QED BY <2>1, <2>2, WaAssumption DEF CacheOnce
<1>b. \A i \in 1..Len(c) : c[i] \in WaItems
  BY <1>a
<1>c. \A i, j \in 1..Len(c) : c[i].user = c[j].user => i = j
  BY DEF CacheOnce
<1>d. new \in WaItems /\ new.user = u
  BY DEF WaItems
<1>e. provider_cache' = Append(kept, new)
  BY DEF Remember
<1>f. PICK from \in [1..Len(kept) -> 1..Len(c)] :
        /\ kept \in Seq(WaItems) /\ Len(kept) \in Nat /\ Len(kept) < WaCacheMax
        /\ \A j \in 1..Len(kept) : kept[j] = c[from[j]] /\ c[from[j]].user # u
        /\ \A i, j \in 1..Len(kept) : i < j => from[i] < from[j]
        /\ \A i \in 1..Len(c) : c[i].user # u =>
             \/ \E j \in 1..Len(kept) : from[j] = i
             \/ i = 1 /\ Len(kept) = WaCacheMax - 1 /\ Len(c) = WaCacheMax
                /\ \A m \in 2..Len(c) : \E j \in 1..Len(kept) : from[j] = m
  <2>1. CASE mine # {}
    <3>1. k \in 1..Len(c) /\ c[k].user = u
      BY <2>1
    <3>2. kept = RemoveAt(c, k)
      BY <2>1
    <3> HIDE DEF k, mine, kept, c
    <3>3. /\ kept \in Seq(WaItems) /\ Len(kept) = Len(c) - 1
          /\ \A j \in 1..(Len(c) - 1) : kept[j] = IF j < k THEN c[j] ELSE c[j + 1]
      BY <3>1, <3>2, <1>a, RemovedAt
    <3> DEFINE from == [j \in 1..Len(kept) |-> IF j < k THEN j ELSE j + 1]
    <3>4. from \in [1..Len(kept) -> 1..Len(c)]
      BY <3>1, <3>3, <1>a
    <3>5. \A j \in 1..Len(kept) : from[j] # k /\ kept[j] = c[from[j]]
      BY <3>1, <3>3, <1>a
    <3>6. \A i, j \in 1..Len(kept) : i < j => from[i] < from[j]
      BY <3>1, <3>3, <1>a
    <3>7. ASSUME NEW i \in 1..Len(c), i # k PROVE \E j \in 1..Len(kept) : from[j] = i
      <4>1. CASE i < k
        <5>1. i \in 1..Len(kept) /\ from[i] = i
          BY <4>1, <3>1, <3>3, <1>a
        <5> QED BY <5>1
      <4>2. CASE i > k
        <5>1. i - 1 \in 1..Len(kept) /\ from[i - 1] = i
          BY <4>2, <3>1, <3>3, <1>a
        <5> QED BY <5>1
      <4> QED BY <4>1, <4>2, <3>7, <3>1, <1>a
    <3>8. \A j \in 1..Len(kept) : c[from[j]].user # u
      BY <3>1, <3>4, <3>5, <1>c DEF c
    <3> HIDE DEF from
    <3>9. Len(kept) \in Nat /\ Len(kept) < WaCacheMax
      BY <3>1, <3>3, <1>a
    <3>10. \A i \in 1..Len(c) : c[i].user # u => \E j \in 1..Len(kept) : from[j] = i
      BY <3>7, <3>1
    <3> QED BY <3>3, <3>4, <3>5, <3>6, <3>8, <3>9, <3>10
  <2>2. CASE mine = {} /\ Len(c) >= WaCacheMax
    <3>1. kept = Tail(c) /\ c # << >>
      BY <2>2, <1>a
    <3>2. \A i \in 1..Len(c) : c[i].user # u
      BY <2>2
    <3>3. Len(c) = WaCacheMax
      BY <2>2, <1>a
    <3> HIDE DEF k, mine, kept, c
    <3>4. /\ kept \in Seq(WaItems) /\ Len(kept) = Len(c) - 1
          /\ \A j \in 1..Len(kept) : kept[j] = c[j + 1]
      BY <3>1, <1>a, Tailed
    <3> DEFINE from == [j \in 1..Len(kept) |-> j + 1]
    <3>5. from \in [1..Len(kept) -> 1..Len(c)] /\ Len(kept) \in Nat /\ Len(kept) = WaCacheMax - 1
      BY <3>4, <3>3, <1>a
    <3>6. \A j \in 1..Len(kept) : kept[j] = c[from[j]]
      BY <3>4
    <3>7. \A i, j \in 1..Len(kept) : i < j => from[i] < from[j]
      BY <3>4, <1>a
    <3>8. ASSUME NEW m \in 2..Len(c) PROVE \E j \in 1..Len(kept) : from[j] = m
      <4>1. m - 1 \in 1..Len(kept) /\ from[m - 1] = m
        BY <3>4, <1>a
      <4> QED BY <4>1
    <3> HIDE DEF from
    <3>9. \A i \in 1..Len(c) : i = 1 \/ i \in 2..Len(c)
      BY <1>a
    <3>10. \A j \in 1..Len(kept) : c[from[j]].user # u
      BY <3>2, <3>5
    <3>11. \A i \in 1..Len(c) :
             \/ \E j \in 1..Len(kept) : from[j] = i
             \/ i = 1 /\ Len(kept) = WaCacheMax - 1 /\ Len(c) = WaCacheMax
                /\ \A m \in 2..Len(c) : \E j \in 1..Len(kept) : from[j] = m
      BY <3>3, <3>5, <3>8, <3>9
    <3>12. Len(kept) < WaCacheMax
      BY <3>5, <1>a
    <3> QED BY <3>4, <3>5, <3>6, <3>7, <3>10, <3>11, <3>12
  <2>3. CASE mine = {} /\ ~(Len(c) >= WaCacheMax)
    <3>1. kept = c
      BY <2>3
    <3>2. \A i \in 1..Len(c) : c[i].user # u
      BY <2>3
    <3> HIDE DEF k, mine, kept, c
    <3> DEFINE from == [j \in 1..Len(kept) |-> j]
    <3>3. from \in [1..Len(kept) -> 1..Len(c)] /\ \A j \in 1..Len(kept) : from[j] = j
      BY <3>1
    <3>4. Len(kept) \in Nat /\ Len(kept) < WaCacheMax
      BY <3>1, <2>3, <1>a
    <3> QED BY <3>1, <3>2, <3>3, <3>4, <1>a
  <2> QED BY <2>1, <2>2, <2>3
<1> HIDE DEF k, mine, kept, new
<1>1. /\ provider_cache' \in Seq(WaItems) /\ Len(provider_cache') = Len(kept) + 1
      /\ provider_cache'[Len(kept) + 1] = new
      /\ \A i \in 1..Len(kept) : provider_cache'[i] = kept[i]
      /\ 1..(Len(kept) + 1) = 1..Len(kept) \union {Len(kept) + 1}
  BY <1>d, <1>e, <1>f, Appended
<1> DEFINE d == provider_cache'
           n == Len(kept) + 1
<1>2. \A j \in 1..Len(kept) : d[j].user # u /\ \E i \in 1..Len(c) : d[j] = c[i]
  BY <1>1, <1>f
<1>3. \A i, j \in 1..n : d[i].user = d[j].user => i = j
  <2>1. SUFFICES ASSUME NEW i \in 1..n, NEW j \in 1..n, d[i].user = d[j].user, i # j PROVE FALSE
    OBVIOUS
  <2>2. CASE i \in 1..Len(kept) /\ j \in 1..Len(kept)
    <3>1. from[i] \in 1..Len(c) /\ from[j] \in 1..Len(c) /\ c[from[i]].user = c[from[j]].user
      BY <2>1, <2>2, <1>1, <1>f
    <3>2. from[i] = from[j] /\ from[i] \in Nat
      BY <3>1, <1>c, <1>a
    <3>3. ASSUME i < j PROVE FALSE
      <4>1. from[i] < from[j]
        BY <2>2, <3>3, <1>f
      <4> QED BY <4>1, <3>2
    <3>4. ASSUME j < i PROVE FALSE
      <4>1. from[j] < from[i]
        BY <2>2, <3>4, <1>f
      <4> QED BY <4>1, <3>2
    <3> QED BY <2>1, <2>2, <3>3, <3>4, <1>f
  <2>3. CASE i = n \/ j = n
    BY <2>1, <2>3, <1>1, <1>2, <1>d
  <2> QED BY <2>2, <2>3, <1>1
<1>4. ASSUME NEW v \in WaUsers, NEW S, v # u, IsFiniteSet(S), PlaceOf(c, v, S)
      PROVE  Cardinality(S \union {u}) >= WaCacheMax \/ PlaceOf(d, v, S \union {u})
  <2>1. PICK i \in 1..Len(c) : c[i].user = v /\ \A m \in (i + 1)..Len(c) : c[m].user \in S
    BY <1>4 DEF PlaceOf
  <2>2. ASSUME NEW j \in 1..Len(kept), from[j] = i
        PROVE  PlaceOf(d, v, S \union {u})
    <3>1. j \in 1..Len(d) /\ d[j].user = v
      BY <2>1, <2>2, <1>1, <1>f
    <3>2. ASSUME NEW m \in (j + 1)..Len(d) PROVE d[m].user \in S \union {u}
      <4>1. m \in 1..n /\ j < m
        BY <1>1, <1>f
      <4>2. CASE m \in 1..Len(kept)
        <5>1. from[j] < from[m] /\ from[m] \in 1..Len(c)
          BY <4>1, <4>2, <1>f
        <5>2. from[m] \in (i + 1)..Len(c)
          BY <5>1, <2>2
        <5> QED BY <4>2, <5>2, <2>1, <1>1, <1>f
      <4>3. CASE m = n
        BY <4>3, <1>1, <1>d
      <4> QED BY <4>1, <4>2, <4>3, <1>1
    <3> QED BY <3>1, <3>2 DEF PlaceOf
  <2>3. CASE \E j \in 1..Len(kept) : from[j] = i
    BY <2>2, <2>3
  <2>4. CASE i = 1 /\ Len(kept) = WaCacheMax - 1 /\ Len(c) = WaCacheMax
             /\ \A m \in 2..Len(c) : \E j \in 1..Len(kept) : from[j] = m
    <3> DEFINE T == S \union {u}
               at == [m \in 1..WaCacheMax |-> IF m = 1 THEN u ELSE c[m].user]
    <3>1. IsFiniteSet(T)
      BY <1>4, FS_AddElement
    <3>2. \A m \in 2..WaCacheMax : c[m].user \in S /\ c[m].user # u
      <4>1. SUFFICES ASSUME NEW m \in 2..WaCacheMax PROVE c[m].user \in S /\ c[m].user # u
        OBVIOUS
      <4>2. m \in (i + 1)..Len(c) /\ m \in 2..Len(c)
        BY <2>4, <1>a
      <4>3. PICK j \in 1..Len(kept) : from[j] = m
        BY <4>2, <2>4
      <4> QED BY <4>2, <4>3, <2>1, <1>f
    <3>3. at \in [1..WaCacheMax -> T]
      BY <3>2, <1>a
    <3>4. \A l, m \in 1..WaCacheMax : at[l] = at[m] => l = m
      <4>1. SUFFICES ASSUME NEW l \in 1..WaCacheMax, NEW m \in 1..WaCacheMax, at[l] = at[m]
                     PROVE  l = m
        BY DEF at
      <4>2. l = 1 \/ l \in 2..WaCacheMax
        BY <1>a
      <4>3. m = 1 \/ m \in 2..WaCacheMax
        BY <1>a
      <4> QED BY <4>1, <4>2, <4>3, <3>2, <1>c, <2>4
    <3>5. at \in Injection(1..WaCacheMax, T)
      BY <3>3, <3>4 DEF Injection, IsInjective
    <3> HIDE DEF at, T
    <3>6. Cardinality(1..WaCacheMax) <= Cardinality(T)
      BY <3>1, <3>5, FS_Injection
    <3>7. IsFiniteSet(1..WaCacheMax) /\ Cardinality(1..WaCacheMax) = WaCacheMax
      BY <1>a, FS_Interval
    <3>8. Cardinality(T) \in Nat
      BY <3>1, FS_CardinalityType
    <3>9. Cardinality(T) >= WaCacheMax
      BY <3>6, <3>7, <3>8, <1>a
    <3> QED BY <3>9 DEF T
  <2> QED BY <2>1, <2>3, <2>4, <1>4, <1>f
<1>5. n \in 1..WaCacheMax /\ n - 1 = Len(kept)
  BY <1>a, <1>f
<1> QED BY <1>1, <1>2, <1>3, <1>4, <1>5 DEF new

(* The cache read through its places.                                      *)
LEMMA CachedVias ==
  ASSUME WaTypes, NEW u
  PROVE  CachedProvider(u) =
           {provider_cache[i].via : i \in {j \in 1..Len(provider_cache) : provider_cache[j].user = u}}
<1>1. provider_cache \in Seq(WaItems)
  BY DEF WaTypes
<1>2. ToSet(provider_cache) = {provider_cache[i] : i \in 1..Len(provider_cache)}
  BY <1>1 DEF ToSet
<1> QED BY <1>2 DEF CachedProvider

(* What others remember makes nobody less crowded.                         *)
LEMMA StaysCrowded ==
  ASSUME WaTypes, SinceFinite, NEW u \in WaUsers, NEW v \in WaUsers,
         since'[v] = since[v] \/ since'[v] = since[v] \union {u}
  PROVE  IsFiniteSet(since'[v]) /\ (Crowded(v) => Crowded(v)')
<1>1. IsFiniteSet(since[v]) /\ since[v] \subseteq since'[v]
  BY DEF SinceFinite
<1>2. IsFiniteSet(since'[v])
  BY <1>1, FS_AddElement
<1>3. Cardinality(since[v]) <= Cardinality(since'[v])
  BY <1>1, <1>2, FS_Subset
<1>4. Cardinality(since[v]) \in Nat /\ Cardinality(since'[v]) \in Nat
  BY <1>1, <1>2, FS_CardinalityType
<1> QED BY <1>2, <1>3, <1>4, WaAssumption DEF Crowded

(* The cache of the others after u is remembered.                          *)
LEMMA OthersKept ==
  ASSUME WaInv, NEW u \in WaUsers, NEW via \in WaProviders, Remember(u, via),
         NEW v \in WaUsers, v # u, heard'[v] = heard[v],
         heard[v] # "nothing" => since'[v] = since[v] \union {u}
  PROVE  heard'[v] # "nothing" => Crowded(v)' \/ PlaceOf(provider_cache', v, since'[v])
<1> SUFFICES ASSUME heard[v] # "nothing" PROVE Crowded(v)' \/ PlaceOf(provider_cache', v, since'[v])
  OBVIOUS
<1>1. IsFiniteSet(since[v])
  BY DEF WaInv, SinceFinite
<1>2. CASE Crowded(v)
  BY <1>2, StaysCrowded DEF WaInv
<1>3. CASE PlaceOf(provider_cache, v, since[v])
  <2>1. \/ Cardinality(since[v] \union {u}) >= WaCacheMax
        \/ PlaceOf(provider_cache', v, since[v] \union {u})
    BY <1>1, <1>3, Remembered DEF WaInv
  <2> QED BY <2>1 DEF Crowded
<1> QED BY <1>2, <1>3 DEF WaInv, BehindSince

LEMMA NextWa == WaInv /\ [WaNext]_wa_vars => WaInv'
<1> SUFFICES ASSUME WaInv, [WaNext]_wa_vars PROVE WaInv'
  OBVIOUS
<1> USE DEF WaInv
<1>1. ASSUME NEW u \in WaUsers, NEW via \in WaProviders, WaInbound(u, via) PROVE WaInv'
  <2>1. /\ Remember(u, via) /\ wa_send' = wa_send
        /\ heard' = [heard EXCEPT ![u] = via] /\ since' = [Since(u) EXCEPT ![u] = {}]
        /\ overlapped' = IF TryingFor(u) # {} THEN overlapped \union {u} ELSE overlapped \ {u}
    BY <1>1 DEF WaInbound
  <2>2. /\ heard'[u] = via /\ via # "nothing" /\ heard' \in [WaUsers -> WaProviders \union {"nothing"}]
        /\ \A v \in WaUsers : v # u => heard'[v] = heard[v]
    BY <2>1 DEF WaTypes, WaProviders
  <2>3. /\ since'[u] = {} /\ since' \in [WaUsers -> SUBSET WaUsers]
        /\ \A v \in WaUsers : v # u => since'[v] = since[v] \/ since'[v] = since[v] \union {u}
        /\ \A v \in WaUsers : v # u /\ heard[v] # "nothing" => since'[v] = since[v] \union {u}
    BY <2>1, <2>2 DEF WaTypes, Since
  <2> DEFINE n == Len(provider_cache')
  <2>4. /\ provider_cache' \in Seq(WaItems) /\ n \in 1..WaCacheMax
        /\ provider_cache'[n] = [user |-> u, via |-> via]
        /\ \A i, j \in 1..n : provider_cache'[i].user = provider_cache'[j].user => i = j
    BY <2>1, Remembered
  <2>5. \A j \in 1..(n - 1) : provider_cache'[j].user # u
          /\ \E i \in 1..Len(provider_cache) : provider_cache'[j] = provider_cache[i]
    BY <2>1, Remembered
  <2>6. WaTypes' /\ SendTypes' /\ CacheOnce'
    <3>1. WaTypes'
      BY <2>2, <2>3, <2>4 DEF WaTypes
    <3>2. SendTypes'
      BY <2>1 DEF SendTypes
    <3>3. CacheOnce'
      BY <2>4, WaAssumption DEF CacheOnce
    <3> QED BY <3>1, <3>2, <3>3
  <2>7. SinceFinite'
    <3>1. IsFiniteSet(since'[u])
      BY <2>3, FS_EmptySet
    <3> QED BY <3>1, <2>3, StaysCrowded DEF SinceFinite
  <2>8. BehindSince'
    <3>1. PlaceOf(provider_cache', u, since'[u])
      BY <2>4 DEF PlaceOf
    <3>2. \A v \in WaUsers : v # u =>
            (heard'[v] # "nothing" => Crowded(v)' \/ PlaceOf(provider_cache', v, since'[v]))
      BY <2>1, <2>2, <2>3, OthersKept
    <3>3. ASSUME NEW v \in WaUsers, heard'[v] # "nothing"
          PROVE  Crowded(v)' \/ PlaceOf(provider_cache', v, since'[v])
      BY <3>1, <3>2, <3>3
    <3> QED BY <3>3 DEF BehindSince
  <2>9. EntryIsLatest'
    <3>1. SUFFICES ASSUME NEW v \in WaUsers, heard'[v] # "nothing", v \notin overlapped', ~Crowded(v)',
                          NEW i \in 1..n, provider_cache'[i].user = v
                   PROVE  provider_cache'[i].via = heard'[v]
      BY DEF EntryIsLatest
    <3>2. CASE v = u
      <4>1. i = n
        BY <3>1, <3>2, <2>4
      <4> QED BY <4>1, <3>2, <2>2, <2>4
    <3>3. CASE v # u
      <4>1. i \in 1..(n - 1)
        BY <3>1, <3>3, <2>4
      <4>2. PICK j \in 1..Len(provider_cache) : provider_cache'[i] = provider_cache[j]
        BY <4>1, <2>5
      <4>3. v \notin overlapped /\ heard[v] # "nothing"
        BY <3>1, <3>3, <2>1, <2>2
      <4>4. ~Crowded(v)
        BY <3>1, <3>3, <2>3, StaysCrowded
      <4> QED BY <4>2, <4>3, <4>4, <3>1, <3>3, <2>2 DEF EntryIsLatest
    <3> QED BY <3>2, <3>3
  <2>10. TrialsExcused'
    <3>1. ASSUME NEW t \in WaTasks, WaTrying(t)
          PROVE  wa_send[t].via \in WaProviders /\ SenderExcused(wa_send[t].user)'
      <4>0. PICK v : v = wa_send[t].user
        OBVIOUS
      <4>1. wa_send[t].via \in WaProviders /\ SenderExcused(v)
        BY <3>1, <4>0 DEF TrialsExcused
      <4>2. t \in TryingFor(v)
        BY <3>1, <4>0 DEF TryingFor, WaTrying
      <4>3. CASE v = u
        BY <4>0, <4>1, <4>2, <4>3, <2>1 DEF SenderExcused
      <4>4. CASE v # u
        <5>1. v \in WaUsers
          BY <4>1 DEF SenderExcused
        <5>2. since'[v] = since[v] \/ since'[v] = since[v] \union {u}
          BY <5>1, <4>4, <2>3
        <5>3. Crowded(v) => Crowded(v)'
          BY <5>1, <5>2, StaysCrowded
        <5>4. (v \in overlapped => v \in overlapped') /\ heard'[v] = heard[v]
          BY <5>1, <4>4, <2>1, <2>2
        <5>5. heard'[v] = "nothing" \/ v \in overlapped' \/ Crowded(v)'
          BY <5>3, <5>4, <4>1 DEF SenderExcused
        <5> QED BY <4>0, <5>1, <5>5, <4>1, <2>1 DEF SenderExcused, Crowded
      <4> QED BY <4>3, <4>4
    <3> QED BY <3>1, <2>1 DEF TrialsExcused, WaTrying, SenderExcused, Crowded
  <2> QED BY <2>6, <2>7, <2>8, <2>9, <2>10
<1>2. ASSUME NEW t \in WaTasks, NEW u \in WaUsers, WaSendBegins(t, u) PROVE WaInv'
  <2>1. /\ UNCHANGED <<provider_cache, heard, since, overlapped>>
        /\ wa_send' = [wa_send EXCEPT ![t] =
             IF CachedProvider(u) # {}
             THEN [pc |-> "direct", user |-> "", via |-> CHOOSE via \in CachedProvider(u) : TRUE]
             ELSE [pc |-> "try meta", user |-> u, via |-> "meta"]]
    BY <1>2 DEF WaSendBegins
  <2>2. CachedProvider(u) = {provider_cache[i].via : i \in {j \in 1..Len(provider_cache) : provider_cache[j].user = u}}
    BY CachedVias
  <2>3. (CachedProvider(u) # {}) => (CHOOSE via \in CachedProvider(u) : TRUE) \in WaProviders
    <3>1. \A i \in 1..Len(provider_cache) : provider_cache[i] \in WaItems
      BY DEF WaTypes
    <3>2. CachedProvider(u) \subseteq WaProviders
      BY <2>2, <3>1 DEF WaItems
    <3> QED BY <3>2
  <2>4. WaTypes' /\ SendTypes'
    <3>1. wa_send'[t] \in WaSends
      <4>1. CASE CachedProvider(u) # {}
        BY <2>1, <2>3, <4>1 DEF SendTypes, WaSends
      <4>2. CASE CachedProvider(u) = {}
        BY <2>1, <4>2 DEF SendTypes, WaSends, WaProviders
      <4> QED BY <4>1, <4>2
    <3>2. SendTypes'
      BY <2>1, <3>1 DEF SendTypes
    <3> QED BY <2>1, <3>2 DEF WaTypes
  <2>5. \A v : SenderExcused(v) <=> SenderExcused(v)'
    BY <2>1 DEF SenderExcused, Crowded
  <2>6. \/ wa_send'[t].user = u /\ wa_send'[t].via = "meta" /\ SenderExcused(u)
        \/ ~WaTrying(t)'
    <3>1. CASE CachedProvider(u) # {}
      BY <2>1, <3>1 DEF WaTrying, SendTypes
    <3>2. CASE CachedProvider(u) = {}
      <4>1. \A i \in 1..Len(provider_cache) : provider_cache[i].user # u
        BY <2>2, <3>2
      <4>2. heard[u] = "nothing" \/ Crowded(u)
        BY <4>1 DEF BehindSince, PlaceOf
      <4>3. wa_send'[t].user = u /\ wa_send'[t].via = "meta"
        BY <2>1, <3>2 DEF SendTypes
      <4> QED BY <4>2, <4>3 DEF SenderExcused
    <3> QED BY <3>1, <3>2
  <2>7. TrialsExcused'
    <3>1. ASSUME NEW s \in WaTasks, WaTrying(s)'
          PROVE  wa_send'[s].via \in WaProviders /\ SenderExcused(wa_send'[s].user)
      <4>1. CASE s = t
        BY <3>1, <4>1, <2>6 DEF WaProviders
      <4>2. CASE s # t
        <5>1. wa_send'[s] = wa_send[s]
          BY <4>2, <2>1 DEF SendTypes
        <5> QED BY <3>1, <5>1 DEF TrialsExcused, WaTrying
      <4> QED BY <4>1, <4>2
    <3> QED BY <3>1, <2>1 DEF TrialsExcused, WaTrying, SenderExcused, Crowded
  <2> QED BY <2>1, <2>4, <2>7 DEF CacheOnce, SinceFinite, BehindSince, EntryIsLatest, Crowded
<1>3. ASSUME NEW t \in WaTasks, WaTrialWorks(t) PROVE WaInv'
  <2> DEFINE u == wa_send[t].user
             via == wa_send[t].via
  <2>1. /\ WaTrying(t) /\ Remember(u, via) /\ since' = Since(u) /\ heard' = heard
        /\ overlapped' = overlapped /\ wa_send' = [wa_send EXCEPT ![t] = WaIdle]
    BY <1>3 DEF WaTrialWorks, WaTrying
  <2>2. /\ u \in WaUsers /\ via \in WaProviders
        /\ heard[u] = "nothing" \/ u \in overlapped \/ Crowded(u)
    BY <2>1 DEF TrialsExcused, SenderExcused
  <2>a. /\ SendTypes'
        /\ ~WaTrying(t)' /\ \A s \in WaTasks : s # t => wa_send'[s] = wa_send[s]
    BY <2>1 DEF WaIdle, SendTypes, WaSends, WaTrying
  <2> HIDE DEF u, via
  <2>3. /\ since' \in [WaUsers -> SUBSET WaUsers] /\ since'[u] = since[u]
        /\ \A v \in WaUsers : since'[v] = since[v] \/ since'[v] = since[v] \union {u}
        /\ \A v \in WaUsers : v # u /\ heard[v] # "nothing" => since'[v] = since[v] \union {u}
    BY <2>1, <2>2 DEF WaTypes, Since
  <2> DEFINE n == Len(provider_cache')
  <2>4. /\ provider_cache' \in Seq(WaItems) /\ n \in 1..WaCacheMax
        /\ provider_cache'[n] = [user |-> u, via |-> via]
        /\ \A i, j \in 1..n : provider_cache'[i].user = provider_cache'[j].user => i = j
    BY <2>1, <2>2, Remembered
  <2>5. \A j \in 1..(n - 1) : provider_cache'[j].user # u
          /\ \E i \in 1..Len(provider_cache) : provider_cache'[j] = provider_cache[i]
    BY <2>1, <2>2, Remembered
  <2>6. WaTypes' /\ CacheOnce'
    <3>1. WaTypes'
      BY <2>1, <2>3, <2>4 DEF WaTypes
    <3>2. CacheOnce'
      BY <2>4, WaAssumption DEF CacheOnce
    <3> QED BY <3>1, <3>2
  <2>7. SinceFinite' /\ \A v \in WaUsers : Crowded(v) => Crowded(v)'
    BY <2>2, <2>3, StaysCrowded DEF SinceFinite
  <2>8. BehindSince'
    <3>1. PlaceOf(provider_cache', u, since'[u])
      BY <2>4 DEF PlaceOf
    <3>2. \A v \in WaUsers : v # u =>
            (heard'[v] # "nothing" => Crowded(v)' \/ PlaceOf(provider_cache', v, since'[v]))
      BY <2>1, <2>2, <2>3, OthersKept
    <3>3. ASSUME NEW v \in WaUsers, heard'[v] # "nothing"
          PROVE  Crowded(v)' \/ PlaceOf(provider_cache', v, since'[v])
      BY <3>1, <3>2, <3>3
    <3> QED BY <3>3 DEF BehindSince
  <2>9. EntryIsLatest'
    <3>1. SUFFICES ASSUME NEW v \in WaUsers, heard'[v] # "nothing", v \notin overlapped', ~Crowded(v)',
                          NEW i \in 1..n, provider_cache'[i].user = v
                   PROVE  provider_cache'[i].via = heard'[v]
      BY DEF EntryIsLatest
    <3>2. v # u
      BY <3>1, <2>1, <2>2, <2>7
    <3>3. i \in 1..(n - 1)
      BY <3>1, <3>2, <2>4
    <3>4. PICK j \in 1..Len(provider_cache) : provider_cache'[i] = provider_cache[j]
      BY <3>3, <2>5
    <3> QED BY <3>4, <3>1, <2>1, <2>7 DEF EntryIsLatest
  <2>10. TrialsExcused'
    <3>1. ASSUME NEW s \in WaTasks, WaTrying(s)'
          PROVE  wa_send[s].via \in WaProviders /\ SenderExcused(wa_send[s].user) /\ wa_send'[s] = wa_send[s]
      BY <2>a, <3>1 DEF TrialsExcused, WaTrying
    <3>2. \A v : SenderExcused(v) => SenderExcused(v)'
      BY <2>1, <2>7 DEF SenderExcused
    <3> QED BY <3>1, <3>2, <2>1 DEF TrialsExcused, SenderExcused, Crowded
  <2> QED BY <2>a, <2>6, <2>7, <2>8, <2>9, <2>10
<1>4. ASSUME NEW t \in WaTasks, WaNotInMetasList(t) PROVE WaInv'
  <2>1. /\ UNCHANGED <<provider_cache, heard, since, overlapped>> /\ WaTrying(t)
        /\ wa_send' = [wa_send EXCEPT ![t] = [@ EXCEPT !.pc = "try twilio", !.via = "twilio"]]
    BY <1>4 DEF WaNotInMetasList, WaTrying
  <2>a. /\ SendTypes'
        /\ wa_send'[t].user = wa_send[t].user /\ wa_send'[t].via = "twilio"
        /\ \A s \in WaTasks : s # t => wa_send'[s] = wa_send[s]
    BY <2>1 DEF SendTypes, WaSends, WaProviders
  <2>2. TrialsExcused'
    <3>1. ASSUME NEW s \in WaTasks, WaTrying(s)'
          PROVE  wa_send'[s].via \in WaProviders /\ SenderExcused(wa_send'[s].user)
      <4>1. CASE s = t
        BY <4>1, <2>1, <2>a DEF TrialsExcused, WaProviders
      <4>2. CASE s # t
        BY <4>2, <3>1, <2>a DEF TrialsExcused, WaTrying
      <4> QED BY <4>1, <4>2
    <3> QED BY <3>1, <2>1 DEF TrialsExcused, SenderExcused, Crowded
  <2> QED BY <2>1, <2>a, <2>2 DEF WaTypes, CacheOnce, SinceFinite, BehindSince, EntryIsLatest, Crowded
<1>5. ASSUME NEW t \in WaTasks, WaSendEnds(t) PROVE WaInv'
  <2>1. /\ UNCHANGED <<provider_cache, heard, since, overlapped>>
        /\ wa_send' = [wa_send EXCEPT ![t] = WaIdle]
    BY <1>5 DEF WaSendEnds
  <2>a. /\ SendTypes'
        /\ ~WaTrying(t)' /\ \A s \in WaTasks : s # t => wa_send'[s] = wa_send[s]
    BY <2>1 DEF SendTypes, WaSends, WaTrying, WaIdle
  <2>2. TrialsExcused'
    <3>1. ASSUME NEW s \in WaTasks, WaTrying(s)'
          PROVE  wa_send'[s].via \in WaProviders /\ SenderExcused(wa_send'[s].user)
      BY <3>1, <2>a DEF TrialsExcused, WaTrying
    <3> QED BY <3>1, <2>1 DEF TrialsExcused, SenderExcused, Crowded
  <2> QED BY <2>1, <2>a, <2>2 DEF WaTypes, CacheOnce, SinceFinite, BehindSince, EntryIsLatest, Crowded
<1>6. CASE WaRestarts
  <2>1. WaInit'
    BY <1>6 DEF WaRestarts, WaInit
  <2> QED BY <2>1, InitWa, PTL
<1>7. CASE UNCHANGED wa_vars
  BY <1>7 DEF wa_vars, WaTypes, SendTypes, CacheOnce, SinceFinite, BehindSince, EntryIsLatest, TrialsExcused, SenderExcused,
              Crowded, WaTrying
<1> QED BY <1>1, <1>2, <1>3, <1>4, <1>5, <1>6, <1>7 DEF WaNext

(* A reply goes out by the vendor of its recipient's latest message unless *)
(* as many others as the cache holds were remembered since, or a trial of  *)
(* send() overlapped that message, for any number of senders, replies at a *)
(* time and restarts; and the cache stays within its bound.                *)
THEOREM RoutesAreLatest == WaSpec => []RouteIsLatest
<1>1. WaInv => RouteIsLatest
  <2> SUFFICES ASSUME WaInv, NEW u \in WaUsers, heard[u] # "nothing",
                      Cardinality(since[u]) < WaCacheMax, u \notin overlapped
               PROVE  CachedProvider(u) = {heard[u]}
    BY DEF RouteIsLatest, WaInv, CacheOnce
  <2>1. IsFiniteSet(since[u]) /\ Cardinality(since[u]) \in Nat
    BY FS_CardinalityType DEF WaInv, SinceFinite
  <2>2. ~Crowded(u)
    BY <2>1, WaAssumption DEF Crowded
  <2>3. CachedProvider(u) = {provider_cache[i].via : i \in {j \in 1..Len(provider_cache) : provider_cache[j].user = u}}
    BY CachedVias DEF WaInv
  <2>4. PICK i \in 1..Len(provider_cache) : provider_cache[i].user = u
    BY <2>2 DEF WaInv, BehindSince, PlaceOf
  <2>5. \A j \in 1..Len(provider_cache) : provider_cache[j].user = u => provider_cache[j].via = heard[u]
    BY <2>2 DEF WaInv, EntryIsLatest
  <2> QED BY <2>3, <2>4, <2>5
<1> QED BY <1>1, InitWa, NextWa, PTL DEF WaSpec
===============================================================================
