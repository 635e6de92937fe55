------------------------------- MODULE MailPoll -------------------------------
(***************************************************************************)
(* The poll loop of the Gmail channel: main() of catalogue/gmail/server.py *)
(* with on_message() and send() of its adapter.  A poll asks for the       *)
(* messages added since last_history_id and takes them one at a time; an   *)
(* exception ends the poll without an advance, so that the next one sees   *)
(* the rest of the batch again, and processed_ids keeps what was begun     *)
(* from being begun twice.  Both are in memory: a new process starts at    *)
(* the mailbox's latest history.  A mail is named by the position of its   *)
(* history record; to Gmail an answer of the gateway is a mail as well.    *)
(***************************************************************************)
EXTENDS Naturals, Sequences, FiniteSets

CONSTANTS
  MaxMails,    \* bound: mails in the mailbox, without the answers
  MailPage     \* how many messages history.list returns at a time

ASSUME MailAssumption == MaxMails \in Nat /\ MailPage \in Nat \ {0}

VARIABLES
  mailbox,          \* mailbox[id] = "in", or "own" for an answer
  last_history_id, processed_ids,
  batch,            \* the poll that is under way: the messages left, the new historyId
  mail_sent,        \* history: which mails were answered, in order
  mail_lost         \* history: which were not, and why is known

mail_vars == <<mailbox, last_history_id, processed_ids, batch, mail_sent, mail_lost>>

NoBatch == [open |-> FALSE, left |-> << >>, upto |-> 0]
FirstPage(upto) ==
  {id \in (last_history_id + 1)..upto : id <= last_history_id + MailPage}

MailInit ==
  /\ mailbox = << >> /\ mail_sent = << >> /\ mail_lost = {}
  /\ last_history_id = 0 /\ processed_ids = {} /\ batch = NoBatch

MailArrives ==
  /\ Cardinality({id \in 1..Len(mailbox) : mailbox[id] = "in"}) < MaxMails
  /\ mailbox' = Append(mailbox, "in")
  /\ UNCHANGED <<last_history_id, processed_ids, batch, mail_sent, mail_lost>>

(* history_list(): the first page of what came since.  (When it fails the  *)
(* poll finds nothing and changes nothing.)                                *)
MailPollBegins ==
  /\ ~batch.open
  /\ batch' = [open |-> TRUE, upto |-> Len(mailbox),
               left |-> [i \in 1..Cardinality(FirstPage(Len(mailbox))) |-> last_history_id + i]]
  /\ UNCHANGED <<mailbox, last_history_id, processed_ids, mail_sent, mail_lost>>

(* How it goes with the next message: it was begun before; it cannot be    *)
(* fetched or is empty; it is an answer; it is answered; or on_message()   *)
(* raises, or send() does, whose answer may have gone out all the same.    *)
MailOutcomes(id) ==
  IF id \in processed_ids THEN {"skipped"}
  ELSE {"unread"} \union
       IF mailbox[id] = "own" THEN {"own"} ELSE {"answered", "raised", "raised late"}

(* Mutant: a message is noted when all is done with it.                    *)
NotedWhenDone(outcome) ==
  IF outcome \in {"raised", "raised late"} THEN {}
  ELSE {Head(batch.left)} \union IF outcome = "answered" THEN {Len(mailbox) + 1} ELSE {}

(* What goes to processed_ids: the message, before it is fetched, and the  *)
(* answer if send() returned its id.                                       *)
Noted(outcome) ==
  {Head(batch.left)} \union IF outcome = "answered" THEN {Len(mailbox) + 1} ELSE {}

TakeMail(outcome) ==
  LET id == Head(batch.left)
      sends == outcome \in {"answered", "raised late"}
  IN  /\ batch.left # << >> /\ outcome \in MailOutcomes(id)
      /\ processed_ids' = processed_ids \union Noted(outcome)
      /\ mailbox' = IF sends THEN Append(mailbox, "own") ELSE mailbox
      /\ mail_sent' = IF sends THEN Append(mail_sent, id) ELSE mail_sent
      /\ mail_lost' = IF outcome \in {"unread", "raised"} THEN mail_lost \union {id} ELSE mail_lost
      /\ batch' = IF outcome \in {"raised", "raised late"} THEN NoBatch
                  ELSE [batch EXCEPT !.left = Tail(@)]
      /\ UNCHANGED last_history_id

(* The poll is over: it goes on after the mailbox's latest history, also   *)
(* when that was further than the page.  (Attachments that have expired go *)
(* as well: ArtifactShelf.)                                                *)
MailPollEnds ==
  /\ batch.open /\ batch.left = << >>
  /\ last_history_id' = IF batch.upto > last_history_id THEN batch.upto ELSE last_history_id
  /\ mail_lost' = mail_lost \union
       (((last_history_id + 1)..batch.upto) \ FirstPage(batch.upto))
  /\ batch' = NoBatch
  /\ UNCHANGED <<mailbox, processed_ids, mail_sent>>

(* The process ends, at any point, and another starts.                     *)
MailRestarts ==
  /\ last_history_id' = Len(mailbox)
  /\ mail_lost' = mail_lost \union ((last_history_id + 1)..Len(mailbox))
  /\ processed_ids' = {} /\ batch' = NoBatch
  /\ UNCHANGED <<mailbox, mail_sent>>

MailNext ==
  \/ MailArrives \/ MailPollBegins \/ MailPollEnds \/ MailRestarts
  \/ \E o \in {"skipped", "unread", "own", "answered", "raised", "raised late"} : TakeMail(o)

MailSpec == MailInit /\ [][MailNext]_mail_vars
-------------------------------------------------------------------------------
(* The values of the variables.                                            *)
MailKinds == {"in", "own"}

MailTypes ==
  /\ mailbox \in Seq(MailKinds)
  /\ last_history_id \in Nat /\ last_history_id <= Len(mailbox)
  /\ processed_ids \subseteq 1..Len(mailbox) /\ mail_sent \in Seq(Nat)
  /\ batch \in [open : BOOLEAN, left : Seq(Nat), upto : Nat]

(* No mail is answered twice and no answer is answered, though polls are   *)
(* cut and see a batch again and the process restarts; and a mail that the *)
(* loop has left behind was answered, unless it could not be read or gave  *)
(* no message, its translation raised, the page was too short for it, or   *)
(* it had come before the process.                                         *)
MailOnceOrLost ==
  /\ \A i, j \in 1..Len(mail_sent) : mail_sent[i] = mail_sent[j] => i = j
  /\ \A i \in 1..Len(mail_sent) : mailbox[mail_sent[i]] = "in"
  /\ \A id \in 1..last_history_id :
       mailbox[id] = "in" => id \in mail_lost \/ \E i \in 1..Len(mail_sent) : mail_sent[i] = id

(* A mail's part in the promise of AtMostOnce.                             *)
Answers(id) == {i \in 1..Len(mail_sent) : mail_sent[i] = id}
Came(id) == id <= Len(mailbox) /\ mailbox[id] = "in"
MailAsks(id) == IF Came(id) THEN 1 ELSE 0
MailLets(id) == IF Came(id) /\ id \in mail_lost /\ Answers(id) = {} THEN 1 ELSE 0

(* A mail asks once, when it comes: it is answered, or lost, only while it *)
(* waits, and none that was lost is answered later, by whatever process.   *)
MailOnce ==
  INSTANCE AtMostOnce WITH
    Items <- 1..(2 * MaxMails),
    asked <- [id \in 1..(2 * MaxMails) |-> MailAsks(id)],
    handed <- [id \in 1..(2 * MaxMails) |-> Cardinality(Answers(id))],
    let_go <- [id \in 1..(2 * MaxMails) |-> MailLets(id)]
MailImplementsAtMostOnce == MailOnce!Spec

(* With the types: what the poll promises of each mail, in each state and in each step.*)
MailPromiseKept == [](MailTypes /\ MailOnceOrLost) /\ MailImplementsAtMostOnce
===============================================================================
