----------------------------- MODULE ArtifactShelf -----------------------------
(***************************************************************************)
(* The attachment store of the Gmail channel (and, but for the names of    *)
(* its files, of twilio_sms): a file per content, named by its hash, and   *)
(* beside it a file with the time it was made, from which the clean-up of  *)
(* the poll loop goes.  A content that is there is not written again, and  *)
(* keeps its time.  The IMAP channel stores in the same directory under    *)
(* the same names, writes always, and keeps its times in memory, where     *)
(* nothing reads them: its cleanup_expired() is not called.                *)
(***************************************************************************)
EXTENDS Naturals, Clock

CONSTANTS
  Blobs,          \* contents
  ShelfMaxAge,    \* MAX_AGE, 300 seconds
  NoTime          \* no file

ASSUME ShelfAssumption == ShelfMaxAge \in Nat /\ NoTime \notin Nat

VARIABLES
  shelf,          \* the contents whose file is there
  created,        \* created[b]: what its second file says, NoTime without one
  storing,        \* the content store() has just written, without its time
  first_stored    \* history: when the file that is there was written

shelf_vars == <<shelf, created, storing, first_stored>>

ShelfInit ==
  /\ shelf = {} /\ storing = {}
  /\ created = [b \in Blobs |-> NoTime]
  /\ first_stored = [b \in Blobs |-> NoTime]

(* store(): the content; what is there is left alone.                      *)
StoreBytes(b) ==
  /\ storing = {}
  /\ b \notin shelf
  /\ shelf' = shelf \union {b} /\ storing' = {b}
  /\ first_stored' = [first_stored EXCEPT ![b] = now]
  /\ UNCHANGED <<created, now>>

(* And its time.                                                           *)
StoreMeta(b) ==
  /\ b \in storing
  /\ created' = [created EXCEPT ![b] = now] /\ storing' = {}
  /\ UNCHANGED <<shelf, first_stored, now>>

(* store() of the IMAP channel, in another process.                        *)
ImapStores(b) ==
  /\ b \notin shelf
  /\ shelf' = shelf \union {b}
  /\ first_stored' = [first_stored EXCEPT ![b] = now]
  /\ UNCHANGED <<created, storing, now>>

(* The process dies between the two: nothing will remove the content.      *)
StoreDies ==
  /\ storing # {}
  /\ storing' = {}
  /\ UNCHANGED <<shelf, created, first_stored, now>>

(* Mutant: what is exactly as old as MAX_AGE goes too.                     *)
IsOldSooner(b) == created[b] # NoTime /\ now - created[b] >= ShelfMaxAge

IsOld(b) == created[b] # NoTime /\ now - created[b] > ShelfMaxAge

(* cleanup_expired(), in the process that stores, at the end of a poll.    *)
CleanupExpired ==
  LET old == {b \in Blobs : IsOld(b)}
  IN  /\ storing = {} /\ old # {}
      /\ shelf' = shelf \ old
      /\ created' = [b \in Blobs |-> IF b \in old THEN NoTime ELSE created[b]]
      /\ UNCHANGED <<storing, first_stored, now>>

(* remove(), cleanup_session(): by a reference.                            *)
RemoveArtifact(b) ==
  /\ storing = {} /\ b \in shelf
  /\ shelf' = shelf \ {b} /\ created' = [created EXCEPT ![b] = NoTime]
  /\ first_stored' = [first_stored EXCEPT ![b] = NoTime]
  /\ UNCHANGED <<storing, now>>

ShelfNext ==
  \/ \E b \in Blobs : StoreBytes(b) \/ StoreMeta(b) \/ ImapStores(b) \/ RemoveArtifact(b)
  \/ StoreDies \/ CleanupExpired
  \/ Passes /\ UNCHANGED shelf_vars

ShelfSpec == ClockInit /\ ShelfInit /\ [][ShelfNext]_<<now, shelf_vars>>
-------------------------------------------------------------------------------
(* Nothing that may still be read goes by itself: a content stays readable *)
(* for MAX_AGE after its file was written (a repeat does not count, also   *)
(* when it is the other channel's), unless it is removed; and a time never *)
(* outlives its content, so that a content written anew is judged by its   *)
(* own age.                                                                *)
ArtifactKept ==
  \A b \in Blobs :
    /\ first_stored[b] # NoTime /\ now <= first_stored[b] + ShelfMaxAge => b \in shelf
    /\ created[b] # NoTime => b \in shelf /\ first_stored[b] <= created[b]
===============================================================================
