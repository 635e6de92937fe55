---------------------------- MODULE VolumeCommit ----------------------------
(***************************************************************************)
(* The deployment of modal_app.py: one gateway container writes the SQLite *)
(* files of the stores to a volume, which keeps only what was committed.   *)
(* A loop commits every 30 s and goes on when that fails; a graceful stop  *)
(* commits once more; an eviction does not.  All stores are written from   *)
(* the event loop that also commits, so a commit never splits a write.     *)
(***************************************************************************)
EXTENDS Clock, Integers, Sequences

CONSTANTS
  CommitInterval,   \* 30 s
  MaxWrites         \* bound: writes on the volume

ASSUME CommitAssumption == CommitInterval \in Nat \ {0} /\ MaxWrites \in Nat

VARIABLES
  serving,     \* the container runs
  wrote,       \* the writes the container sees, each as its time
  committed,   \* how many of them the volume keeps
  wake,        \* when the loop commits next
  failed       \* history: when a commit last failed, or -1

volume_vars == <<serving, wrote, committed, wake, failed>>

VolumeInit ==
  /\ serving = FALSE /\ wrote = << >> /\ committed = 0 /\ wake = 0 /\ failed = -1

(* The lifespan starts the loop, which sleeps first.                       *)
Serve ==
  /\ ~serving
  /\ serving' = TRUE /\ wake' = now + CommitInterval
  /\ UNCHANGED <<now, wrote, committed, failed>>

(* A pairing, an audit row, a ledger row.                                  *)
StoreWrites ==
  /\ serving /\ Len(wrote) < MaxWrites
  /\ wrote' = Append(wrote, now)
  /\ UNCHANGED <<now, serving, committed, wake, failed>>

(* Mutant: an exception ends the loop.                                     *)
LoopAfterFailureEnds == MaxTime + CommitInterval

LoopAfterFailure == now + CommitInterval

LoopCommits ==
  /\ serving /\ now >= wake
  /\ \/ committed' = Len(wrote) /\ wake' = now + CommitInterval /\ UNCHANGED failed
     \/ failed' = now /\ wake' = LoopAfterFailure /\ UNCHANGED committed
  /\ UNCHANGED <<now, serving, wrote>>

(* Scaled to zero, or redeployed: the last commit, which may fail, decides *)
(* what the next container finds.                                          *)
GracefulStop ==
  /\ serving
  /\ \/ committed' = Len(wrote) /\ UNCHANGED <<wrote, failed>>
     \/ failed' = now /\ wrote' = SubSeq(wrote, 1, committed) /\ UNCHANGED committed
  /\ serving' = FALSE
  /\ UNCHANGED <<now, wake>>

Evict ==
  /\ serving
  /\ serving' = FALSE /\ wrote' = SubSeq(wrote, 1, committed)
  /\ UNCHANGED <<now, committed, wake, failed>>

(* The loop is on time: time passes beyond its turn only when it had it.   *)
VolumeTick ==
  /\ Passes /\ (serving => now < wake)
  /\ UNCHANGED volume_vars

VolumeNext == Serve \/ StoreWrites \/ LoopCommits \/ GracefulStop \/ Evict \/ VolumeTick

VolumeSpec == ClockInit /\ VolumeInit /\ [][VolumeNext]_<<now, volume_vars>>
-----------------------------------------------------------------------------
(* "An uncommitted write is still lost if this container is evicted": what *)
(* a container that ends takes with it was written in the last 30 s, or    *)
(* not before the last commit that failed; in particular a failed commit   *)
(* delays the next ones by no more than that.                              *)
LossBounded ==
  [][\A i \in 1..Len(wrote) :
       i > Len(wrote') => now - wrote[i] <= CommitInterval \/ failed' >= wrote[i]]_wrote
=============================================================================
