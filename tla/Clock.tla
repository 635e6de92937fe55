-------------------------------- MODULE Clock --------------------------------
(* time.time() for the components that read it; it does not step back.     *)
EXTENDS Integers, Sequences

CONSTANT MaxTime          \* bound: the last tick

VARIABLE now              \* time.time()

ASSUME MaxTimeAssumption == MaxTime \in Nat

ClockInit == now = 0
Passes == now < MaxTime /\ now' = now + 1

(* gc() of a deque of times: from the left, what is before the cutoff.     *)
NotBefore(times, cutoff) ==
  LET young == {i \in 1..Len(times) : times[i] >= cutoff}
  IN  IF young = {} THEN << >>
      ELSE SubSeq(times, CHOOSE i \in young : \A j \in young : i <= j, Len(times))
==============================================================================
