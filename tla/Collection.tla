------------------------------ MODULE Collection ------------------------------
(***************************************************************************)
(* What gc_malloc() promises about collections (gc.c, 11-22): a call that    *)
(* finds no memory tries exactly once more, and only after a sweep that      *)
(* began when its first attempt had failed; nothing is swept unless such a   *)
(* call waits.  StopTheWorld implements this.                               *)
(***************************************************************************)
EXTENDS Naturals

CONSTANTS
  Threads,  \* the registered threads
  Room      \* bound: allocations that succeed between two collections

VARIABLES
  call,     \* how far a thread is in gc_malloc()
  free,     \* allocations that will still succeed
  swept     \* threads whose failed attempt was followed by a sweep

vars == <<call, free, swept>>

Init ==
  /\ call = [t \in Threads |-> "none"]
  /\ free = Room
  /\ swept = {}

Become(t, state) == call' = [call EXCEPT ![t] = state]

Call(t) ==
  /\ call[t] = "none"
  /\ Become(t, "first")
  /\ UNCHANGED <<free, swept>>

Succeed(t) ==
  /\ call[t] \in {"first", "second"}
  /\ free > 0
  /\ free' = free - 1
  /\ Become(t, "none")
  /\ UNCHANGED swept

Fail(t) ==
  /\ call[t] \in {"first", "second"}
  /\ Become(t, IF call[t] = "first" THEN "failed" ELSE "none")
  /\ swept' = swept \ {t}
  /\ UNCHANGED free

Retry(t) ==
  /\ call[t] = "failed"
  /\ t \in swept
  /\ Become(t, "second")
  /\ UNCHANGED <<free, swept>>

Collect ==
  /\ \E t \in Threads : call[t] = "failed"
  /\ free' \in 0 .. Room
  /\ swept' = Threads
  /\ UNCHANGED call

Next ==
  \/ \E t \in Threads : Call(t) \/ Succeed(t) \/ Fail(t) \/ Retry(t)
  \/ Collect

Spec == Init /\ [][Next]_vars

===============================================================================
