----------------------------- MODULE StopTheWorld -----------------------------
(***************************************************************************)
(* How a collection is asked for and how the world is stopped for it: the    *)
(* service thread and call_service_thread() (mt-safety/mt-safety.c), the     *)
(* signal handler, stop_the_world() and start_the_world()                    *)
(* (mt-safety/stop-the-world.c), the allocation lock                         *)
(* (allocator/allocator.c) and gc_malloc() (gc.c).                           *)
(*                                                                          *)
(* The registered threads stay the same: none is created and none ends, so   *)
(* thread_creation_lock is always free for stop_the_world().  What is under  *)
(* is_world_started_lock is one step, for nobody keeps it.  The heap is the  *)
(* number of allocations that can still succeed.                            *)
(***************************************************************************)
EXTENDS Naturals, FiniteSets

CONSTANTS
  Threads,         \* the registered threads
  Service,         \* service_thread
  Nobody,          \* the holder of a lock that is free
  Room,            \* bound: allocations that succeed between two collections
  SpuriousWakeups  \* may pthread_cond_wait() return without a broadcast?

ASSUME ThreadsAssumption == IsFiniteSet(Threads) /\ Threads # {} /\ Service \notin Threads
ASSUME NobodyAssumption == Nobody \notin Threads \cup {Service}
ASSUME RoomAssumption == Room \in Nat
ASSUME SpuriousAssumption == SpuriousWakeups \in BOOLEAN

VARIABLES
  pc,              \* where a thread is in gc_malloc()
  again,           \* it is in its second call of allocate_new_object()
  handler,         \* where it is in handler(), on top of gc_malloc()
  pending,         \* threads with a pending SIG_TO_STOP
  spc,             \* where the service thread is
  toSignal,        \* threads stop_the_world() has still to signal
  callLock,        \* holder of service_thrd_call_lock
  deliveryLock,    \* holder of signal_delivery_lock
  writing,         \* allocation_lock is held by the service thread
  isGcCalled,      \* is_gc_called
  isWorldStarted,  \* is_world_started
  arrived,         \* who waits at barrier, the one of stop_the_world()
  free,            \* allocations that will still succeed
  early,           \* history: threads whose last wait in handler() ended
                   \* without a broadcast
  swept            \* history: threads whose failed allocation was followed
                   \* by a sweep

locks == <<callLock, deliveryLock, writing>>
flags == <<isGcCalled, isWorldStarted>>
stopping == <<handler, pending, toSignal, arrived, early>>
vars == <<pc, again, stopping, spc, locks, flags, free, swept>>

Asking == {"callLock", "test", "signalBarrier", "spin", "spinHeld", "callUnlock"}

TypeOK ==
  /\ pc \in [Threads -> {"run", "readLock", "allocate"} \cup Asking]
  /\ again \in [Threads -> BOOLEAN]
  /\ handler \in [Threads -> {"none", "arrive", "waiting", "check", "asleep", "woken"}]
  /\ pending \in SUBSET Threads
  /\ spc \in {"spinLock", "signalBarrier", "writeLock", "spinUnlock", "stop", "signal",
              "waiting", "mark", "sweep", "start", "broadcast", "clear", "writeUnlock"}
  /\ toSignal \in SUBSET Threads
  /\ callLock \in Threads \cup {Nobody}
  /\ deliveryLock \in Threads \cup {Service, Nobody}
  /\ writing \in BOOLEAN
  /\ isGcCalled \in BOOLEAN
  /\ isWorldStarted \in BOOLEAN
  /\ arrived \in SUBSET (Threads \cup {Service})
  /\ free \in 0 .. Room
  /\ early \in SUBSET Threads
  /\ swept \in SUBSET Threads

Init ==
  /\ pc = [t \in Threads |-> "run"]
  /\ again = [t \in Threads |-> FALSE]
  /\ handler = [t \in Threads |-> "none"]
  /\ pending = {}
  /\ spc = "spinLock"
  /\ toSignal = {}
  /\ callLock = Nobody
  /\ deliveryLock = Nobody
  /\ writing = FALSE
  /\ isGcCalled = FALSE
  /\ isWorldStarted = FALSE
  /\ arrived = {}
  /\ free = Room
  /\ early = {}
  /\ swept = {}

-------------------------------------------------------------------------------
(***************************************************************************)
(* gc_malloc(): a thread runs its own code while it is not in handler().    *)
(***************************************************************************)

At(t, place) == pc[t] = place /\ handler[t] = "none"
Goto(t, place) == pc' = [pc EXCEPT ![t] = place]

CallMalloc(t) ==
  /\ At(t, "run")
  /\ Goto(t, "readLock")
  /\ again' = [again EXCEPT ![t] = FALSE]
  /\ UNCHANGED <<stopping, spc, locks, flags, free, swept>>

\* allocate_new_object(): pthread_rwlock_rdlock(&allocation_lock).
LockRead(t) ==
  /\ At(t, "readLock")
  /\ ~writing
  /\ Goto(t, "allocate")
  /\ UNCHANGED <<again, stopping, spc, locks, flags, free, swept>>

\* Mutant of HeapHasRoom: the end of the heap is not noticed.
HeapIsEndless == TRUE

HeapHasRoom == free > 0

\* The rest of allocate_new_object(), which gives the lock back.
Allocate(t) ==
  /\ At(t, "allocate")
  /\ HeapHasRoom
  /\ free' = free - 1
  /\ Goto(t, "run")
  /\ UNCHANGED <<again, stopping, spc, locks, flags, swept>>

\* It returns NULL.  After the first time gc_malloc() asks for a collection,
\* after the second one it returns NULL itself.
FailToAllocate(t) ==
  /\ At(t, "allocate")
  /\ Goto(t, IF again[t] THEN "run" ELSE "callLock")
  /\ swept' = swept \ {t}
  /\ UNCHANGED <<again, stopping, spc, locks, flags, free>>

\* call_service_thread()
LockCall(t) ==
  /\ At(t, "callLock")
  /\ callLock = Nobody
  /\ callLock' = t
  /\ Goto(t, "test")
  /\ UNCHANGED <<again, stopping, spc, deliveryLock, writing, flags, free, swept>>

TestCalled(t) ==
  /\ At(t, "test")
  /\ isGcCalled' = TRUE
  /\ Goto(t, IF isGcCalled THEN "callUnlock" ELSE "signalBarrier")
  /\ UNCHANGED <<again, stopping, spc, locks, isWorldStarted, free, swept>>

\* Mutant of AfterMeeting: the caller does not wait for signal_delivery_lock.
AfterMeetingAtOnce == "callUnlock"

\* After signal_barrier the caller takes signal_delivery_lock.
AfterMeeting == "spin"

\* Both sides of signal_barrier, which is for two threads.
Meet(t) ==
  /\ At(t, "signalBarrier")
  /\ spc = "signalBarrier"
  /\ Goto(t, AfterMeeting)
  /\ spc' = "writeLock"
  /\ UNCHANGED <<again, stopping, locks, flags, free, swept>>

LockDelivery(t) ==
  /\ At(t, "spin")
  /\ deliveryLock = Nobody
  /\ deliveryLock' = t
  /\ Goto(t, "spinHeld")
  /\ UNCHANGED <<again, stopping, spc, callLock, writing, flags, free, swept>>

UnlockDelivery(t) ==
  /\ At(t, "spinHeld")
  /\ deliveryLock' = Nobody
  /\ Goto(t, "callUnlock")
  /\ UNCHANGED <<again, stopping, spc, callLock, writing, flags, free, swept>>

\* Back in gc_malloc(): the second allocate_new_object() begins.
UnlockCall(t) ==
  /\ At(t, "callUnlock")
  /\ callLock' = Nobody
  /\ Goto(t, "readLock")
  /\ again' = [again EXCEPT ![t] = TRUE]
  /\ UNCHANGED <<stopping, spc, deliveryLock, writing, flags, free, swept>>

-------------------------------------------------------------------------------
(***************************************************************************)
(* handler(): all signals are blocked in it, so a second SIG_TO_STOP stays   *)
(* pending until it returns.                                                 *)
(***************************************************************************)

InHandler(t, place) == handler' = [handler EXCEPT ![t] = place]

\* clear_cache(), push_registers_to_stack()
EnterHandler(t) ==
  /\ t \in pending
  /\ handler[t] = "none"
  /\ pending' = pending \ {t}
  /\ InHandler(t, "arrive")
  /\ early' = early \ {t}
  /\ UNCHANGED <<pc, again, toSignal, arrived, spc, locks, flags, free, swept>>

\* pthread_barrier_init(&barrier, NULL, threads_stopped + 1)
Full(waiters) == Cardinality(waiters) = Cardinality(Threads) + 1

\* pthread_barrier_wait(&barrier): the last to come releases everybody, and the
\* service thread goes on to mark().
ArriveAtBarrier(t) ==
  /\ handler[t] = "arrive"
  /\ IF Full(arrived \cup {t})
     THEN /\ arrived' = {}
          /\ handler' = [u \in Threads |-> IF u \in arrived \cup {t} THEN "check" ELSE handler[u]]
          /\ spc' = IF Service \in arrived THEN "mark" ELSE spc
     ELSE /\ arrived' = arrived \cup {t}
          /\ InHandler(t, "waiting")
          /\ UNCHANGED spc
  /\ UNCHANGED <<pc, again, pending, toSignal, early, locks, flags, free, swept>>

\* Mutant of MustWait: nobody waits for start_the_world().
NeverWait == FALSE

\* if (!is_world_started)
MustWait == ~isWorldStarted

\* Under is_world_started_lock: go on, or wait on start_world_cond.
CheckStarted(t) ==
  /\ handler[t] = "check"
  /\ InHandler(t, IF MustWait THEN "asleep" ELSE "none")
  /\ UNCHANGED <<pc, again, pending, toSignal, arrived, spc, early, locks, flags, free, swept>>

WakeSpuriously(t) ==
  /\ SpuriousWakeups
  /\ handler[t] = "asleep"
  /\ InHandler(t, "woken")
  /\ early' = early \cup {t}
  /\ UNCHANGED <<pc, again, pending, toSignal, arrived, spc, locks, flags, free, swept>>

\* pthread_cond_wait() returns, and handler() with it.
LeaveHandler(t) ==
  /\ handler[t] = "woken"
  /\ InHandler(t, "none")
  /\ UNCHANGED <<pc, again, pending, toSignal, arrived, spc, early, locks, flags, free, swept>>

-------------------------------------------------------------------------------
(***************************************************************************)
(* service_thread_routine()                                                 *)
(***************************************************************************)

ServiceLocksDelivery ==
  /\ spc = "spinLock"
  /\ deliveryLock = Nobody
  /\ deliveryLock' = Service
  /\ spc' = "signalBarrier"
  /\ UNCHANGED <<pc, again, stopping, callLock, writing, flags, free, swept>>

\* Mutant of NoReaders: lock_allocation() does not wait for allocations.
NoReadersUnchecked == TRUE

NoReaders == \A t \in Threads : pc[t] # "allocate"

\* lock_allocation()
LockAllocation ==
  /\ spc = "writeLock"
  /\ NoReaders
  /\ writing' = TRUE
  /\ spc' = "spinUnlock"
  /\ UNCHANGED <<pc, again, stopping, callLock, deliveryLock, flags, free, swept>>

\* Mutant of ServiceUnlocksDelivery: signal_delivery_lock is kept.
ServiceKeepsDelivery ==
  /\ spc = "spinUnlock"
  /\ spc' = "stop"
  /\ UNCHANGED <<pc, again, stopping, locks, flags, free, swept>>

ServiceUnlocksDelivery ==
  /\ spc = "spinUnlock"
  /\ deliveryLock' = Nobody
  /\ spc' = "stop"
  /\ UNCHANGED <<pc, again, stopping, callLock, writing, flags, free, swept>>

\* stop_the_world(), up to start_threads_storage_traverse().
StopTheWorld ==
  /\ spc = "stop"
  /\ isWorldStarted' = FALSE
  /\ arrived' = {}
  /\ toSignal' = Threads
  /\ spc' = "signal"
  /\ UNCHANGED <<pc, again, handler, pending, early, locks, isGcCalled, free, swept>>

\* pthread_kill(get_next_thread(), SIG_TO_STOP); signals do not queue.
Signal(t) ==
  /\ spc = "signal"
  /\ t \in toSignal
  /\ toSignal' = toSignal \ {t}
  /\ pending' = pending \cup {t}
  /\ UNCHANGED <<pc, again, handler, arrived, spc, early, locks, flags, free, swept>>

\* The end of stop_the_world(): pthread_barrier_wait(&barrier).
ServiceArrives ==
  /\ spc = "signal"
  /\ toSignal = {}
  /\ IF Full(arrived \cup {Service})
     THEN /\ arrived' = {}
          /\ handler' = [u \in Threads |-> IF u \in arrived THEN "check" ELSE handler[u]]
          /\ spc' = "mark"
     ELSE /\ arrived' = arrived \cup {Service}
          /\ spc' = "waiting"
          /\ UNCHANGED handler
  /\ UNCHANGED <<pc, again, pending, toSignal, early, locks, flags, free, swept>>

\* mark() is the subject of Marking.
Mark ==
  /\ spc = "mark"
  /\ spc' = "sweep"
  /\ UNCHANGED <<pc, again, stopping, locks, flags, free, swept>>

Sweep ==
  /\ spc = "sweep"
  /\ free' \in 0 .. Room
  /\ swept' = Threads
  /\ spc' = "start"
  /\ UNCHANGED <<pc, again, stopping, locks, flags>>

\* start_the_world(), under is_world_started_lock.
StartTheWorld ==
  /\ spc = "start"
  /\ isWorldStarted' = TRUE
  /\ spc' = "broadcast"
  /\ UNCHANGED <<pc, again, stopping, locks, isGcCalled, free, swept>>

\* Mutant of Woken: one thread is woken, as pthread_cond_signal() would do.
WokenOne(t) ==
  handler[t] = "asleep" /\ t = CHOOSE u \in Threads : handler[u] = "asleep"

\* pthread_cond_broadcast()
Woken(t) == handler[t] = "asleep"

Broadcast ==
  /\ spc = "broadcast"
  /\ handler' = [t \in Threads |-> IF Woken(t) THEN "woken" ELSE handler[t]]
  /\ spc' = "clear"
  /\ UNCHANGED <<pc, again, pending, toSignal, arrived, early, locks, flags, free, swept>>

\* Mutant of ClearedCall: is_gc_called is not reset.
ClearedCallForgotten == isGcCalled

ClearedCall == FALSE

\* is_gc_called = false, under service_thrd_call_lock.
ClearCalled ==
  /\ spc = "clear"
  /\ callLock = Nobody
  /\ isGcCalled' = ClearedCall
  /\ spc' = "writeUnlock"
  /\ UNCHANGED <<pc, again, stopping, locks, isWorldStarted, free, swept>>

\* unlock_allocation()
UnlockAllocation ==
  /\ spc = "writeUnlock"
  /\ writing' = FALSE
  /\ spc' = "spinLock"
  /\ UNCHANGED <<pc, again, stopping, callLock, deliveryLock, flags, free, swept>>

-------------------------------------------------------------------------------

\* The steps of a call of gc_malloc() that is under way.
Malloc(t) ==
  \/ LockRead(t)
  \/ Allocate(t)
  \/ FailToAllocate(t)
  \/ LockCall(t)
  \/ TestCalled(t)
  \/ Meet(t)
  \/ LockDelivery(t)
  \/ UnlockDelivery(t)
  \/ UnlockCall(t)

Handler(t) ==
  \/ EnterHandler(t)
  \/ ArriveAtBarrier(t)
  \/ CheckStarted(t)
  \/ LeaveHandler(t)

ServiceThread ==
  \/ ServiceLocksDelivery
  \/ LockAllocation
  \/ ServiceUnlocksDelivery
  \/ StopTheWorld
  \/ \E t \in Threads : Signal(t)
  \/ ServiceArrives
  \/ Mark
  \/ Sweep
  \/ StartTheWorld
  \/ Broadcast
  \/ ClearCalled
  \/ UnlockAllocation

Next ==
  \/ \E t \in Threads : CallMalloc(t) \/ Malloc(t) \/ Handler(t) \/ WakeSpuriously(t)
  \/ ServiceThread

Spec == Init /\ [][Next]_vars

\* Threads run, and a signal is delivered: weak fairness of every step that a
\* thread does not choose to take.
FairSpec ==
  /\ Spec
  /\ \A t \in Threads : WF_vars(Malloc(t)) /\ WF_vars(Handler(t))
  /\ WF_vars(ServiceThread)

-------------------------------------------------------------------------------

(***************************************************************************)
(* While the heap is marked and swept every thread is in handler(), past     *)
(* barrier and before the end of its wait: none runs (mt-safety.c, 63-65).   *)
(* The one exception is a thread whose pthread_cond_wait() returned by       *)
(* itself, for handler() waits under an if (stop-the-world.c, 27-29).        *)
(***************************************************************************)
WorldStopped ==
  spc \in {"mark", "sweep"} =>
    \A t \in Threads : handler[t] \in {"check", "asleep"} \/ t \in early

(***************************************************************************)
(* handler() empties the cache of its thread, so it must not interrupt       *)
(* allocate_small_object(): lock_allocation() comes before stop_the_world()  *)
(* and no signal is left over when it is given back (mt-safety.c, 61-70;     *)
(* stop-the-world.c, 23).                                                   *)
(***************************************************************************)
HandlerOutsideAllocation ==
  \A t \in Threads : pc[t] = "allocate" => handler[t] = "none" /\ t \notin pending

(***************************************************************************)
(* gc_malloc() tries a second time only after a sweep that its failed        *)
(* attempt preceded, also when another thread asked for that collection or   *)
(* one was under way (gc.c, 16-20; mt-safety.c, 43-52).                      *)
(***************************************************************************)
RetryAfterCollection ==
  \A t \in Threads : pc[t] = "allocate" /\ again[t] => t \in swept

\* A thread that passed barrier and has not looked at is_world_started yet when
\* the next stop_the_world() has reset it: it will wait for a broadcast that
\* comes only after it has arrived at the next barrier.
Overtaken ==
  /\ spc \in {"signal", "waiting"}
  /\ \E t \in Threads : handler[t] = "check"

NeverOvertaken == []~Overtaken

\* A thread that gets on only when another one, or the service thread, does.
Waits(t) ==
  \/ handler[t] \in {"waiting", "asleep"}
  \/ /\ t \notin pending
     /\ \/ At(t, "readLock") /\ writing
        \/ At(t, "callLock") /\ callLock # Nobody
        \/ At(t, "signalBarrier") /\ spc # "signalBarrier"
        \/ At(t, "spin") /\ deliveryLock # Nobody

ServiceWaits ==
  \/ spc = "spinLock" /\ deliveryLock # Nobody
  \/ spc = "signalBarrier" /\ \A t \in Threads : ~At(t, "signalBarrier")
  \/ spc = "writeLock" /\ ~NoReaders
  \/ spc = "waiting"
  \/ spc = "clear" /\ callLock # Nobody

(***************************************************************************)
(* The three locks, the two barriers and the condition variable never have   *)
(* everybody wait for somebody else, unless a thread has slept through its   *)
(* restart into the next stop (mt-safety.c, 43-73; stop-the-world.c, 19-62). *)
(***************************************************************************)
NoDeadlock ==
  ServiceWaits /\ (\A t \in Threads : Waits(t)) =>
    spc = "waiting" /\ \E t \in Threads : handler[t] = "asleep"

\* What a call of gc_malloc() has got so far, in the terms of Collection.
CallState(t) ==
  CASE pc[t] = "run" -> "none"
    [] pc[t] \in {"readLock", "allocate"} /\ ~again[t] -> "first"
    [] pc[t] = "allocate" /\ again[t] -> "second"
    [] OTHER -> "failed"

Abstract == INSTANCE Collection WITH call <- [t \in Threads |-> CallState(t)]

(***************************************************************************)
(* The locks, the two barriers and the flags amount to Collection: a second  *)
(* attempt only after a sweep that came after the first one failed, and no   *)
(* sweep unless a failed call waits for it (gc.c, 11-22; mt-safety.c, 43-73).*)
(***************************************************************************)
CollectsOnDemand == Abstract!Spec

(***************************************************************************)
(* A collection that was asked for comes to its end (mt-safety.c, 54-73),    *)
(* when no thread is overtaken.                                             *)
(***************************************************************************)
CollectionCompletes == NeverOvertaken => (isGcCalled ~> ~isGcCalled)

(***************************************************************************)
(* The threads and the service thread do not all wait for each other: when    *)
(* every thread is in gc_malloc() one of the calls returns (gc.c, 11-22).    *)
(***************************************************************************)
SomeCallReturns ==
  NeverOvertaken => ((\A t \in Threads : pc[t] # "run") ~> (\E t \in Threads : pc[t] = "run"))

(***************************************************************************)
(* A stopped thread goes on after start_the_world() (stop-the-world.c,       *)
(* 19-31 and 64-70).                                                        *)
(***************************************************************************)
ThreadsGoOn == \A t \in Threads : handler[t] # "none" ~> handler[t] = "none"

===============================================================================
