-------------------------- MODULE StopTheWorldProofs --------------------------
(***************************************************************************)
(* Proofs about StopTheWorld, for every finite set of threads: what the      *)
(* collector may rely on while it runs, what gc_malloc() may rely on when it *)
(* tries again, and that all of it implements Collection.                   *)
(***************************************************************************)
EXTENDS StopTheWorld, FiniteSetTheorems, TLAPS

(***************************************************************************)
(* The inductive invariant.                                                 *)
(***************************************************************************)

\* Phases of service_thread_routine().
BeforeSweep == {"spinUnlock", "stop", "signal", "waiting", "mark", "sweep"}
AfterSweep == {"start", "broadcast", "clear"}
Between == {"writeUnlock", "spinLock", "signalBarrier"}

\* Who holds which lock.
LockInv ==
  /\ \A t \in Threads :
       callLock = t <=> pc[t] \in {"test", "signalBarrier", "spin", "spinHeld", "callUnlock"}
  /\ \A t \in Threads : deliveryLock = t <=> pc[t] = "spinHeld"
  /\ deliveryLock = Service <=> spc \in {"signalBarrier", "writeLock", "spinUnlock"}
  /\ writing <=> spc \in BeforeSweep \cup AfterSweep \cup {"writeUnlock"}
  /\ writing => NoReaders

\* Outside stop_the_world() no signal is under way and nobody is at barrier;
\* in it a thread is to be signalled, or signalled, or on its way to barrier, or
\* there.
BarrierInv ==
  /\ Service \in arrived <=> spc = "waiting"
  /\ \A t \in Threads :
       /\ t \in arrived <=> handler[t] = "waiting"
       /\ spc \in {"signal", "waiting"} =>
            \/ t \in toSignal \cup pending /\ handler[t] \notin {"arrive", "waiting"}
            \/ t \notin toSignal \cup pending /\ handler[t] \in {"arrive", "waiting"}
       /\ spc \notin {"signal", "waiting"} =>
            t \notin toSignal \cup pending /\ handler[t] \notin {"arrive", "waiting"}
       /\ t \notin toSignal \cap pending
  /\ spc = "waiting" => toSignal = {}

\* From stop_the_world() to start_the_world() the flag is down.
StartedInv == spc \in {"signal", "waiting", "mark", "sweep", "start"} => ~isWorldStarted

\* is_gc_called is true from the call to the end of the collection, and the
\* caller keeps service_thrd_call_lock until lock_allocation() is through.
CallInv ==
  /\ \A t \in Threads :
       /\ pc[t] = "signalBarrier" => isGcCalled /\ spc \in Between
       /\ pc[t] = "spin" => spc \in {"writeLock"} \cup BeforeSweep \cup AfterSweep
       /\ pc[t] \in {"spinHeld", "callUnlock"} => spc \in BeforeSweep \cup AfterSweep
  /\ isGcCalled =>
       \/ spc \in BeforeSweep \cup AfterSweep
       \/ spc = "writeLock" /\ \E t \in Threads : pc[t] = "spin"
       \/ spc \in Between /\ \E t \in Threads : pc[t] = "signalBarrier"
  /\ ~isGcCalled => spc \in Between

\* A thread on its second attempt has a sweep behind it or still ahead.
SweptInv ==
  /\ spc \in AfterSweep \cup {"writeUnlock"} => swept = Threads
  /\ \A t \in Threads :
       pc[t] \in {"readLock", "allocate"} /\ again[t] => t \in swept \/ spc \in BeforeSweep

IInv ==
  /\ TypeOK
  /\ LockInv
  /\ BarrierInv
  /\ StartedInv
  /\ CallInv
  /\ SweptInv
  /\ HandlerOutsideAllocation

-------------------------------------------------------------------------------

LEMMA InitIInv == Init => IInv
<1>. SUFFICES ASSUME Init
              PROVE  IInv
  OBVIOUS
<1>. USE NobodyAssumption, ThreadsAssumption, RoomAssumption DEF Init
<1>1. TypeOK
  <2>1. pc \in [Threads -> {"run", "readLock", "allocate"} \cup Asking]
    OBVIOUS
  <2>2. again \in [Threads -> BOOLEAN]
    OBVIOUS
  <2>3. free \in 0 .. Room
    OBVIOUS
  <2>. QED
    BY <2>1, <2>2, <2>3 DEF TypeOK
<1>2. LockInv
  BY DEF LockInv, NoReaders, BeforeSweep, AfterSweep, Between
<1>3. BarrierInv /\ StartedInv
  BY DEF BarrierInv, StartedInv
<1>4. CallInv /\ SweptInv
  BY DEF CallInv, SweptInv, BeforeSweep, AfterSweep, Between
<1>5. HandlerOutsideAllocation
  BY DEF HandlerOutsideAllocation
<1>. QED
  BY <1>1, <1>2, <1>3, <1>4, <1>5 DEF IInv

\* The barrier is full when every thread and the service thread are there.
LEMMA FullMeansAll ==
  ASSUME NEW waiters \in SUBSET (Threads \cup {Service}), Full(waiters)
  PROVE  waiters = Threads \cup {Service}
<1>1. IsFiniteSet(Threads \cup {Service})
  BY ThreadsAssumption, FS_AddElement
<1>2. Cardinality(Threads \cup {Service}) = Cardinality(Threads) + 1
  BY ThreadsAssumption, FS_AddElement
<1>. QED
  BY <1>1, <1>2, FS_Subset DEF Full

LEMMA CallMallocIInv ==
  ASSUME IInv, NEW t \in Threads, CallMalloc(t)
  PROVE  IInv'
<1>. USE NobodyAssumption, ThreadsAssumption, RoomAssumption
     DEF IInv, CallMalloc, At, Goto, stopping, locks, flags
<1>1. TypeOK'
  BY DEF TypeOK, Asking
<1>2. BarrierInv' /\ StartedInv'
  BY DEF BarrierInv, StartedInv
<1>3. LockInv'
  BY DEF TypeOK, LockInv, NoReaders, BeforeSweep, AfterSweep, Between
<1>4. CallInv'
  BY DEF TypeOK, CallInv, LockInv, BeforeSweep, AfterSweep, Between
<1>5. SweptInv'
  BY DEF TypeOK, SweptInv, LockInv, CallInv, NoReaders, BeforeSweep, AfterSweep, Between
<1>6. HandlerOutsideAllocation'
  BY DEF TypeOK, HandlerOutsideAllocation, BarrierInv, LockInv, NoReaders, BeforeSweep, AfterSweep, Between
<1>. QED
  BY <1>1, <1>2, <1>3, <1>4, <1>5, <1>6

LEMMA LockReadIInv ==
  ASSUME IInv, NEW t \in Threads, LockRead(t)
  PROVE  IInv'
<1>. USE NobodyAssumption, ThreadsAssumption, RoomAssumption
     DEF IInv, LockRead, At, Goto, stopping, locks, flags
<1>1. TypeOK'
  BY DEF TypeOK, Asking
<1>2. BarrierInv' /\ StartedInv'
  BY DEF BarrierInv, StartedInv
<1>3. LockInv'
  BY DEF TypeOK, LockInv, NoReaders, BeforeSweep, AfterSweep, Between
<1>4. CallInv'
  BY DEF TypeOK, CallInv, LockInv, BeforeSweep, AfterSweep, Between
<1>5. SweptInv'
  BY DEF TypeOK, SweptInv, LockInv, CallInv, NoReaders, BeforeSweep, AfterSweep, Between
<1>6. HandlerOutsideAllocation'
  BY DEF TypeOK, HandlerOutsideAllocation, BarrierInv, LockInv, NoReaders, BeforeSweep, AfterSweep, Between
<1>. QED
  BY <1>1, <1>2, <1>3, <1>4, <1>5, <1>6

LEMMA AllocateIInv ==
  ASSUME IInv, NEW t \in Threads, Allocate(t)
  PROVE  IInv'
<1>. USE NobodyAssumption, ThreadsAssumption, RoomAssumption
     DEF IInv, Allocate, At, Goto, HeapHasRoom, stopping, locks, flags
<1>1. TypeOK'
  BY DEF TypeOK, Asking
<1>2. BarrierInv' /\ StartedInv'
  BY DEF BarrierInv, StartedInv
<1>3. LockInv'
  BY DEF TypeOK, LockInv, NoReaders, BeforeSweep, AfterSweep, Between
<1>4. CallInv'
  BY DEF TypeOK, CallInv, LockInv, BeforeSweep, AfterSweep, Between
<1>5. SweptInv'
  BY DEF TypeOK, SweptInv, LockInv, CallInv, NoReaders, BeforeSweep, AfterSweep, Between
<1>6. HandlerOutsideAllocation'
  BY DEF TypeOK, HandlerOutsideAllocation, BarrierInv, LockInv, NoReaders, BeforeSweep, AfterSweep, Between
<1>. QED
  BY <1>1, <1>2, <1>3, <1>4, <1>5, <1>6

LEMMA FailToAllocateIInv ==
  ASSUME IInv, NEW t \in Threads, FailToAllocate(t)
  PROVE  IInv'
<1>. USE NobodyAssumption, ThreadsAssumption, RoomAssumption
     DEF IInv, FailToAllocate, At, Goto, stopping, locks, flags
<1>1. TypeOK'
  BY DEF TypeOK, Asking
<1>2. BarrierInv' /\ StartedInv'
  BY DEF BarrierInv, StartedInv
<1>3. LockInv'
  BY DEF TypeOK, LockInv, NoReaders, BeforeSweep, AfterSweep, Between
<1>4. CallInv'
  BY DEF TypeOK, CallInv, LockInv, BeforeSweep, AfterSweep, Between
<1>5. SweptInv'
  BY DEF TypeOK, SweptInv, LockInv, CallInv, NoReaders, BeforeSweep, AfterSweep, Between
<1>6. HandlerOutsideAllocation'
  BY DEF TypeOK, HandlerOutsideAllocation, BarrierInv, LockInv, NoReaders, BeforeSweep, AfterSweep, Between
<1>. QED
  BY <1>1, <1>2, <1>3, <1>4, <1>5, <1>6

LEMMA LockCallIInv ==
  ASSUME IInv, NEW t \in Threads, LockCall(t)
  PROVE  IInv'
<1>. USE NobodyAssumption, ThreadsAssumption, RoomAssumption
     DEF IInv, LockCall, At, Goto, stopping, locks, flags
<1>1. TypeOK'
  BY DEF TypeOK, Asking
<1>2. BarrierInv' /\ StartedInv'
  BY DEF BarrierInv, StartedInv
<1>3. LockInv'
  BY DEF TypeOK, LockInv, NoReaders, BeforeSweep, AfterSweep, Between
<1>4. CallInv'
  BY DEF TypeOK, CallInv, LockInv, BeforeSweep, AfterSweep, Between
<1>5. SweptInv'
  BY DEF TypeOK, SweptInv, LockInv, CallInv, NoReaders, BeforeSweep, AfterSweep, Between
<1>6. HandlerOutsideAllocation'
  BY DEF TypeOK, HandlerOutsideAllocation, BarrierInv, LockInv, NoReaders, BeforeSweep, AfterSweep, Between
<1>. QED
  BY <1>1, <1>2, <1>3, <1>4, <1>5, <1>6

LEMMA TestCalledIInv ==
  ASSUME IInv, NEW t \in Threads, TestCalled(t)
  PROVE  IInv'
<1>. USE NobodyAssumption, ThreadsAssumption, RoomAssumption
     DEF IInv, TestCalled, At, Goto, stopping, locks, flags
<1>1. TypeOK'
  BY DEF TypeOK, Asking
<1>2. BarrierInv' /\ StartedInv'
  BY DEF BarrierInv, StartedInv
<1>3. LockInv'
  BY DEF TypeOK, LockInv, NoReaders, BeforeSweep, AfterSweep, Between
<1>4. CallInv'
  BY DEF TypeOK, CallInv, LockInv, BeforeSweep, AfterSweep, Between
<1>5. SweptInv'
  BY DEF TypeOK, SweptInv, LockInv, CallInv, NoReaders, BeforeSweep, AfterSweep, Between
<1>6. HandlerOutsideAllocation'
  BY DEF TypeOK, HandlerOutsideAllocation, BarrierInv, LockInv, NoReaders, BeforeSweep, AfterSweep, Between
<1>. QED
  BY <1>1, <1>2, <1>3, <1>4, <1>5, <1>6

LEMMA MeetIInv ==
  ASSUME IInv, NEW t \in Threads, Meet(t)
  PROVE  IInv'
<1>. USE NobodyAssumption, ThreadsAssumption, RoomAssumption
     DEF IInv, Meet, At, Goto, AfterMeeting, stopping, locks, flags
<1>1. TypeOK'
  BY DEF TypeOK, Asking
<1>2. LockInv'
  BY DEF TypeOK, LockInv, NoReaders, BeforeSweep, AfterSweep, Between
<1>3. BarrierInv'
  BY DEF TypeOK, BarrierInv
<1>4. StartedInv'
  BY DEF TypeOK, StartedInv
<1>5. CallInv'
  BY DEF TypeOK, CallInv, LockInv, BeforeSweep, AfterSweep, Between
<1>6. SweptInv'
  BY DEF TypeOK, SweptInv, LockInv, CallInv, NoReaders, BeforeSweep, AfterSweep, Between
<1>7. HandlerOutsideAllocation'
  BY DEF TypeOK, HandlerOutsideAllocation, BarrierInv, LockInv, NoReaders, BeforeSweep, AfterSweep, Between
<1>. QED
  BY <1>1, <1>2, <1>3, <1>4, <1>5, <1>6, <1>7

LEMMA LockDeliveryIInv ==
  ASSUME IInv, NEW t \in Threads, LockDelivery(t)
  PROVE  IInv'
<1>. USE NobodyAssumption, ThreadsAssumption, RoomAssumption
     DEF IInv, LockDelivery, At, Goto, stopping, locks, flags
<1>1. TypeOK'
  BY DEF TypeOK, Asking
<1>2. BarrierInv' /\ StartedInv'
  BY DEF BarrierInv, StartedInv
<1>3. LockInv'
  BY DEF TypeOK, LockInv, NoReaders, BeforeSweep, AfterSweep, Between
<1>4. CallInv'
  BY DEF TypeOK, CallInv, LockInv, BeforeSweep, AfterSweep, Between
<1>5. SweptInv'
  BY DEF TypeOK, SweptInv, LockInv, CallInv, NoReaders, BeforeSweep, AfterSweep, Between
<1>6. HandlerOutsideAllocation'
  BY DEF TypeOK, HandlerOutsideAllocation, BarrierInv, LockInv, NoReaders, BeforeSweep, AfterSweep, Between
<1>. QED
  BY <1>1, <1>2, <1>3, <1>4, <1>5, <1>6

LEMMA UnlockDeliveryIInv ==
  ASSUME IInv, NEW t \in Threads, UnlockDelivery(t)
  PROVE  IInv'
<1>. USE NobodyAssumption, ThreadsAssumption, RoomAssumption
     DEF IInv, UnlockDelivery, At, Goto, stopping, locks, flags
<1>1. TypeOK'
  BY DEF TypeOK, Asking
<1>2. BarrierInv' /\ StartedInv'
  BY DEF BarrierInv, StartedInv
<1>3. LockInv'
  BY DEF TypeOK, LockInv, NoReaders, BeforeSweep, AfterSweep, Between
<1>4. CallInv'
  BY DEF TypeOK, CallInv, LockInv, BeforeSweep, AfterSweep, Between
<1>5. SweptInv'
  BY DEF TypeOK, SweptInv, LockInv, CallInv, NoReaders, BeforeSweep, AfterSweep, Between
<1>6. HandlerOutsideAllocation'
  BY DEF TypeOK, HandlerOutsideAllocation, BarrierInv, LockInv, NoReaders, BeforeSweep, AfterSweep, Between
<1>. QED
  BY <1>1, <1>2, <1>3, <1>4, <1>5, <1>6

LEMMA UnlockCallIInv ==
  ASSUME IInv, NEW t \in Threads, UnlockCall(t)
  PROVE  IInv'
<1>. USE NobodyAssumption, ThreadsAssumption, RoomAssumption
     DEF IInv, UnlockCall, At, Goto, stopping, locks, flags
<1>1. TypeOK'
  BY DEF TypeOK, Asking
<1>2. BarrierInv' /\ StartedInv'
  BY DEF BarrierInv, StartedInv
<1>3. LockInv'
  BY DEF TypeOK, LockInv, NoReaders, BeforeSweep, AfterSweep, Between
<1>4. CallInv'
  BY DEF TypeOK, CallInv, LockInv, BeforeSweep, AfterSweep, Between
<1>5. SweptInv'
  BY DEF TypeOK, SweptInv, LockInv, CallInv, NoReaders, BeforeSweep, AfterSweep, Between
<1>6. HandlerOutsideAllocation'
  BY DEF TypeOK, HandlerOutsideAllocation, BarrierInv, LockInv, NoReaders, BeforeSweep, AfterSweep, Between
<1>. QED
  BY <1>1, <1>2, <1>3, <1>4, <1>5, <1>6

LEMMA EnterHandlerIInv ==
  ASSUME IInv, NEW t \in Threads, EnterHandler(t)
  PROVE  IInv'
<1>. USE NobodyAssumption, ThreadsAssumption, RoomAssumption
     DEF IInv, EnterHandler, InHandler, stopping, locks, flags
<1>1. TypeOK'
  BY DEF TypeOK, Asking
<1>2. LockInv' /\ StartedInv' /\ CallInv' /\ SweptInv'
  BY DEF LockInv, StartedInv, CallInv, SweptInv, NoReaders
<1>3. BarrierInv'
  BY DEF TypeOK, BarrierInv
<1>4. HandlerOutsideAllocation'
  BY DEF TypeOK, HandlerOutsideAllocation, BarrierInv, LockInv, NoReaders, BeforeSweep, AfterSweep, Between
<1>. QED
  BY <1>1, <1>2, <1>3, <1>4

\* The thread that fills the barrier finds the service thread there and every
\* other thread in handler().
LEMMA ArriveAtBarrierIInv ==
  ASSUME IInv, NEW t \in Threads, ArriveAtBarrier(t)
  PROVE  IInv'
<1>. USE NobodyAssumption, ThreadsAssumption, RoomAssumption
<1>1. pc[t] # "allocate" /\ spc \in {"signal", "waiting"} /\ t \notin toSignal \cup pending
  BY DEF IInv, HandlerOutsideAllocation, BarrierInv, ArriveAtBarrier
<1>2. CASE Full(arrived \cup {t})
  <2>. arrived' = {} /\ handler' = [u \in Threads |-> "check"] /\ spc' = "mark" /\ spc = "waiting"
    <3>1. arrived \cup {t} = Threads \cup {Service}
      BY <1>2, FullMeansAll DEF IInv, TypeOK
    <3>. QED
      BY <1>2, <3>1 DEF IInv, BarrierInv, ArriveAtBarrier
  <2>. UNCHANGED <<pc, again, pending, toSignal, early, locks, flags, free, swept>>
    BY DEF ArriveAtBarrier
  <2>. USE DEF IInv, locks, flags
  <2>1. TypeOK'
    BY DEF TypeOK
  <2>2. LockInv'
    BY DEF LockInv, NoReaders, BeforeSweep, AfterSweep
  <2>3. BarrierInv'
    <3>1. toSignal = {}
      BY DEF BarrierInv
    <3>2. \A u \in Threads : u \notin pending
      <4>1. arrived \cup {t} = Threads \cup {Service}
        BY <1>2, FullMeansAll DEF TypeOK
      <4>. QED
        BY <1>1, <4>1 DEF BarrierInv
    <3>. QED
      BY <3>1, <3>2 DEF BarrierInv
  <2>4. StartedInv' /\ CallInv' /\ SweptInv'
    BY DEF StartedInv, CallInv, SweptInv, BeforeSweep, AfterSweep, Between
  <2>5. HandlerOutsideAllocation'
    BY DEF HandlerOutsideAllocation, LockInv, NoReaders, BeforeSweep
  <2>. QED
    BY <2>1, <2>2, <2>3, <2>4, <2>5
<1>3. CASE ~Full(arrived \cup {t})
  <2>. arrived' = arrived \cup {t} /\ handler' = [handler EXCEPT ![t] = "waiting"]
    BY <1>3 DEF ArriveAtBarrier, InHandler
  <2>. UNCHANGED <<pc, again, pending, toSignal, early, spc, locks, flags, free, swept>>
    BY <1>3 DEF ArriveAtBarrier
  <2>. USE DEF IInv, locks, flags
  <2>1. TypeOK'
    BY DEF TypeOK
  <2>2. LockInv' /\ StartedInv' /\ CallInv' /\ SweptInv'
    BY DEF LockInv, NoReaders, StartedInv, CallInv, SweptInv
  <2>3. BarrierInv'
    BY <1>1 DEF TypeOK, BarrierInv
  <2>4. HandlerOutsideAllocation'
    BY <1>1 DEF TypeOK, HandlerOutsideAllocation
  <2>. QED
    BY <2>1, <2>2, <2>3, <2>4
<1>. QED
  BY <1>2, <1>3

LEMMA CheckStartedIInv ==
  ASSUME IInv, NEW t \in Threads, CheckStarted(t)
  PROVE  IInv'
<1>. USE NobodyAssumption, ThreadsAssumption, RoomAssumption
     DEF IInv, CheckStarted, InHandler, MustWait, stopping, locks, flags
<1>1. TypeOK'
  BY DEF TypeOK, Asking
<1>2. LockInv' /\ StartedInv' /\ CallInv' /\ SweptInv'
  BY DEF LockInv, StartedInv, CallInv, SweptInv, NoReaders
<1>3. BarrierInv'
  BY DEF TypeOK, BarrierInv
<1>4. HandlerOutsideAllocation'
  BY DEF TypeOK, HandlerOutsideAllocation, BarrierInv, LockInv, NoReaders, BeforeSweep, AfterSweep, Between
<1>. QED
  BY <1>1, <1>2, <1>3, <1>4

LEMMA WakeSpuriouslyIInv ==
  ASSUME IInv, NEW t \in Threads, WakeSpuriously(t)
  PROVE  IInv'
<1>. USE NobodyAssumption, ThreadsAssumption, RoomAssumption
     DEF IInv, WakeSpuriously, InHandler, stopping, locks, flags
<1>1. TypeOK'
  BY DEF TypeOK, Asking
<1>2. LockInv' /\ StartedInv' /\ CallInv' /\ SweptInv'
  BY DEF LockInv, StartedInv, CallInv, SweptInv, NoReaders
<1>3. BarrierInv'
  BY DEF TypeOK, BarrierInv
<1>4. HandlerOutsideAllocation'
  BY DEF TypeOK, HandlerOutsideAllocation, BarrierInv, LockInv, NoReaders, BeforeSweep, AfterSweep, Between
<1>. QED
  BY <1>1, <1>2, <1>3, <1>4

LEMMA LeaveHandlerIInv ==
  ASSUME IInv, NEW t \in Threads, LeaveHandler(t)
  PROVE  IInv'
<1>. USE NobodyAssumption, ThreadsAssumption, RoomAssumption
     DEF IInv, LeaveHandler, InHandler, stopping, locks, flags
<1>1. TypeOK'
  BY DEF TypeOK, Asking
<1>2. LockInv' /\ StartedInv' /\ CallInv' /\ SweptInv'
  BY DEF LockInv, StartedInv, CallInv, SweptInv, NoReaders
<1>3. BarrierInv'
  BY DEF TypeOK, BarrierInv
<1>4. HandlerOutsideAllocation'
  BY DEF TypeOK, HandlerOutsideAllocation, BarrierInv, LockInv, NoReaders, BeforeSweep, AfterSweep, Between
<1>. QED
  BY <1>1, <1>2, <1>3, <1>4

LEMMA ServiceLocksDeliveryIInv ==
  ASSUME IInv, ServiceLocksDelivery
  PROVE  IInv'
<1>. USE NobodyAssumption, ThreadsAssumption, RoomAssumption
     DEF IInv, ServiceLocksDelivery, stopping, locks, flags
<1>1. TypeOK'
  BY DEF TypeOK, Asking
<1>2. HandlerOutsideAllocation'
  BY DEF HandlerOutsideAllocation
<1>3. LockInv'
  BY DEF TypeOK, LockInv, NoReaders, BeforeSweep, AfterSweep, Between
<1>4. BarrierInv'
  BY DEF TypeOK, BarrierInv
<1>5. StartedInv'
  BY DEF TypeOK, StartedInv
<1>6. CallInv'
  BY DEF TypeOK, CallInv, LockInv, BeforeSweep, AfterSweep, Between
<1>7. SweptInv'
  BY DEF TypeOK, SweptInv, LockInv, CallInv, NoReaders, BeforeSweep, AfterSweep, Between
<1>. QED
  BY <1>1, <1>2, <1>3, <1>4, <1>5, <1>6, <1>7

LEMMA LockAllocationIInv ==
  ASSUME IInv, LockAllocation
  PROVE  IInv'
<1>. USE NobodyAssumption, ThreadsAssumption, RoomAssumption
     DEF IInv, LockAllocation, stopping, locks, flags
<1>1. TypeOK'
  BY DEF TypeOK, Asking
<1>2. HandlerOutsideAllocation'
  BY DEF HandlerOutsideAllocation
<1>3. LockInv'
  BY DEF TypeOK, LockInv, NoReaders, BeforeSweep, AfterSweep, Between
<1>4. BarrierInv'
  BY DEF TypeOK, BarrierInv
<1>5. StartedInv'
  BY DEF TypeOK, StartedInv
<1>6. CallInv'
  BY DEF TypeOK, CallInv, LockInv, BeforeSweep, AfterSweep, Between
<1>7. SweptInv'
  BY DEF TypeOK, SweptInv, LockInv, CallInv, NoReaders, BeforeSweep, AfterSweep, Between
<1>. QED
  BY <1>1, <1>2, <1>3, <1>4, <1>5, <1>6, <1>7

LEMMA ServiceUnlocksDeliveryIInv ==
  ASSUME IInv, ServiceUnlocksDelivery
  PROVE  IInv'
<1>. USE NobodyAssumption, ThreadsAssumption, RoomAssumption
     DEF IInv, ServiceUnlocksDelivery, stopping, locks, flags
<1>1. TypeOK'
  BY DEF TypeOK, Asking
<1>2. HandlerOutsideAllocation'
  BY DEF HandlerOutsideAllocation
<1>3. LockInv'
  BY DEF TypeOK, LockInv, NoReaders, BeforeSweep, AfterSweep, Between
<1>4. BarrierInv'
  BY DEF TypeOK, BarrierInv
<1>5. StartedInv'
  BY DEF TypeOK, StartedInv
<1>6. CallInv'
  BY DEF TypeOK, CallInv, LockInv, BeforeSweep, AfterSweep, Between
<1>7. SweptInv'
  BY DEF TypeOK, SweptInv, LockInv, CallInv, NoReaders, BeforeSweep, AfterSweep, Between
<1>. QED
  BY <1>1, <1>2, <1>3, <1>4, <1>5, <1>6, <1>7

LEMMA StopTheWorldIInv ==
  ASSUME IInv, StopTheWorld
  PROVE  IInv'
<1>. USE NobodyAssumption, ThreadsAssumption, RoomAssumption
     DEF IInv, StopTheWorld, stopping, locks, flags
<1>1. TypeOK'
  BY DEF TypeOK, Asking
<1>2. HandlerOutsideAllocation'
  BY DEF HandlerOutsideAllocation
<1>3. LockInv'
  BY DEF TypeOK, LockInv, NoReaders, BeforeSweep, AfterSweep, Between
<1>4. BarrierInv'
  BY DEF TypeOK, BarrierInv
<1>5. StartedInv'
  BY DEF TypeOK, StartedInv
<1>6. CallInv'
  BY DEF TypeOK, CallInv, LockInv, BeforeSweep, AfterSweep, Between
<1>7. SweptInv'
  BY DEF TypeOK, SweptInv, LockInv, CallInv, NoReaders, BeforeSweep, AfterSweep, Between
<1>. QED
  BY <1>1, <1>2, <1>3, <1>4, <1>5, <1>6, <1>7

LEMMA SignalIInv ==
  ASSUME IInv, NEW t \in Threads, Signal(t)
  PROVE  IInv'
<1>. USE NobodyAssumption, ThreadsAssumption, RoomAssumption
     DEF IInv, Signal, stopping, locks, flags
<1>1. TypeOK'
  BY DEF TypeOK, Asking
<1>2. LockInv' /\ StartedInv' /\ CallInv' /\ SweptInv'
  BY DEF LockInv, StartedInv, CallInv, SweptInv, NoReaders
<1>3. BarrierInv'
  BY DEF TypeOK, BarrierInv
<1>4. HandlerOutsideAllocation'
  BY DEF TypeOK, HandlerOutsideAllocation, BarrierInv, LockInv, NoReaders, BeforeSweep, AfterSweep, Between
<1>. QED
  BY <1>1, <1>2, <1>3, <1>4

LEMMA ServiceArrivesIInv ==
  ASSUME IInv, ServiceArrives
  PROVE  IInv'
<1>. USE NobodyAssumption, ThreadsAssumption, RoomAssumption
<1>. UNCHANGED <<pc, again, pending, toSignal, early, locks, flags, free, swept>> /\ spc = "signal"
  BY DEF ServiceArrives
<1>1. CASE Full(arrived \cup {Service})
  <2>1. arrived \cup {Service} = Threads \cup {Service}
    BY <1>1, FullMeansAll DEF IInv, TypeOK
  <2>. arrived' = {} /\ handler' = [u \in Threads |-> "check"] /\ spc' = "mark"
    BY <1>1, <2>1 DEF ServiceArrives
  <2>. \A u \in Threads : u \notin toSignal \cup pending
    BY <2>1 DEF IInv, BarrierInv
  <2>. USE DEF IInv, locks, flags
  <2>2. TypeOK'
    BY DEF TypeOK
  <2>3. LockInv'
    BY DEF LockInv, NoReaders, BeforeSweep, AfterSweep
  <2>4. BarrierInv'
    BY DEF BarrierInv
  <2>5. StartedInv' /\ CallInv' /\ SweptInv'
    BY DEF StartedInv, CallInv, SweptInv, BeforeSweep, AfterSweep, Between
  <2>6. HandlerOutsideAllocation'
    BY DEF HandlerOutsideAllocation, LockInv, NoReaders, BeforeSweep
  <2>. QED
    BY <2>2, <2>3, <2>4, <2>5, <2>6
<1>2. CASE ~Full(arrived \cup {Service})
  <2>. arrived' = arrived \cup {Service} /\ spc' = "waiting" /\ toSignal = {} /\ UNCHANGED handler
    BY <1>2 DEF ServiceArrives
  <2>. USE DEF IInv, locks, flags
  <2>1. TypeOK'
    BY DEF TypeOK
  <2>2. LockInv'
    BY DEF LockInv, NoReaders, BeforeSweep, AfterSweep
  <2>3. BarrierInv'
    BY DEF BarrierInv
  <2>4. StartedInv' /\ CallInv' /\ SweptInv'
    BY DEF StartedInv, CallInv, SweptInv, BeforeSweep, AfterSweep, Between
  <2>5. HandlerOutsideAllocation'
    BY DEF HandlerOutsideAllocation
  <2>. QED
    BY <2>1, <2>2, <2>3, <2>4, <2>5
<1>. QED
  BY <1>1, <1>2

LEMMA MarkIInv ==
  ASSUME IInv, Mark
  PROVE  IInv'
<1>. USE NobodyAssumption, ThreadsAssumption, RoomAssumption
     DEF IInv, Mark, stopping, locks, flags
<1>1. TypeOK'
  BY DEF TypeOK, Asking
<1>2. HandlerOutsideAllocation'
  BY DEF HandlerOutsideAllocation
<1>3. LockInv'
  BY DEF TypeOK, LockInv, NoReaders, BeforeSweep, AfterSweep, Between
<1>4. BarrierInv'
  BY DEF TypeOK, BarrierInv
<1>5. StartedInv'
  BY DEF TypeOK, StartedInv
<1>6. CallInv'
  BY DEF TypeOK, CallInv, LockInv, BeforeSweep, AfterSweep, Between
<1>7. SweptInv'
  BY DEF TypeOK, SweptInv, LockInv, CallInv, NoReaders, BeforeSweep, AfterSweep, Between
<1>. QED
  BY <1>1, <1>2, <1>3, <1>4, <1>5, <1>6, <1>7

LEMMA SweepIInv ==
  ASSUME IInv, Sweep
  PROVE  IInv'
<1>. USE NobodyAssumption, ThreadsAssumption, RoomAssumption
     DEF IInv, Sweep, stopping, locks, flags
<1>1. TypeOK'
  BY DEF TypeOK, Asking
<1>2. HandlerOutsideAllocation'
  BY DEF HandlerOutsideAllocation
<1>3. LockInv'
  BY DEF TypeOK, LockInv, NoReaders, BeforeSweep, AfterSweep, Between
<1>4. BarrierInv'
  BY DEF TypeOK, BarrierInv
<1>5. StartedInv'
  BY DEF TypeOK, StartedInv
<1>6. CallInv'
  BY DEF TypeOK, CallInv, LockInv, BeforeSweep, AfterSweep, Between
<1>7. SweptInv'
  BY DEF TypeOK, SweptInv, LockInv, CallInv, NoReaders, BeforeSweep, AfterSweep, Between
<1>. QED
  BY <1>1, <1>2, <1>3, <1>4, <1>5, <1>6, <1>7

LEMMA StartTheWorldIInv ==
  ASSUME IInv, StartTheWorld
  PROVE  IInv'
<1>. USE NobodyAssumption, ThreadsAssumption, RoomAssumption
     DEF IInv, StartTheWorld, stopping, locks, flags
<1>1. TypeOK'
  BY DEF TypeOK, Asking
<1>2. HandlerOutsideAllocation'
  BY DEF HandlerOutsideAllocation
<1>3. LockInv'
  BY DEF TypeOK, LockInv, NoReaders, BeforeSweep, AfterSweep, Between
<1>4. BarrierInv'
  BY DEF TypeOK, BarrierInv
<1>5. StartedInv'
  BY DEF TypeOK, StartedInv
<1>6. CallInv'
  BY DEF TypeOK, CallInv, LockInv, BeforeSweep, AfterSweep, Between
<1>7. SweptInv'
  BY DEF TypeOK, SweptInv, LockInv, CallInv, NoReaders, BeforeSweep, AfterSweep, Between
<1>. QED
  BY <1>1, <1>2, <1>3, <1>4, <1>5, <1>6, <1>7

LEMMA BroadcastIInv ==
  ASSUME IInv, Broadcast
  PROVE  IInv'
<1>. USE NobodyAssumption, ThreadsAssumption, RoomAssumption
     DEF IInv, Broadcast, Woken, stopping, locks, flags
<1>1. TypeOK'
  BY DEF TypeOK, Asking
<1>2. LockInv'
  BY DEF TypeOK, LockInv, NoReaders, BeforeSweep, AfterSweep, Between
<1>3. BarrierInv'
  BY DEF TypeOK, BarrierInv
<1>4. StartedInv'
  BY DEF TypeOK, StartedInv
<1>5. CallInv'
  BY DEF TypeOK, CallInv, LockInv, BeforeSweep, AfterSweep, Between
<1>6. SweptInv'
  BY DEF TypeOK, SweptInv, LockInv, CallInv, NoReaders, BeforeSweep, AfterSweep, Between
<1>7. HandlerOutsideAllocation'
  BY DEF TypeOK, HandlerOutsideAllocation, BarrierInv, LockInv, NoReaders, BeforeSweep, AfterSweep, Between
<1>. QED
  BY <1>1, <1>2, <1>3, <1>4, <1>5, <1>6, <1>7

LEMMA ClearCalledIInv ==
  ASSUME IInv, ClearCalled
  PROVE  IInv'
<1>. USE NobodyAssumption, ThreadsAssumption, RoomAssumption
     DEF IInv, ClearCalled, ClearedCall, stopping, locks, flags
<1>1. TypeOK'
  BY DEF TypeOK, Asking
<1>2. HandlerOutsideAllocation'
  BY DEF HandlerOutsideAllocation
<1>3. LockInv'
  BY DEF TypeOK, LockInv, NoReaders, BeforeSweep, AfterSweep, Between
<1>4. BarrierInv'
  BY DEF TypeOK, BarrierInv
<1>5. StartedInv'
  BY DEF TypeOK, StartedInv
<1>6. CallInv'
  BY DEF TypeOK, CallInv, LockInv, BeforeSweep, AfterSweep, Between
<1>7. SweptInv'
  BY DEF TypeOK, SweptInv, LockInv, CallInv, NoReaders, BeforeSweep, AfterSweep, Between
<1>. QED
  BY <1>1, <1>2, <1>3, <1>4, <1>5, <1>6, <1>7

LEMMA UnlockAllocationIInv ==
  ASSUME IInv, UnlockAllocation
  PROVE  IInv'
<1>. USE NobodyAssumption, ThreadsAssumption, RoomAssumption
     DEF IInv, UnlockAllocation, stopping, locks, flags
<1>1. TypeOK'
  BY DEF TypeOK, Asking
<1>2. HandlerOutsideAllocation'
  BY DEF HandlerOutsideAllocation
<1>3. LockInv'
  BY DEF TypeOK, LockInv, NoReaders, BeforeSweep, AfterSweep, Between
<1>4. BarrierInv'
  BY DEF TypeOK, BarrierInv
<1>5. StartedInv'
  BY DEF TypeOK, StartedInv
<1>6. CallInv'
  BY DEF TypeOK, CallInv, LockInv, BeforeSweep, AfterSweep, Between
<1>7. SweptInv'
  BY DEF TypeOK, SweptInv, LockInv, CallInv, NoReaders, BeforeSweep, AfterSweep, Between
<1>. QED
  BY <1>1, <1>2, <1>3, <1>4, <1>5, <1>6, <1>7

LEMMA NextIInv ==
  ASSUME IInv, [Next]_vars
  PROVE  IInv'
<1>1. CASE UNCHANGED vars
  BY <1>1 DEF IInv, TypeOK, LockInv, NoReaders, BarrierInv, StartedInv, CallInv, SweptInv,
              HandlerOutsideAllocation, vars, stopping, locks, flags
<1>2. ASSUME NEW t \in Threads, CallMalloc(t) \/ Malloc(t)
      PROVE  IInv'
  BY <1>2, CallMallocIInv, LockReadIInv, AllocateIInv, FailToAllocateIInv, LockCallIInv,
     TestCalledIInv, MeetIInv, LockDeliveryIInv, UnlockDeliveryIInv, UnlockCallIInv
     DEF Malloc
<1>3. ASSUME NEW t \in Threads, Handler(t) \/ WakeSpuriously(t)
      PROVE  IInv'
  BY <1>3, EnterHandlerIInv, ArriveAtBarrierIInv, CheckStartedIInv, LeaveHandlerIInv,
     WakeSpuriouslyIInv
     DEF Handler
<1>4. CASE ServiceThread
  BY <1>4, ServiceLocksDeliveryIInv, LockAllocationIInv, ServiceUnlocksDeliveryIInv,
     StopTheWorldIInv, SignalIInv, ServiceArrivesIInv, MarkIInv, SweepIInv,
     StartTheWorldIInv, BroadcastIInv, ClearCalledIInv, UnlockAllocationIInv
     DEF ServiceThread
<1>. QED
  BY <1>1, <1>2, <1>3, <1>4 DEF Next

THEOREM StopTheWorldInvariant == Spec => []IInv
BY InitIInv, NextIInv, PTL DEF Spec

(***************************************************************************)
(* handler(), which empties the cache of its thread, never interrupts an     *)
(* allocation (stop-the-world.c, 23; mt-safety.c, 61-70).                    *)
(***************************************************************************)
THEOREM HandlersStayOutside == Spec => []HandlerOutsideAllocation
<1>1. IInv => HandlerOutsideAllocation
  BY DEF IInv
<1>. QED
  BY <1>1, StopTheWorldInvariant, PTL

(***************************************************************************)
(* Between a failed allocation and the second attempt of gc_malloc() there   *)
(* is a sweep, whoever asked for it (gc.c, 16-20; mt-safety.c, 43-52).       *)
(***************************************************************************)
THEOREM RetriesFollowSweeps == Spec => []RetryAfterCollection
<1>1. IInv => RetryAfterCollection
  BY DEF IInv, SweptInv, LockInv, NoReaders, BeforeSweep, RetryAfterCollection
<1>. QED
  BY <1>1, StopTheWorldInvariant, PTL

(***************************************************************************)
(* Every variable keeps to its type (all of mt-safety.c and                  *)
(* stop-the-world.c).                                                       *)
(***************************************************************************)
THEOREM WorldTypes == Spec => []TypeOK
<1>1. IInv => TypeOK
  BY DEF IInv
<1>. QED
  BY <1>1, StopTheWorldInvariant, PTL

(***************************************************************************)
(* While the service thread marks and sweeps no registered thread runs,      *)
(* except those that pthread_cond_wait() let go without a broadcast          *)
(* (mt-safety.c, 63-65; stop-the-world.c, 25-30).                           *)
(***************************************************************************)
THEOREM TheWorldIsStopped == Spec => []WorldStopped
<1>1. Init => WorldStopped
  BY DEF Init, WorldStopped
<1>2. ASSUME IInv, WorldStopped, [Next]_vars
      PROVE  WorldStopped'
  <2>1. CASE UNCHANGED vars
    BY <1>2, <2>1 DEF WorldStopped, vars, stopping
  <2>2. ASSUME NEW t \in Threads, CallMalloc(t) \/ Malloc(t)
        PROVE  WorldStopped'
    BY <1>2, <2>2 DEF WorldStopped, Malloc, CallMalloc, LockRead, Allocate, FailToAllocate,
       LockCall, TestCalled, Meet, LockDelivery, UnlockDelivery, UnlockCall, stopping
  <2>3. ASSUME NEW t \in Threads, ArriveAtBarrier(t)
        PROVE  WorldStopped'
    <3>1. spc \in {"signal", "waiting"}
      BY <1>2, <2>3 DEF IInv, BarrierInv, ArriveAtBarrier
    <3>2. CASE Full(arrived \cup {t})
      <4>1. arrived \cup {t} = Threads \cup {Service}
        BY <1>2, <3>2, FullMeansAll DEF IInv, TypeOK
      <4>. QED
        BY <2>3, <3>2, <4>1 DEF ArriveAtBarrier, WorldStopped
    <3>3. CASE ~Full(arrived \cup {t})
      BY <2>3, <3>1, <3>3 DEF ArriveAtBarrier, WorldStopped
    <3>. QED
      BY <3>2, <3>3
  <2>4. ASSUME NEW t \in Threads, EnterHandler(t)
        PROVE  WorldStopped'
    BY <1>2, <2>4 DEF IInv, BarrierInv, EnterHandler, WorldStopped
  <2>5. ASSUME NEW t \in Threads, CheckStarted(t)
        PROVE  WorldStopped'
    BY <1>2, <2>5 DEF IInv, TypeOK, StartedInv, CheckStarted, InHandler, MustWait,
       WorldStopped, flags
  <2>6. ASSUME NEW t \in Threads, LeaveHandler(t) \/ WakeSpuriously(t)
        PROVE  WorldStopped'
    BY <1>2, <2>6 DEF IInv, TypeOK, LeaveHandler, WakeSpuriously, InHandler, WorldStopped
  <2>7. CASE ServiceArrives
    <3>1. CASE Full(arrived \cup {Service})
      <4>1. arrived \cup {Service} = Threads \cup {Service}
        BY <1>2, <3>1, FullMeansAll DEF IInv, TypeOK
      <4>. QED
        BY <2>7, <3>1, <4>1, ThreadsAssumption DEF ServiceArrives, WorldStopped
    <3>2. CASE ~Full(arrived \cup {Service})
      BY <2>7, <3>2 DEF ServiceArrives, WorldStopped
    <3>. QED
      BY <3>1, <3>2
  <2>8. CASE ServiceThread /\ ~ServiceArrives
    BY <1>2, <2>8 DEF ServiceThread, ServiceLocksDelivery, LockAllocation,
       ServiceUnlocksDelivery, StopTheWorld, Signal, Mark, Sweep, StartTheWorld,
       Broadcast, ClearCalled, UnlockAllocation, stopping, WorldStopped
  <2>. QED
    BY <1>2, <2>1, <2>2, <2>3, <2>4, <2>5, <2>6, <2>7, <2>8 DEF Next, Handler
<1>. QED
  BY <1>1, <1>2, StopTheWorldInvariant, PTL DEF Spec

-------------------------------------------------------------------------------
(***************************************************************************)
(* Absence of deadlock.                                                     *)
(***************************************************************************)

\* Nobody sleeps past the broadcast, and the barrier is never left full.
SleepInv ==
  /\ spc \notin {"signal", "waiting", "mark", "sweep", "start"} /\ ~isWorldStarted =>
       \A t \in Threads : handler[t] = "none"
  /\ \A t \in Threads : handler[t] = "asleep" =>
       spc \in {"signal", "waiting", "mark", "sweep", "start", "broadcast"}
  /\ spc = "waiting" => arrived # Threads \cup {Service}

LEMMA SleepInvariant == Spec => []SleepInv
<1>1. Init => SleepInv
  BY DEF Init, SleepInv
<1>2. ASSUME IInv, SleepInv, [Next]_vars
      PROVE  SleepInv'
  <2>1. CASE UNCHANGED vars
    BY <1>2, <2>1 DEF SleepInv, vars, stopping, flags
  <2>2. ASSUME NEW t \in Threads, CallMalloc(t) \/ Malloc(t)
        PROVE  SleepInv'
    BY <1>2, <2>2 DEF SleepInv, Malloc, CallMalloc, LockRead, Allocate, FailToAllocate,
       LockCall, TestCalled, Meet, LockDelivery, UnlockDelivery, UnlockCall, stopping, flags
  <2>3. ASSUME NEW t \in Threads, EnterHandler(t)
        PROVE  SleepInv'
    BY <1>2, <2>3 DEF IInv, TypeOK, BarrierInv, SleepInv, EnterHandler, InHandler, flags
  <2>4. ASSUME NEW t \in Threads, ArriveAtBarrier(t)
        PROVE  SleepInv'
    <3>1. spc \in {"signal", "waiting"}
      BY <1>2, <2>4 DEF IInv, BarrierInv, ArriveAtBarrier
    <3>2. CASE Full(arrived \cup {t})
      BY <1>2, <2>4, <3>1, <3>2 DEF IInv, TypeOK, BarrierInv, SleepInv, ArriveAtBarrier, flags
    <3>3. CASE ~Full(arrived \cup {t})
      <4>1. arrived' # Threads \cup {Service}
        BY <2>4, <3>3, ThreadsAssumption, FS_AddElement DEF ArriveAtBarrier, Full
      <4>. QED
        BY <1>2, <2>4, <3>1, <3>3, <4>1
           DEF IInv, TypeOK, SleepInv, ArriveAtBarrier, InHandler, flags
    <3>. QED
      BY <3>2, <3>3
  <2>5. ASSUME NEW t \in Threads, CheckStarted(t)
        PROVE  SleepInv'
    BY <1>2, <2>5 DEF IInv, TypeOK, SleepInv, CheckStarted, InHandler, MustWait, flags
  <2>6. ASSUME NEW t \in Threads, LeaveHandler(t) \/ WakeSpuriously(t)
        PROVE  SleepInv'
    BY <1>2, <2>6 DEF IInv, TypeOK, SleepInv, LeaveHandler, WakeSpuriously, InHandler, flags
  <2>7. CASE ServiceArrives
    <3>1. CASE Full(arrived \cup {Service})
      BY <1>2, <2>7, <3>1 DEF IInv, TypeOK, SleepInv, ServiceArrives, flags
    <3>2. CASE ~Full(arrived \cup {Service})
      <4>1. arrived' # Threads \cup {Service}
        BY <2>7, <3>2, ThreadsAssumption, FS_AddElement DEF ServiceArrives, Full
      <4>. QED
        BY <1>2, <2>7, <3>2, <4>1 DEF SleepInv, ServiceArrives, flags
    <3>. QED
      BY <3>1, <3>2
  <2>8. CASE StopTheWorld \/ StartTheWorld \/ Broadcast
    BY <1>2, <2>8 DEF IInv, TypeOK, StartedInv, SleepInv, StopTheWorld, StartTheWorld,
       Broadcast, Woken, stopping, locks, flags
  <2>9. CASE ServiceThread /\ ~(ServiceArrives \/ StopTheWorld \/ StartTheWorld \/ Broadcast)
    BY <1>2, <2>9 DEF SleepInv, ServiceThread, ServiceLocksDelivery, LockAllocation,
       ServiceUnlocksDelivery, Signal, Mark, Sweep, ClearCalled, UnlockAllocation, stopping, flags
  <2>. QED
    BY <1>2, <2>1, <2>2, <2>3, <2>4, <2>5, <2>6, <2>7, <2>8, <2>9 DEF Next, Handler
<1>. QED
  BY <1>1, <1>2, StopTheWorldInvariant, PTL DEF Spec

(***************************************************************************)
(* The three locks, the two barriers and the condition variable never have   *)
(* everybody wait for somebody else, unless a thread has slept through its   *)
(* restart into the next stop (mt-safety.c, 43-73; stop-the-world.c, 19-62). *)
(***************************************************************************)
THEOREM NobodyDeadlocks == Spec => []NoDeadlock
<1>1. ASSUME IInv, SleepInv, ServiceWaits, \A t \in Threads : Waits(t)
      PROVE  spc = "waiting" /\ \E t \in Threads : handler[t] = "asleep"
  <2>. USE <1>1 DEF IInv
  <2>1. CASE spc = "waiting"
    <3>1. SUFFICES ASSUME \A t \in Threads : handler[t] # "asleep" PROVE FALSE
      BY <2>1
    <3>2. ASSUME NEW t \in Threads PROVE t \in arrived
      BY <2>1, <3>1 DEF BarrierInv, Waits, At
    <3>3. arrived = Threads \cup {Service}
      BY <2>1, <3>2 DEF BarrierInv, TypeOK
    <3>. QED
      BY <2>1, <3>3 DEF SleepInv
  <2>2. CASE spc # "waiting"
    \* Outside the stop whoever waits is in gc_malloc(), at a lock or the barrier.
    <3>1. spc \in {"spinLock", "signalBarrier", "writeLock", "clear"}
      BY <2>2 DEF ServiceWaits
    <3>2. ASSUME NEW t \in Threads
          PROVE  /\ handler[t] = "none"
                 /\ pc[t] \in {"readLock", "callLock", "signalBarrier", "spin"}
                 /\ pc[t] = "readLock" => writing
                 /\ pc[t] = "callLock" => callLock # Nobody
                 /\ pc[t] = "signalBarrier" => spc # "signalBarrier"
                 /\ pc[t] = "spin" => deliveryLock # Nobody
      BY <3>1, <3>2 DEF BarrierInv, SleepInv, Waits, At
    <3>3. deliveryLock \in {Service, Nobody}
      BY <3>2 DEF LockInv, TypeOK
    <3>4. ASSUME NEW t \in Threads PROVE pc[t] # "spin"
      BY <3>1, <3>2, <3>3 DEF LockInv, CallInv, ServiceWaits, NoReaders, BeforeSweep, AfterSweep
    <3>5. ASSUME NEW t \in Threads PROVE pc[t] # "signalBarrier"
      BY <3>1, <3>2, <3>3 DEF LockInv, CallInv, ServiceWaits, NoReaders, Between
    <3>6. callLock = Nobody
      BY <3>2, <3>4, <3>5 DEF LockInv, TypeOK
    <3>7. \A t \in Threads : pc[t] = "readLock" /\ writing
      BY <3>2, <3>4, <3>5, <3>6
    <3>. QED
      BY <3>1, <3>2, <3>3, <3>6, <3>7, ThreadsAssumption
         DEF LockInv, ServiceWaits, NoReaders, BeforeSweep, AfterSweep
  <2>. QED
    BY <2>1, <2>2
<1>2. IInv /\ SleepInv => NoDeadlock
  BY <1>1 DEF NoDeadlock
<1>. QED
  BY <1>2, StopTheWorldInvariant, SleepInvariant, PTL

-------------------------------------------------------------------------------
(***************************************************************************)
(* StopTheWorld implements Collection.                                      *)
(***************************************************************************)

\* Until the sweep some thread waits for it: its attempt failed, and it has not
\* begun another one.
AwaitsSweep(t) ==
  \/ pc[t] \in {"spin", "spinHeld", "callUnlock"}
  \/ pc[t] = "readLock" /\ again[t]

AnswerInv == spc \in BeforeSweep => \E t \in Threads : AwaitsSweep(t)

LEMMA AnswerInvariant == Spec => []AnswerInv
<1>1. Init => AnswerInv
  BY DEF Init, AnswerInv, BeforeSweep
<1>2. ASSUME IInv, AnswerInv, [Next]_vars
      PROVE  AnswerInv'
  <2>1. CASE UNCHANGED vars
    BY <1>2, <2>1 DEF AnswerInv, AwaitsSweep, vars
  <2>2. ASSUME NEW t \in Threads, CallMalloc(t) \/ Malloc(t)
        PROVE  AnswerInv'
    <3>1. CASE spc \in BeforeSweep
      <4>1. PICK u \in Threads : AwaitsSweep(u)
        BY <1>2, <3>1 DEF AnswerInv
      <4>2. AwaitsSweep(u)'
        BY <1>2, <2>2, <3>1, <4>1 DEF IInv, TypeOK, LockInv, BeforeSweep, AfterSweep,
           AwaitsSweep, At, Goto, Malloc, CallMalloc, LockRead, Allocate, FailToAllocate, LockCall,
           TestCalled, Meet, LockDelivery, UnlockDelivery, UnlockCall
      <4>. QED
        BY <4>2 DEF AnswerInv
    <3>2. CASE spc \notin BeforeSweep
      BY <2>2, <3>2 DEF BeforeSweep, AnswerInv, Malloc, CallMalloc, LockRead, Allocate,
         FailToAllocate, LockCall, TestCalled, Meet, LockDelivery, UnlockDelivery, UnlockCall
    <3>. QED
      BY <3>1, <3>2
  <2>3. ASSUME NEW t \in Threads, Handler(t) \/ WakeSpuriously(t)
        PROVE  AnswerInv'
    <3>1. spc' = spc \/ spc = "waiting"
      BY <1>2, <2>3 DEF IInv, BarrierInv, Handler, EnterHandler, ArriveAtBarrier, CheckStarted,
         LeaveHandler, WakeSpuriously
    <3>2. UNCHANGED <<pc, again>>
      BY <2>3 DEF Handler, EnterHandler, ArriveAtBarrier, CheckStarted, LeaveHandler, WakeSpuriously
    <3>. QED
      BY <1>2, <3>1, <3>2 DEF AnswerInv, AwaitsSweep, BeforeSweep
  <2>4. CASE LockAllocation
    <3>1. \E t \in Threads : pc[t] = "spin"
      BY <1>2, <2>4 DEF IInv, CallInv, LockAllocation, BeforeSweep, AfterSweep, Between
    <3>. QED
      BY <2>4, <3>1 DEF LockAllocation, AnswerInv, AwaitsSweep
  <2>5. CASE ServiceThread /\ ~LockAllocation
    <3>1. UNCHANGED <<pc, again>>
      BY <2>5 DEF ServiceThread, ServiceLocksDelivery, ServiceUnlocksDelivery, StopTheWorld,
         Signal, ServiceArrives, Mark, Sweep, StartTheWorld, Broadcast, ClearCalled,
         UnlockAllocation
    <3>2. spc' \in BeforeSweep => spc \in BeforeSweep
      BY <1>2, <2>5 DEF BeforeSweep, ServiceThread, ServiceLocksDelivery, ServiceUnlocksDelivery,
         StopTheWorld, Signal, ServiceArrives, Mark, Sweep, StartTheWorld, Broadcast,
         ClearCalled, UnlockAllocation
    <3>. QED
      BY <1>2, <3>1, <3>2 DEF AnswerInv, AwaitsSweep
  <2>. QED
    BY <1>2, <2>1, <2>2, <2>3, <2>4, <2>5 DEF Next
<1>. QED
  BY <1>1, <1>2, StopTheWorldInvariant, PTL DEF Spec

\* What each thread has got is a function of where it is.
LEMMA CallStates ==
  ASSUME NEW t \in Threads
  PROVE  /\ pc[t] = "run" => CallState(t) = "none"
         /\ pc[t] \in {"readLock", "allocate"} /\ ~again[t] => CallState(t) = "first"
         /\ pc[t] = "allocate" /\ again[t] => CallState(t) = "second"
         /\ pc[t] \in Asking => CallState(t) = "failed"
         /\ pc[t] = "readLock" /\ again[t] => CallState(t) = "failed"
BY DEF CallState, Asking

\* A step of a thread that changes only its own place and again moves its own
\* call only.
LEMMA OneCallMoves ==
  ASSUME NEW t \in Threads, \A u \in Threads \ {t} : pc'[u] = pc[u] /\ again'[u] = again[u]
  PROVE  [u \in Threads |-> CallState(u)']
           = [[u \in Threads |-> CallState(u)] EXCEPT ![t] = CallState(t)']
<1>1. \A u \in Threads \ {t} : CallState(u)' = CallState(u)
  BY DEF CallState
<1>. QED
  BY <1>1

(***************************************************************************)
(* StopTheWorld implements Collection: every step of the locks, barriers and *)
(* flags is a step of gc_malloc() or of a collection as Collection describes *)
(* them, or changes nothing there (gc.c, 11-22; mt-safety.c, 43-73).         *)
(***************************************************************************)
THEOREM OnDemand == Spec => CollectsOnDemand
<1>. DEFINE calls == [t \in Threads |-> CallState(t)]
<1>1. Init => Abstract!Init
  BY DEF Init, Abstract!Init, CallState
<1>2. ASSUME IInv, IInv', AnswerInv, [Next]_vars
      PROVE  [Abstract!Next]_<<calls, free, swept>>
  <2>0. calls \in [Threads -> {"none", "first", "failed", "second"}]
    BY DEF CallState
  <2>1. CASE UNCHANGED vars
    BY <2>1 DEF vars, CallState
  <2>2. ASSUME NEW t \in Threads, CallMalloc(t) \/ Malloc(t)
        PROVE  [Abstract!Next]_<<calls, free, swept>>
    <3>1. calls' = [calls EXCEPT ![t] = CallState(t)']
      <4>1. \A u \in Threads \ {t} : pc'[u] = pc[u] /\ again'[u] = again[u]
        BY <1>2, <2>2 DEF IInv, TypeOK, Goto, Malloc, CallMalloc, LockRead, Allocate,
           FailToAllocate, LockCall, TestCalled, Meet, LockDelivery, UnlockDelivery, UnlockCall
      <4>. QED
        BY <4>1, OneCallMoves
    <3>2. CASE CallMalloc(t)
      <4>1. calls[t] = "none" /\ CallState(t)' = "first" /\ UNCHANGED <<free, swept>>
        BY <1>2, <3>2 DEF IInv, TypeOK, CallMalloc, At, Goto, CallState
      <4>. QED
        BY <3>1, <4>1 DEF Abstract!Next, Abstract!Call, Abstract!Become
    <3>3. CASE LockRead(t) /\ again[t]
      <4>1. calls[t] = "failed" /\ CallState(t)' = "second" /\ UNCHANGED <<free, swept>>
        BY <1>2, <3>3 DEF IInv, TypeOK, LockRead, At, Goto, CallState
      <4>2. t \in swept
        <5>1. spc \notin BeforeSweep
          BY <1>2, <3>3 DEF IInv, LockInv, LockRead
        <5>. QED
          BY <1>2, <3>3, <5>1 DEF IInv, SweptInv, LockRead, At
      <4>. QED
        BY <3>1, <4>1, <4>2 DEF Abstract!Next, Abstract!Retry, Abstract!Become
    <3>4. CASE Allocate(t)
      <4>1. calls[t] \in {"first", "second"} /\ CallState(t)' = "none"
        BY <1>2, <3>4 DEF IInv, TypeOK, Allocate, At, Goto, CallState
      <4>2. free > 0 /\ free' = free - 1 /\ UNCHANGED swept
        BY <3>4 DEF Allocate, HeapHasRoom
      <4>. QED
        BY <3>1, <4>1, <4>2 DEF Abstract!Next, Abstract!Succeed, Abstract!Become
    <3>5. CASE FailToAllocate(t)
      <4>1. CASE again[t]
        <5>1. calls[t] = "second" /\ CallState(t)' = "none"
          BY <1>2, <3>5, <4>1 DEF IInv, TypeOK, FailToAllocate, At, Goto, CallState
        <5>. QED
          BY <3>1, <3>5, <5>1 DEF FailToAllocate, Abstract!Next, Abstract!Fail, Abstract!Become
      <4>2. CASE ~again[t]
        <5>1. calls[t] = "first" /\ CallState(t)' = "failed"
          BY <1>2, <3>5, <4>2 DEF IInv, TypeOK, FailToAllocate, At, Goto, CallState
        <5>. QED
          BY <3>1, <3>5, <5>1 DEF FailToAllocate, Abstract!Next, Abstract!Fail, Abstract!Become
      <4>. QED
        BY <4>1, <4>2
    <3>6. CASE \/ LockRead(t) /\ ~again[t]
               \/ LockCall(t) \/ TestCalled(t) \/ Meet(t)
               \/ LockDelivery(t) \/ UnlockDelivery(t) \/ UnlockCall(t)
      <4>1. CallState(t)' = CallState(t)
        BY <1>2, <3>6 DEF IInv, TypeOK, At, Goto, LockRead, LockCall, TestCalled, Meet,
           AfterMeeting, LockDelivery, UnlockDelivery, UnlockCall, CallState, Asking
      <4>2. calls' = calls
        BY <2>0, <3>1, <4>1
      <4>3. UNCHANGED <<free, swept>>
        BY <3>6 DEF LockRead, LockCall, TestCalled, Meet, LockDelivery, UnlockDelivery, UnlockCall
      <4>. QED
        BY <4>2, <4>3
    <3>. QED
      BY <2>2, <3>2, <3>3, <3>4, <3>5, <3>6 DEF Malloc
  <2>3. CASE Sweep
    <3>1. PICK t \in Threads : AwaitsSweep(t)
      BY <1>2, <2>3 DEF AnswerInv, BeforeSweep, Sweep
    <3>2. calls[t] = "failed"
      BY <3>1 DEF AwaitsSweep, CallState
    <3>3. calls' = calls
      BY <2>3 DEF Sweep, CallState
    <3>. QED
      BY <2>3, <3>2, <3>3 DEF Sweep, Abstract!Next, Abstract!Collect
  <2>4. ASSUME \/ \E t \in Threads : Handler(t) \/ WakeSpuriously(t)
               \/ ServiceThread /\ ~Sweep
        PROVE  [Abstract!Next]_<<calls, free, swept>>
    <3>1. UNCHANGED <<pc, again, free, swept>>
      BY <2>4 DEF Handler, EnterHandler, ArriveAtBarrier, CheckStarted, LeaveHandler,
         WakeSpuriously, ServiceThread, ServiceLocksDelivery, LockAllocation,
         ServiceUnlocksDelivery, StopTheWorld, Signal, ServiceArrives, Mark, StartTheWorld,
         Broadcast, ClearCalled, UnlockAllocation
    <3>. QED
      BY <3>1 DEF CallState
  <2>. QED
    BY <1>2, <2>1, <2>2, <2>3, <2>4 DEF Next
<1>. QED
  BY <1>1, <1>2, StopTheWorldInvariant, AnswerInvariant, PTL
     DEF Spec, CollectsOnDemand, Abstract!Spec, Abstract!vars

===============================================================================
