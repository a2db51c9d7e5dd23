---------------------------- MODULE ThreadsStorage ----------------------------
(***************************************************************************)
(* The registry of threads (mt-safety/threads-storage.c) and everybody who   *)
(* uses it: threads that create threads (__wrap_pthread_create()) and end    *)
(* (wrap_user_routine()), and the service thread that counts and signals     *)
(* them (stop_the_world()) and scans their stacks (threads_stacks_marking()).*)
(*                                                                          *)
(* A cell bears the name of the thread it was made for.  handler() is one     *)
(* state, `stopped', which start_the_world() ends for all: how it waits is   *)
(* the subject of StopTheWorld.  Once a freed cell has been used nothing can *)
(* be said of the program and the model ends.                               *)
(***************************************************************************)
EXTENDS Naturals, FiniteSets, Reachability

CONSTANTS
  Threads,  \* bound: the threads ever created, and main
  Main,
  Null

ASSUME MainAssumption == IsFiniteSet(Threads) /\ Main \in Threads
ASSUME NullAssumption == Null \notin Threads

VARIABLES
  pc,            \* where a thread is, in its own code or in the library
  node,          \* its thread_node: while it creates a thread the new cell, else
                 \* its own
  head,          \* created_threads_list
  next, prev,    \* the links of a cell
  count,         \* thread_count
  storageLock,   \* holder of storage_lock
  written,       \* cells whose field thread is written
  freed,         \* cells given back to free()
  spc,           \* where the service thread is
  expected,      \* threads_stopped
  cursor,        \* current_node_of_traversing
  pending,       \* threads with a pending SIG_TO_STOP
  stopped,       \* threads that wait in handler()
  scanned,       \* threads whose stacks this mark() has traversed
  listed,        \* history: cells inserted and not yet unlinked
  counted,       \* history: the cells listed when threads_stopped was read
  undefined      \* history: a freed cell has been used

threads == <<pc, node>>
links == <<head, next, prev, listed>>
storage == <<links, count, storageLock, written, freed>>
service == <<spc, expected, cursor, scanned, counted>>
vars == <<threads, storage, service, pending, stopped, undefined>>

Cells == Threads \cup {Null}
Destroying == {"destroy", "unlink", "free"}
Places ==
  {"unborn", "run", "lockCreation", "insert", "spawn", "write", "unlockCreation", "exit", "gone"}
    \cup Destroying

TypeOK ==
  /\ pc \in [Threads -> Places]
  /\ node \in [Threads -> Cells]
  /\ head \in Cells
  /\ next \in [Threads -> Cells]
  /\ prev \in [Threads -> Cells]
  /\ count \in 0 .. Cardinality(Threads)
  /\ storageLock \in Cells
  /\ written \in SUBSET Threads
  /\ freed \in SUBSET Threads
  /\ spc \in {"idle", "count", "begin", "signal", "wait", "scan", "start"}
  /\ expected \in 0 .. Cardinality(Threads)
  /\ cursor \in Cells
  /\ pending \in SUBSET Threads
  /\ stopped \in SUBSET Threads
  /\ scanned \in SUBSET Threads
  /\ listed \in SUBSET Threads
  /\ counted \in SUBSET Threads
  /\ undefined \in BOOLEAN

\* __add_main_thread_to_storage() has run.
Init ==
  /\ pc = [t \in Threads |-> IF t = Main THEN "run" ELSE "unborn"]
  /\ node = [t \in Threads |-> IF t = Main THEN Main ELSE Null]
  /\ head = Main
  /\ next = [c \in Threads |-> Null]
  /\ prev = [c \in Threads |-> Null]
  /\ count = 1
  /\ storageLock = Null
  /\ written = {Main}
  /\ freed = {}
  /\ spc = "idle"
  /\ expected = 0
  /\ cursor = Null
  /\ pending = {}
  /\ stopped = {}
  /\ scanned = {}
  /\ listed = {Main}
  /\ counted = {}
  /\ undefined = FALSE

At(t, place) == pc[t] = place /\ t \notin stopped
Goto(t, place) == pc' = [pc EXCEPT ![t] = place]

-------------------------------------------------------------------------------
(***************************************************************************)
(* __wrap_pthread_create()                                                  *)
(***************************************************************************)

\* pthread_rwlock_rdlock(&thread_creation_lock), which the service thread holds
\* for writing from stop_the_world() to start_the_world().
CallCreate(t) ==
  /\ At(t, "run")
  /\ Goto(t, "lockCreation")
  /\ UNCHANGED <<node, storage, service, pending, stopped, undefined>>

LockCreation(t) ==
  /\ At(t, "lockCreation")
  /\ spc = "idle"
  /\ Goto(t, "insert")
  /\ UNCHANGED <<node, storage, service, pending, stopped, undefined>>

\* Mutant of Incremented: the new cell is not counted.
NotIncremented == count

Incremented == count + 1

\* Mutant of BackLink: the old head does not learn of its new predecessor.
NoBackLink(c) == prev

\* created_threads_list->prev = new_node
BackLink(c) == [d \in Threads |-> IF d = head THEN c ELSE prev[d]]

\* create_cell_for_thread(), under storage_lock.  A cell is inserted once.
CreateCell(t) ==
  /\ At(t, "insert")
  /\ storageLock = Null
  /\ \E c \in Threads :
       /\ pc[c] = "unborn"
       /\ \A u \in Threads : node[u] # c
       /\ c \notin freed
       /\ node' = [node EXCEPT ![t] = c]
       /\ prev' = BackLink(c)
       /\ next' = [next EXCEPT ![c] = head]
       /\ head' = c
       /\ listed' = listed \cup {c}
  /\ count' = Incremented
  /\ Goto(t, "spawn")
  /\ UNCHANGED <<storageLock, written, freed, service, pending, stopped, undefined>>

\* pthread_create() succeeds: the new thread runs with args->thread_node.
Spawn(t) ==
  /\ At(t, "spawn")
  /\ pc' = [pc EXCEPT ![t] = "write", ![node[t]] = "run"]
  /\ node' = [node EXCEPT ![node[t]] = node[t]]
  /\ UNCHANGED <<storage, service, pending, stopped, undefined>>

SpawnFails(t) ==
  /\ At(t, "spawn")
  /\ Goto(t, "destroy")
  /\ UNCHANGED <<node, storage, service, pending, stopped, undefined>>

\* thread_node->thread = *thread: the new thread may have freed the cell.
WriteThread(t) ==
  /\ At(t, "write")
  /\ IF node[t] \in freed
     THEN undefined' = TRUE /\ UNCHANGED written
     ELSE written' = written \cup {node[t]} /\ UNCHANGED undefined
  /\ Goto(t, "unlockCreation")
  /\ UNCHANGED <<node, links, count, storageLock, freed, service, pending, stopped>>

UnlockCreation(t) ==
  /\ At(t, "unlockCreation")
  /\ node' = [node EXCEPT ![t] = t]
  /\ Goto(t, "run")
  /\ UNCHANGED <<storage, service, pending, stopped, undefined>>

-------------------------------------------------------------------------------
(***************************************************************************)
(* wrap_user_routine() when the routine of the user returns, and            *)
(* destroy_cell(), which __wrap_pthread_create() calls as well.              *)
(***************************************************************************)

Return(t) ==
  /\ At(t, "run")
  /\ t # Main
  /\ Goto(t, "destroy")
  /\ UNCHANGED <<node, storage, service, pending, stopped, undefined>>

\* pthread_exit(): destroy_cell() is never called.
ExitEarly(t) ==
  /\ At(t, "run")
  /\ t # Main
  /\ Goto(t, "gone")
  /\ pending' = pending \ {t}
  /\ UNCHANGED <<node, storage, service, stopped, undefined>>

LockStorage(t) ==
  /\ At(t, "destroy")
  /\ storageLock = Null
  /\ storageLock' = t
  /\ count' = count - 1
  /\ Goto(t, "unlink")
  /\ UNCHANGED <<node, links, written, freed, service, pending, stopped, undefined>>

\* cell->prev->next = cell->next
Unlinked(c) == [d \in Threads |-> IF d = prev[c] THEN next[c] ELSE next[d]]

\* The three assignments are one step: a traversal, which does not look at prev,
\* can tell only the one that takes the cell out of its way.
UnlinkCell(t) ==
  LET c == node[t] IN
  /\ At(t, "unlink")
  /\ next' = Unlinked(c)
  /\ prev' = [d \in Threads |-> IF d = next[c] THEN prev[c] ELSE prev[d]]
  /\ head' = IF head = c THEN next[c] ELSE head
  /\ listed' = listed \ {c}
  /\ Goto(t, "free")
  /\ UNCHANGED <<node, count, storageLock, written, freed, service, pending, stopped, undefined>>

\* Mutant of FreeCell: storage_lock is not given back.
FreeCellLocked(t) ==
  /\ At(t, "free")
  /\ freed' = freed \cup {node[t]}
  /\ Goto(t, IF node[t] = t THEN "exit" ELSE "unlockCreation")
  /\ UNCHANGED <<node, links, count, storageLock, written, service, pending, stopped, undefined>>

\* free(cell), and storage_lock is given back.
FreeCell(t) ==
  /\ At(t, "free")
  /\ freed' = freed \cup {node[t]}
  /\ storageLock' = Null
  /\ Goto(t, IF node[t] = t THEN "exit" ELSE "unlockCreation")
  /\ UNCHANGED <<node, links, count, written, service, pending, stopped, undefined>>

\* free(args), and the thread ends; a signal that is still pending is lost.
Exit(t) ==
  /\ At(t, "exit")
  /\ Goto(t, "gone")
  /\ pending' = pending \ {t}
  /\ UNCHANGED <<node, storage, service, stopped, undefined>>

\* handler(), up to barrier.
EnterHandler(t) ==
  /\ t \in pending
  /\ pending' = pending \ {t}
  /\ stopped' = stopped \cup {t}
  /\ UNCHANGED <<threads, storage, service, undefined>>

-------------------------------------------------------------------------------
(***************************************************************************)
(* The service thread                                                       *)
(***************************************************************************)

\* Mutant of NoCreator: thread_creation_lock is not taken.
CreatorsIgnored == TRUE

\* Who holds thread_creation_lock for reading.
Creating(t) ==
  \/ pc[t] \in {"insert", "spawn", "write", "unlockCreation"}
  \/ pc[t] \in Destroying /\ node[t] # t

NoCreator == \A t \in Threads : ~Creating(t)

\* pthread_rwlock_wrlock(&thread_creation_lock)
BeginStop ==
  /\ spc = "idle"
  /\ NoCreator
  /\ spc' = "count"
  /\ UNCHANGED <<threads, storage, expected, cursor, scanned, counted, pending, stopped, undefined>>

\* Mutant of FirstCell: the traversal begins behind the first cell.
SecondCell == IF head = Null THEN Null ELSE next[head]

\* start_threads_storage_traverse()
FirstCell == head

\* get_threads_storage_size() needs storage_lock, the traversal does not.
CountThreads ==
  /\ spc = "count"
  /\ storageLock = Null
  /\ expected' = count
  /\ counted' = listed
  /\ spc' = "begin"
  /\ UNCHANGED <<threads, storage, cursor, scanned, pending, stopped, undefined>>

BeginSignals ==
  /\ spc = "begin"
  /\ cursor' = FirstCell
  /\ spc' = "signal"
  /\ UNCHANGED <<threads, storage, expected, scanned, counted, pending, stopped, undefined>>

\* get_next_thread() moves on from a cell that may have been freed meanwhile.
Advance ==
  /\ cursor # Null
  /\ cursor' = next[cursor]
  /\ undefined' = (cursor \in freed)

\* pthread_kill(get_next_thread(), SIG_TO_STOP); a thread that has ended gets
\* no signal.
Signal ==
  /\ spc = "signal"
  /\ Advance
  /\ pending' = IF pc[cursor] = "gone" THEN pending ELSE pending \cup {cursor}
  /\ UNCHANGED <<threads, storage, spc, expected, scanned, counted, stopped>>

SignalsSent ==
  /\ spc = "signal"
  /\ cursor = Null
  /\ spc' = "wait"
  /\ UNCHANGED <<threads, storage, expected, cursor, scanned, counted, pending, stopped, undefined>>

\* Mutant of BarrierOpen: the barrier is for one thread less.
BarrierOpenEarly == Cardinality(stopped) + 1 >= expected

\* pthread_barrier_wait(&barrier): threads_stopped + 1 threads have come.
BarrierOpen == Cardinality(stopped) = expected

\* Mutant of ScanFrom: the traversal for the signals is not begun anew.
ScanFromCursor == cursor

\* start_threads_storage_traverse(), again.
ScanFrom == FirstCell

\* The end of stop_the_world(), and threads_stacks_marking() begins.
WorldStops ==
  /\ spc = "wait"
  /\ BarrierOpen
  /\ cursor' = ScanFrom
  /\ scanned' = {}
  /\ spc' = "scan"
  /\ UNCHANGED <<threads, storage, expected, counted, pending, stopped, undefined>>

\* The stack of one thread is traversed.
ScanStack ==
  /\ spc = "scan"
  /\ Advance
  /\ scanned' = scanned \cup {cursor}
  /\ UNCHANGED <<threads, storage, spc, expected, counted, pending, stopped>>

StacksScanned ==
  /\ spc = "scan"
  /\ cursor = Null
  /\ spc' = "start"
  /\ UNCHANGED <<threads, storage, expected, cursor, scanned, counted, pending, stopped, undefined>>

\* start_the_world(), after sweep()
StartTheWorld ==
  /\ spc = "start"
  /\ stopped' = {}
  /\ spc' = "idle"
  /\ UNCHANGED <<threads, storage, expected, cursor, scanned, counted, pending, undefined>>

-------------------------------------------------------------------------------

\* What a thread does not choose to do.
Library(t) ==
  \/ LockCreation(t)
  \/ CreateCell(t)
  \/ Spawn(t)
  \/ SpawnFails(t)
  \/ WriteThread(t)
  \/ UnlockCreation(t)
  \/ LockStorage(t)
  \/ UnlinkCell(t)
  \/ FreeCell(t)
  \/ Exit(t)

User(t) == CallCreate(t) \/ Return(t) \/ ExitEarly(t)

Stop ==
  \/ CountThreads
  \/ BeginSignals
  \/ Signal
  \/ SignalsSent
  \/ WorldStops
  \/ ScanStack
  \/ StacksScanned
  \/ StartTheWorld

Next ==
  /\ ~undefined
  /\ \/ \E t \in Threads : Library(t) \/ User(t) \/ EnterHandler(t)
     \/ BeginStop
     \/ Stop

Spec == Init /\ [][Next]_vars

\* Threads run and signals are delivered; nobody has to ask for a collection, to
\* create a thread or to return.
FairSpec ==
  /\ Spec
  /\ \A t \in Threads :
       /\ WF_vars(~undefined /\ Library(t))
       /\ WF_vars(~undefined /\ EnterHandler(t))
  /\ WF_vars(~undefined /\ Stop)

-------------------------------------------------------------------------------

\* The cells that a traversal from created_threads_list comes to.
Visited ==
  ReachedBy(Threads, [c \in Threads |-> {next[c]} \ {Null}], {head} \ {Null})

(***************************************************************************)
(* Whoever finds storage_lock free finds the list whole: a traversal comes   *)
(* to exactly the cells inserted and not destroyed, their links lead back,   *)
(* and thread_count is their number (threads-storage.c, 39-54).              *)
(***************************************************************************)
RegistryExact ==
  /\ Visited = listed
  /\ \A c \in listed : next[c] # Null => prev[next[c]] = c
  /\ storageLock = Null => count = Cardinality(listed)

(***************************************************************************)
(* Every thread that stop_the_world() signals or mark() scans is known by    *)
(* then: pthread_kill() and pthread_getattr_np() never get the zero of a     *)
(* cell whose creator has not written it (mt-safety.c, 101-121).             *)
(***************************************************************************)
KnownTargets ==
  spc \in {"signal", "scan"} /\ cursor # Null /\ cursor \notin freed => cursor \in written

(***************************************************************************)
(* While stacks are scanned nobody runs except threads that have destroyed   *)
(* their cells, although threads were created and ended up to the moment of  *)
(* the count, and after it (stop-the-world.c, 46-62).                        *)
(***************************************************************************)
EveryoneStopped ==
  spc \in {"scan", "start"} =>
    \A t \in Threads : pc[t] \notin {"unborn", "exit", "gone"} => t \in stopped

(***************************************************************************)
(* threads_stacks_marking() walks the list without storage_lock, which a     *)
(* stopped thread may hold in the middle of destroy_cell(): it still uses no *)
(* freed cell (threads-storage.c, 76-97; marking.c, 98-112).                 *)
(***************************************************************************)
ScanIsSafe ==
  spc \in {"scan", "start"} => ~undefined /\ cursor \notin freed

(***************************************************************************)
(* ... and it comes to every thread that is in code of the user's: the roots *)
(* on its stack are seen (marking.c, 98-112).                                *)
(***************************************************************************)
EveryoneScanned ==
  spc = "start" =>
    \A t \in Threads : pc[t] \in {"run", "lockCreation"} => t \in scanned

\* A thread that was counted has ended before the world was stopped.
Missed ==
  /\ spc \in {"begin", "signal", "wait"}
  /\ \E t \in counted : t \in freed \/ pc[t] = "gone"

\* A thread in destroy_cell() that nothing keeps from going on.
Leaving(t) == pc[t] \in {"unlink", "free"} /\ t \notin stopped

(***************************************************************************)
(* Wherever stop_the_world() waits, for storage_lock or at barrier, it gets  *)
(* on by itself, or a signal is under way, or a thread is about to leave     *)
(* destroy_cell(): only threads that end although they were counted can make  *)
(* it wait for ever (stop-the-world.c, 51-61; threads-storage.c, 39-64).     *)
(***************************************************************************)
StopGetsOn ==
  spc \in {"count", "wait"} /\ ~Missed =>
    \/ spc = "count" /\ storageLock = Null
    \/ spc = "wait" /\ BarrierOpen
    \/ pending # {}
    \/ \E t \in Threads : Leaving(t)

(***************************************************************************)
(* stop_the_world() returns if no thread that it has counted ends meanwhile  *)
(* (stop-the-world.c, 51-61).                                               *)
(***************************************************************************)
StopReturns == []~Missed => (spc = "count" ~> spc = "scan")

(***************************************************************************)
(* stop_the_world() returns, whatever threads end (README.md, 5).            *)
(***************************************************************************)
StopAlwaysReturns == spc = "count" ~> spc = "scan"

===============================================================================
