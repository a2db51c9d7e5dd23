------------------------- MODULE ThreadsStorageProofs -------------------------
(***************************************************************************)
(* Theorems about ThreadsStorage, for every set of threads: the list of      *)
(* cells is whole, and between stop_the_world() and start_the_world() it     *)
(* holds every thread that runs, each of them stopped and scanned.           *)
(***************************************************************************)
EXTENDS ThreadsStorage, FiniteSetTheorems, TLAPS

\* t is somewhere between its birth and the end of its destroy_cell().
Alive(t) == pc[t] \notin {"unborn", "exit", "gone"}

\* node[t] is a cell for a thread that does not run.
Making(t) == pc[t] = "spawn" \/ (pc[t] \in Destroying /\ node[t] # t)

\* No calloc() has returned the cell c yet.
Fresh(c) == pc[c] = "unborn" /\ c \notin freed /\ \A u \in Threads : node[u] # c

Types ==
  /\ pc \in [Threads -> Places]
  /\ node \in [Threads -> Cells]
  /\ head \in Cells
  /\ next \in [Threads -> Cells]
  /\ prev \in [Threads -> Cells]
  /\ storageLock \in Cells
  /\ written \in SUBSET Threads
  /\ freed \in SUBSET Threads
  /\ spc \in {"idle", "count", "begin", "signal", "wait", "scan", "start"}
  /\ expected \in 0 .. Cardinality(Threads)
  /\ cursor \in Cells
  /\ pending \in SUBSET Threads
  /\ stopped \in SUBSET Threads
  /\ scanned \in SUBSET Threads
  /\ listed \in SUBSET Threads
  /\ counted \in SUBSET Threads
  /\ undefined \in BOOLEAN

\* What the place of a thread says of its thread_node.
Nodes ==
  \A t \in Threads :
    /\ pc[t] = "unborn" => node[t] = Null
    /\ pc[t] \in {"run", "lockCreation", "insert", "exit", "gone"} => node[t] = t
    /\ pc[t] \in {"spawn", "write", "unlockCreation"} \cup Destroying => node[t] \in Threads
    /\ pc[t] \in {"spawn", "write"} => node[t] # t
    /\ Making(t) => pc[node[t]] = "unborn" /\ \A u \in Threads \ {t} : node[u] # node[t]
    /\ pc[t] = "write" => pc[node[t]] # "unborn"
    /\ pc[t] = "unlockCreation" =>
         \/ node[t] \in freed
         \/ pc[node[t]] # "unborn" /\ node[t] \in written
    /\ pc[t] \in {"unlink", "free"} <=> storageLock = t

\* Which cells are in the list.
ListedRight(t) ==
  /\ pc[t] \in {"spawn", "destroy", "unlink"} => node[t] \in listed
  /\ pc[t] = "free" => node[t] \notin listed
  /\ Alive(t) => t \in listed \/ (pc[t] = "free" /\ node[t] = t)
  /\ pc[t] = "exit" => t \notin listed
  /\ Fresh(t) => t \notin listed /\ next[t] = Null /\ prev[t] = Null
  /\ t \in listed =>
       \/ t \in written
       \/ \E u \in Threads : node[u] = t /\ u # t /\ Creating(u)
  /\ next[t] # Null => ~Fresh(next[t])

Listing ==
  /\ listed \cap freed = {}
  /\ \A t \in Threads : ListedRight(t)

\* The links of listed cells.
Chain ==
  /\ head # Null => head \in listed /\ prev[head] = Null
  /\ \A c \in listed :
       /\ next[c] # Null => next[c] \in listed /\ prev[next[c]] = c
       /\ prev[c] # Null => prev[c] \in listed /\ next[prev[c]] = c
       /\ prev[c] = Null => head = c

Follows(S) ==
  /\ head # Null => head \in S
  /\ \A c \in S : next[c] # Null => next[c] \in S

\* A set that a traversal does not leave holds the whole list.
Whole == \A S \in SUBSET Threads : Follows(S) => listed \subseteq S

Counts ==
  count = IF \E t \in Threads : pc[t] = "unlink" THEN Cardinality(listed) - 1
                                                ELSE Cardinality(listed)

\* Cells are inserted at the head, so links lead from newer cells to older ones:
\* no thread is signalled twice.
Ranked(r) ==
  /\ \A c \in Threads : next[c] # Null => r[next[c]] < r[c]
  /\ spc = "signal" /\ cursor # Null => \A v \in pending \cup stopped : r[cursor] < r[v]

Order == \E r \in [Threads -> Nat] : Ranked(r)

\* What a stop knows about the threads that it has counted.
Stopping ==
  /\ expected = Cardinality(counted)
  /\ listed \subseteq counted
  /\ counted \subseteq written
  /\ pending \cup stopped \subseteq counted
  /\ \A c \in counted : next[c] # Null => next[c] \in counted
  /\ \A t \in Threads : Alive(t) => t \in counted

\* Where the scan has got: scanned is closed but for the link it follows.
Traversed ==
  /\ cursor # Null => cursor \in listed
  /\ head # Null => head \in scanned \cup {cursor}
  /\ \A c \in scanned : next[c] # Null => next[c] \in scanned \cup {cursor}

Phases ==
  /\ spc # "idle" => NoCreator
  /\ spc \in {"idle", "count", "begin"} => pending = {} /\ stopped = {}
  /\ pending \cap stopped = {}
  /\ spc \in {"begin", "signal", "wait", "scan", "start"} => Stopping
  /\ spc = "signal" /\ cursor # Null => cursor \in counted
  /\ spc \in {"scan", "start"} => stopped = counted /\ ~undefined
  /\ spc = "scan" => Traversed
  /\ spc = "start" => cursor = Null /\ listed \subseteq scanned

\* The inductive invariant.
IInv == Types /\ Nodes /\ Listing /\ Chain /\ Whole /\ Counts /\ Order /\ Phases

\* A step of the threads, and one of the service thread.
ThreadStep == \E t \in Threads : Library(t) \/ User(t) \/ EnterHandler(t)

ServiceStep == BeginStop \/ Stop

USE MainAssumption, NullAssumption

-------------------------------------------------------------------------------

\* Each part of the invariant, by each step of a thread.

LEMMA TypesByThreads ==
  ASSUME IInv, ThreadStep
  PROVE  Types'
<1> PICK t \in Threads : Library(t) \/ User(t) \/ EnterHandler(t)
  BY DEF ThreadStep
<1> USE DEF IInv, Types, Cells, Places, Destroying, At, Goto, threads, storage, links, service
<1>1. CASE CallCreate(t)
  BY <1>1 DEF CallCreate
<1>2. CASE LockCreation(t)
  BY <1>2 DEF LockCreation
<1>3. CASE CreateCell(t)
  BY <1>3 DEF CreateCell, Incremented, BackLink
<1>4. CASE Spawn(t)
  BY <1>4 DEF Spawn
<1>5. CASE SpawnFails(t)
  BY <1>5 DEF SpawnFails
<1>6. CASE WriteThread(t)
  <2>1. node[t] \in Threads
    BY <1>6 DEF WriteThread, Nodes
  <2> QED
    BY <1>6, <2>1 DEF WriteThread
<1>7. CASE UnlockCreation(t)
  BY <1>7 DEF UnlockCreation
<1>8. CASE Return(t)
  BY <1>8 DEF Return
<1>9. CASE ExitEarly(t)
  BY <1>9 DEF ExitEarly
<1>10. CASE LockStorage(t)
  BY <1>10 DEF LockStorage
<1>11. CASE UnlinkCell(t)
  BY <1>11 DEF UnlinkCell, Unlinked, Nodes
<1>12. CASE FreeCell(t)
  BY <1>12 DEF FreeCell, Nodes
<1>13. CASE Exit(t)
  BY <1>13 DEF Exit
<1>14. CASE EnterHandler(t)
  BY <1>14 DEF EnterHandler
<1> QED
  BY <1>1, <1>2, <1>3, <1>4, <1>5, <1>6, <1>7, <1>8, <1>9, <1>10, <1>11, <1>12, <1>13, <1>14 DEF Library, User

LEMMA NodesByThreads ==
  ASSUME IInv, ThreadStep
  PROVE  Nodes'
<1> PICK t \in Threads : Library(t) \/ User(t) \/ EnterHandler(t)
  BY DEF ThreadStep
<1> USE DEF IInv, Types, Nodes, Listing, ListedRight, Making, Fresh, Cells, Places, Destroying, At, Goto, threads, storage, links, service
<1>1. CASE CallCreate(t)
  BY <1>1 DEF CallCreate
<1>2. CASE LockCreation(t)
  BY <1>2 DEF LockCreation
<1>3. CASE CreateCell(t)
  BY <1>3 DEF CreateCell, Incremented, BackLink
<1>4. CASE Spawn(t)
  BY <1>4 DEF Spawn
<1>5. CASE SpawnFails(t)
  BY <1>5 DEF SpawnFails
<1>6. CASE WriteThread(t)
  BY <1>6 DEF WriteThread
<1>7. CASE UnlockCreation(t)
  BY <1>7 DEF UnlockCreation
<1>8. CASE Return(t)
  BY <1>8 DEF Return
<1>9. CASE ExitEarly(t)
  BY <1>9 DEF ExitEarly
<1>10. CASE LockStorage(t)
  BY <1>10 DEF LockStorage
<1>11. CASE UnlinkCell(t)
  BY <1>11 DEF UnlinkCell, Unlinked
<1>12. CASE FreeCell(t)
  BY <1>12 DEF FreeCell
<1>13. CASE Exit(t)
  BY <1>13 DEF Exit
<1>14. CASE EnterHandler(t)
  BY <1>14 DEF EnterHandler
<1> QED
  BY <1>1, <1>2, <1>3, <1>4, <1>5, <1>6, <1>7, <1>8, <1>9, <1>10, <1>11, <1>12, <1>13, <1>14 DEF Library, User

LEMMA CreatedCellIsListed ==
  ASSUME IInv, NEW t \in Threads, CreateCell(t)
  PROVE  Listing'
<1>1. PICK c \in Threads :
        /\ pc[c] = "unborn"
        /\ \A u \in Threads : node[u] # c
        /\ c \notin freed
        /\ node' = [node EXCEPT ![t] = c]
        /\ prev' = BackLink(c)
        /\ next' = [next EXCEPT ![c] = head]
        /\ head' = c
        /\ listed' = listed \cup {c}
  BY DEF CreateCell
<1>2. /\ pc[t] = "insert" /\ pc' = [pc EXCEPT ![t] = "spawn"]
      /\ UNCHANGED <<storageLock, written, freed>>
  BY DEF CreateCell, At, Goto, service
<1>l. listed' = listed \cup {c}
  BY <1>1
<1>n. node' = [node EXCEPT ![t] = c]
  BY <1>1
<1>x. head' = c /\ next' = [next EXCEPT ![c] = head]
  BY <1>1
<1>3. /\ pc \in [Threads -> Places] /\ node \in [Threads -> Cells]
      /\ next \in [Threads -> Cells] /\ prev \in [Threads -> Cells] /\ head \in Cells
      /\ listed \subseteq Threads
  BY DEF IInv, Types
<1>4. listed \cap freed = {} /\ \A u \in Threads : ListedRight(u)
  BY DEF IInv, Listing
<1>5. head # Null => head \in listed
  BY DEF IInv, Chain
<1>6. \A u \in listed : next[u] # Null => next[u] \in listed
  BY DEF IInv, Chain
<1>7. c # t /\ Fresh(c)
  BY <1>1, <1>2 DEF Fresh
<1>8. ASSUME NEW u \in Threads, Fresh(u)'
      PROVE  Fresh(u) /\ u # c
  <2>1. node'[t] = c
    BY <1>n, <1>3
  <2>2. \A v \in Threads : node'[v] # u
    BY <1>8 DEF Fresh
  <2>3. \A v \in Threads : node[v] = IF v = t THEN node[t] ELSE node'[v]
    BY <1>n, <1>3
  <2>4. node[t] = t /\ pc[t] = "insert"
    BY <1>2 DEF IInv, Nodes
  <2>5. pc'[t] = "spawn" /\ pc'[u] = "unborn" /\ u \notin freed
    BY <1>2, <1>3, <1>8 DEF Fresh
  <2>6. u # t /\ u # c
    BY <2>1, <2>2, <2>5
  <2>7. pc[u] = "unborn"
    BY <1>2, <1>3, <2>5, <2>6
  <2> QED
    BY <2>2, <2>3, <2>4, <2>5, <2>6, <2>7 DEF Fresh
<1>9. (listed \cap freed = {})'
  BY <1>1, <1>2, <1>4
<1>10. ASSUME NEW u \in Threads
       PROVE  ListedRight(u)'
  <2>1. ListedRight(u)
    BY <1>4
  <2>2. pc'[u] \in {"spawn", "destroy", "unlink"} => node'[u] \in listed'
    BY <1>1, <1>2, <1>3, <2>1 DEF ListedRight
  <2>3. pc'[u] = "free" => node'[u] \notin listed'
    <3>1. pc'[u] = "free" => pc[u] = "free" /\ u # t
      BY <1>2, <1>3
    <3> QED
      BY <1>1, <1>3, <2>1, <3>1 DEF ListedRight
  <2>4. Alive(u)' => u \in listed' \/ (pc'[u] = "free" /\ node'[u] = u)
    <3>1. CASE u = t
      <4>1. t \in listed
        BY <1>2, <1>4 DEF ListedRight, Alive
      <4> QED
        BY <1>1, <3>1, <4>1
    <3>2. CASE u # t
      <4>1. pc'[u] = pc[u] /\ node'[u] = node[u]
        BY <1>1, <1>2, <1>3, <3>2
      <4> QED
        BY <1>l, <2>1, <4>1 DEF ListedRight, Alive
    <3> QED
      BY <3>1, <3>2
  <2>5. pc'[u] = "exit" => u \notin listed'
    <3>1. pc'[u] = "exit" => pc[u] = "exit"
      BY <1>2, <1>3
    <3> QED
      BY <1>1, <2>1, <3>1 DEF ListedRight
  <2>6. Fresh(u)' => u \notin listed' /\ next'[u] = Null /\ prev'[u] = Null
    <3>1. ASSUME Fresh(u)'
          PROVE  u \notin listed' /\ next'[u] = Null /\ prev'[u] = Null
      <4>1. Fresh(u) /\ u # c
        BY <1>8, <3>1
      <4>2. u \notin listed /\ next[u] = Null /\ prev[u] = Null
        BY <2>1, <4>1 DEF ListedRight
      <4>3. u # head
        BY <1>5, <4>2
      <4> QED
        BY <1>1, <1>3, <4>1, <4>2, <4>3 DEF BackLink
    <3> QED
      BY <3>1
  <2>7. u \in listed' =>
          \/ u \in written'
          \/ \E v \in Threads : node'[v] = u /\ v # u /\ Creating(v)'
    <3>1. CASE u = c
      <4>1. node'[t] = c /\ Creating(t)'
        BY <1>1, <1>2, <1>3 DEF Creating
      <4> QED
        BY <1>7, <3>1, <4>1
    <3>2. CASE u \in listed /\ u \notin written
      <4>1. PICK v \in Threads : node[v] = u /\ v # u /\ Creating(v)
        BY <2>1, <3>2 DEF ListedRight
      <4>2. CASE v = t
        BY <1>1, <1>2, <4>1, <4>2, <1>3 DEF IInv, Nodes
      <4>3. CASE v # t
        <5>1. node'[v] = u /\ Creating(v)'
          BY <1>1, <1>2, <1>3, <4>1, <4>3 DEF Creating
        <5> QED
          BY <4>1, <5>1
      <4> QED
        BY <4>2, <4>3
    <3> QED
      BY <1>1, <1>2, <3>1, <3>2
  <2>8. ASSUME NEW d \in Threads, next'[u] = d
        PROVE  ~Fresh(d)'
    <3>1. CASE u = c
      <4>1. next'[u] = head
        BY <1>x, <1>3, <3>1
      <4>2. ~Fresh(d)
        BY <1>3, <1>4, <1>5, <2>8, <4>1 DEF ListedRight
      <4> QED
        BY <1>8, <4>2
    <3>2. CASE u # c
      <4>1. next'[u] = next[u]
        BY <1>x, <1>3, <3>2
      <4>2. ~Fresh(d)
        BY <2>1, <2>8, <4>1 DEF ListedRight
      <4> QED
        BY <1>8, <4>2
    <3> QED
      BY <3>1, <3>2
  <2>9. next'[u] \in Cells
    BY <1>x, <1>3
  <2> QED
    BY <2>2, <2>3, <2>4, <2>5, <2>6, <2>7, <2>8, <2>9 DEF ListedRight, Cells, Fresh
<1> QED
  BY <1>9, <1>10 DEF Listing

LEMMA ListingByThreads ==
  ASSUME IInv, ThreadStep
  PROVE  Listing'
<1> PICK t \in Threads : Library(t) \/ User(t) \/ EnterHandler(t)
  BY DEF ThreadStep
<1> USE DEF IInv, Types, Nodes, Listing, ListedRight, Making, Fresh, Alive, Creating, Cells, Places, Destroying, At, Goto, threads, storage, links, service
<1>1. CASE CallCreate(t)
  BY <1>1 DEF CallCreate
<1>2. CASE LockCreation(t)
  BY <1>2 DEF LockCreation
<1>3. CASE CreateCell(t)
  BY <1>3, CreatedCellIsListed
<1>4. CASE Spawn(t)
  BY <1>4 DEF Spawn
<1>5. CASE SpawnFails(t)
  BY <1>5 DEF SpawnFails
<1>6. CASE WriteThread(t)
  BY <1>6 DEF WriteThread
<1>7. CASE UnlockCreation(t)
  BY <1>7 DEF UnlockCreation
<1>8. CASE Return(t)
  BY <1>8 DEF Return
<1>9. CASE ExitEarly(t)
  BY <1>9 DEF ExitEarly
<1>10. CASE LockStorage(t)
  BY <1>10 DEF LockStorage
<1>11. CASE UnlinkCell(t)
  BY <1>11 DEF UnlinkCell, Unlinked, Chain
<1>12. CASE FreeCell(t)
  BY <1>12 DEF FreeCell
<1>13. CASE Exit(t)
  BY <1>13 DEF Exit
<1>14. CASE EnterHandler(t)
  BY <1>14 DEF EnterHandler
<1> QED
  BY <1>1, <1>2, <1>3, <1>4, <1>5, <1>6, <1>7, <1>8, <1>9, <1>10, <1>11, <1>12, <1>13, <1>14 DEF Library, User

LEMMA ChainByThreads ==
  ASSUME IInv, ThreadStep
  PROVE  Chain'
<1> PICK t \in Threads : Library(t) \/ User(t) \/ EnterHandler(t)
  BY DEF ThreadStep
<1> USE DEF IInv, Types, Chain, Cells, Places, Destroying, At, Goto, threads, storage, links, service
<1>1. CASE CallCreate(t)
  BY <1>1 DEF CallCreate
<1>2. CASE LockCreation(t)
  BY <1>2 DEF LockCreation
<1>3. CASE CreateCell(t)
  BY <1>3 DEF CreateCell, Incremented, BackLink, Nodes, Listing, ListedRight, Fresh
<1>4. CASE Spawn(t)
  BY <1>4 DEF Spawn
<1>5. CASE SpawnFails(t)
  BY <1>5 DEF SpawnFails
<1>6. CASE WriteThread(t)
  BY <1>6 DEF WriteThread
<1>7. CASE UnlockCreation(t)
  BY <1>7 DEF UnlockCreation
<1>8. CASE Return(t)
  BY <1>8 DEF Return
<1>9. CASE ExitEarly(t)
  BY <1>9 DEF ExitEarly
<1>10. CASE LockStorage(t)
  BY <1>10 DEF LockStorage
<1>11. CASE UnlinkCell(t)
  BY <1>11 DEF UnlinkCell, Unlinked, Nodes, Listing, ListedRight
<1>12. CASE FreeCell(t)
  BY <1>12 DEF FreeCell
<1>13. CASE Exit(t)
  BY <1>13 DEF Exit
<1>14. CASE EnterHandler(t)
  BY <1>14 DEF EnterHandler
<1> QED
  BY <1>1, <1>2, <1>3, <1>4, <1>5, <1>6, <1>7, <1>8, <1>9, <1>10, <1>11, <1>12, <1>13, <1>14 DEF Library, User

\* Only these two steps change what a traversal comes to.
LEMMA QuietByThreads ==
  ASSUME NEW t \in Threads, Library(t) \/ User(t) \/ EnterHandler(t),
         ~CreateCell(t), ~UnlinkCell(t)
  PROVE  UNCHANGED <<head, next, prev, listed>>
BY DEF Library, User, CallCreate, LockCreation, Spawn, SpawnFails, WriteThread, UnlockCreation,
  Return, ExitEarly, LockStorage, FreeCell, Exit, EnterHandler, threads, storage, links

LEMMA WholeByThreads ==
  ASSUME IInv, ThreadStep
  PROVE  Whole'
<1> PICK t \in Threads : Library(t) \/ User(t) \/ EnterHandler(t)
  BY DEF ThreadStep
<1> SUFFICES ASSUME NEW S \in SUBSET Threads, Follows(S)'
             PROVE  listed' \subseteq S
  BY DEF Whole
<1>1. /\ next \in [Threads -> Cells] /\ prev \in [Threads -> Cells] /\ head \in Cells
      /\ listed \subseteq Threads /\ node \in [Threads -> Cells]
  BY DEF IInv, Types
<1>2. CASE CreateCell(t)
  <2>1. PICK c \in Threads :
          /\ Fresh(c)
          /\ next' = [next EXCEPT ![c] = head]
          /\ head' = c
          /\ listed' = listed \cup {c}
    BY <1>2 DEF CreateCell, Fresh
  <2>2. next[c] = Null /\ c \in S
    BY <2>1 DEF IInv, Listing, ListedRight, Follows
  <2>3. Follows(S)
    BY <1>1, <2>1, <2>2 DEF Follows, Cells
  <2>4. listed \subseteq S
    BY <2>3 DEF IInv, Whole
  <2> QED
    BY <2>1, <2>2, <2>4
<1>3. CASE UnlinkCell(t)
  <2>1. PICK c \in Threads :
          /\ c = node[t] /\ c \in listed
          /\ next' = [d \in Threads |-> IF d = prev[c] THEN next[c] ELSE next[d]]
          /\ head' = IF head = c THEN next[c] ELSE head
          /\ listed' = listed \ {c}
    BY <1>3 DEF UnlinkCell, Unlinked, At, IInv, Nodes, Listing, ListedRight, Destroying, Places
  <2>2. /\ head # Null => head \in listed /\ prev[head] = Null
        /\ \A d \in listed : /\ next[d] # Null => next[d] \in listed /\ prev[next[d]] = d
                             /\ prev[d] # Null => prev[d] \in listed /\ next[prev[d]] = d
                             /\ prev[d] = Null => head = d
    BY DEF IInv, Chain
  <2>4. CASE prev[c] \in S
    <3>1. next[c] # Null => next[c] \in S
      BY <1>1, <2>1, <2>2, <2>4 DEF Follows, Cells
    <3>2. Follows(S \cup {c})
      BY <1>1, <2>1, <2>2, <3>1 DEF Follows, Cells
    <3> QED
      BY <2>1, <3>2 DEF IInv, Whole
  <2>5. CASE prev[c] = Null
    <3>1. head = c
      BY <2>1, <2>2, <2>5
    <3>2. next[c] # Null => next[c] \in S
      BY <2>1, <3>1 DEF Follows
    <3>3. Follows(S \cup {c})
      BY <1>1, <2>1, <2>5, <3>1, <3>2 DEF Follows, Cells
    <3> QED
      BY <2>1, <3>3 DEF IInv, Whole
  <2>6. CASE prev[c] \notin S /\ prev[c] # Null
    <3>1. head # c /\ head # Null => head \in S
      BY <2>1 DEF Follows
    <3>2. head # c
      BY <2>1, <2>2, <2>6
    <3>3. Follows((S \cap listed) \ {c})
      <4>1. ASSUME NEW d \in (S \cap listed) \ {c}, next[d] # Null
            PROVE  next[d] \in (S \cap listed) \ {c}
        <5>1. next'[d] = next[d]
          BY <1>1, <2>1, <2>6, <4>1
        <5>2. next[d] \in S
          BY <4>1, <5>1 DEF Follows
        <5>3. next[d] \in listed /\ prev[next[d]] = d
          BY <2>2, <4>1
        <5> QED
          BY <2>6, <4>1, <5>2, <5>3
      <4> QED
        BY <2>2, <3>1, <3>2, <4>1 DEF Follows
    <3> QED
      BY <2>1, <3>3 DEF IInv, Whole
  <2> QED
    BY <1>1, <2>1, <2>4, <2>5, <2>6 DEF Cells
<1>4. CASE ~CreateCell(t) /\ ~UnlinkCell(t)
  BY <1>4, QuietByThreads DEF IInv, Whole, Follows
<1> QED
  BY <1>2, <1>3, <1>4

LEMMA CountsByThreads ==
  ASSUME IInv, ThreadStep
  PROVE  Counts'
<1> PICK t \in Threads : Library(t) \/ User(t) \/ EnterHandler(t)
  BY DEF ThreadStep
<1> USE DEF At, Goto
<1>1. /\ pc \in [Threads -> Places] /\ node \in [Threads -> Cells] /\ listed \subseteq Threads
      /\ IsFiniteSet(listed)
  BY FS_Subset DEF IInv, Types
<1>2. Cardinality(listed) \in Nat
  BY <1>1, FS_CardinalityType
<1>3. \A u \in Threads : pc[u] \in {"unlink", "free"} <=> storageLock = u
  BY DEF IInv, Nodes
<1>4. CASE CreateCell(t)
  <2>1. storageLock = Null /\ count' = count + 1 /\ pc' = [pc EXCEPT ![t] = "spawn"]
    BY <1>4 DEF CreateCell, Incremented
  <2>2. PICK c \in Threads : Fresh(c) /\ listed' = listed \cup {c}
    BY <1>4 DEF CreateCell, Fresh
  <2>3. c \notin listed
    BY <2>2 DEF IInv, Listing, ListedRight
  <2>4. Cardinality(listed') = Cardinality(listed) + 1
    BY <1>1, <2>2, <2>3, FS_AddElement
  <2>5. \A u \in Threads : pc[u] # "unlink" /\ pc'[u] # "unlink"
    BY <1>1, <1>3, <2>1
  <2> QED
    BY <1>2, <2>1, <2>4, <2>5 DEF IInv, Counts
<1>5. CASE LockStorage(t)
  <2>1. storageLock = Null /\ count' = count - 1 /\ pc' = [pc EXCEPT ![t] = "unlink"] /\ listed' = listed
    BY <1>5 DEF LockStorage, links
  <2>2. pc'[t] = "unlink" /\ \A u \in Threads : pc[u] # "unlink"
    BY <1>1, <1>3, <2>1
  <2> QED
    BY <1>2, <2>1, <2>2 DEF IInv, Counts
<1>6. CASE UnlinkCell(t)
  <2>1. count' = count /\ pc[t] = "unlink" /\ pc' = [pc EXCEPT ![t] = "free"] /\ listed' = listed \ {node[t]}
    BY <1>6 DEF UnlinkCell
  <2>2. node[t] \in listed
    BY <2>1 DEF IInv, Listing, ListedRight
  <2>3. Cardinality(listed') = Cardinality(listed) - 1
    BY <1>1, <2>1, <2>2, FS_RemoveElement
  <2>4. \A u \in Threads : pc'[u] # "unlink"
    BY <1>1, <1>3, <2>1
  <2> QED
    BY <1>2, <2>1, <2>3, <2>4 DEF IInv, Counts
<1>7. CASE ~CreateCell(t) /\ ~LockStorage(t) /\ ~UnlinkCell(t)
  <2>1. count' = count /\ listed' = listed
    BY <1>7 DEF Library, User, CallCreate, LockCreation, Spawn, SpawnFails, WriteThread,
      UnlockCreation, Return, ExitEarly, FreeCell, Exit, EnterHandler, storage, links
  <2>2. \A u \in Threads : pc'[u] = "unlink" <=> pc[u] = "unlink"
    <3>1. ASSUME Spawn(t)
          PROVE  node[t] \in Threads /\ pc[node[t]] = "unborn"
      BY <3>1 DEF Spawn, IInv, Nodes, Making
    <3> QED
      BY <1>1, <1>7, <3>1 DEF Library, User, CallCreate, LockCreation, Spawn, SpawnFails, WriteThread,
        UnlockCreation, Return, ExitEarly, FreeCell, Exit, EnterHandler, threads
  <2> QED
    BY <2>1, <2>2 DEF IInv, Counts
<1> QED
  BY <1>4, <1>5, <1>6, <1>7

LEMMA OrderByThreads ==
  ASSUME IInv, ThreadStep
  PROVE  Order'
<1> PICK t \in Threads : Library(t) \/ User(t) \/ EnterHandler(t)
  BY DEF ThreadStep
<1>1. /\ next \in [Threads -> Cells] /\ prev \in [Threads -> Cells] /\ head \in Cells
      /\ listed \subseteq Threads /\ node \in [Threads -> Cells] /\ cursor \in Cells
  BY DEF IInv, Types
<1>2. PICK r \in [Threads -> Nat] : Ranked(r)
  BY DEF IInv, Order
<1>3. /\ UNCHANGED <<spc, cursor>>
      /\ pending' \cup stopped' \subseteq pending \cup stopped
  BY DEF Library, User, CallCreate, LockCreation, CreateCell, Spawn, SpawnFails, WriteThread,
    UnlockCreation, Return, ExitEarly, LockStorage, UnlinkCell, FreeCell, Exit, EnterHandler, service
<1>4. CASE CreateCell(t)
  <2>1. PICK c \in Threads :
          Fresh(c) /\ next' = [next EXCEPT ![c] = head]
    BY <1>4 DEF CreateCell, Fresh
  <2>2. spc # "signal"
    BY <1>4 DEF CreateCell, At, IInv, Phases, NoCreator, Creating
  <2>3. \A d \in Threads : next[d] # c
    BY <2>1, NullAssumption DEF IInv, Listing, ListedRight
  <2> DEFINE n == IF head = Null THEN 0 ELSE r[head] + 1
  <2>n. n \in Nat
    BY <1>1 DEF Cells
  <2>4. PICK q \in [Threads -> Nat] : q = [r EXCEPT ![c] = n]
    <3> HIDE DEF n
    <3>1. [r EXCEPT ![c] = n] \in [Threads -> Nat]
      BY <2>n
    <3> QED
      BY <3>1
  <2>5. head # c
    <3>1. head # Null => head \in listed
      BY DEF IInv, Chain
    <3> QED
      BY <2>1, <3>1, NullAssumption DEF IInv, Listing, ListedRight
  <2>6. ASSUME NEW d \in Threads, next'[d] # Null
        PROVE  q[next'[d]] < q[d]
    <3>1. CASE d = c
      <4>1. next'[d] = head /\ head \in Threads
        BY <1>1, <2>1, <2>6, <3>1 DEF Cells
      <4> QED
        BY <2>4, <2>5, <3>1, <4>1, NullAssumption
    <3>2. CASE d # c
      <4>1. next'[d] = next[d] /\ next[d] \in Threads
        BY <1>1, <2>1, <2>6, <3>2 DEF Cells
      <4>2. r[next[d]] < r[d]
        BY <1>2, <2>6, <4>1 DEF Ranked
      <4> QED
        BY <2>3, <2>4, <3>2, <4>1, <4>2
    <3> QED
      BY <3>1, <3>2
  <2>7. Ranked(q)'
    BY <1>3, <2>2, <2>6 DEF Ranked
  <2> QED
    BY <2>4, <2>7 DEF Order
<1>5. CASE UnlinkCell(t)
  <2>1. PICK c \in Threads :
          /\ c \in listed
          /\ next' = [d \in Threads |-> IF d = prev[c] THEN next[c] ELSE next[d]]
    BY <1>5 DEF UnlinkCell, Unlinked, At, IInv, Nodes, Listing, ListedRight, Destroying, Places
  <2>2. ASSUME NEW d \in Threads, next'[d] # Null
        PROVE  r[next'[d]] < r[d]
    <3>1. CASE d = prev[c]
      <4>1. next[d] = c /\ next'[d] = next[c]
        BY <2>1, <3>1, NullAssumption DEF IInv, Chain
      <4>2. c # Null /\ next[c] \in Threads
        BY <1>1, <2>2, <4>1, NullAssumption DEF Cells
      <4>3. r[next[c]] < r[c] /\ r[c] < r[d]
        BY <1>2, <2>2, <4>1, <4>2 DEF Ranked
      <4>4. r[next[c]] \in Nat /\ r[c] \in Nat /\ r[d] \in Nat
        BY <4>2
      <4> QED
        BY <4>1, <4>3, <4>4
    <3>2. CASE d # prev[c]
      BY <1>2, <2>1, <2>2, <3>2 DEF Ranked
    <3> QED
      BY <3>1, <3>2
  <2>3. Ranked(r)'
    BY <1>2, <1>3, <2>2 DEF Ranked
  <2> QED
    BY <2>3 DEF Order
<1>6. CASE ~CreateCell(t) /\ ~UnlinkCell(t)
  <2>1. Ranked(r)'
    BY <1>2, <1>3, <1>6, QuietByThreads DEF Ranked
  <2> QED
    BY <2>1 DEF Order
<1> QED
  BY <1>4, <1>5, <1>6

LEMMA PhasesByThreads ==
  ASSUME IInv, ThreadStep
  PROVE  Phases'
<1> PICK t \in Threads : Library(t) \/ User(t) \/ EnterHandler(t)
  BY DEF ThreadStep
<1>1. /\ pc \in [Threads -> Places] /\ node \in [Threads -> Cells] /\ next \in [Threads -> Cells]
      /\ pending \subseteq Threads /\ stopped \subseteq Threads
  BY DEF IInv, Types
<1>2. UNCHANGED service
  BY DEF Library, User, CallCreate, LockCreation, CreateCell, Spawn, SpawnFails, WriteThread,
    UnlockCreation, Return, ExitEarly, LockStorage, UnlinkCell, FreeCell, Exit, EnterHandler, service
<1>3. /\ pending' \cup stopped' \subseteq pending \cup stopped
      /\ pending' \cap stopped' \subseteq pending \cap stopped
      /\ EnterHandler(t) \/ stopped' = stopped
  BY DEF Library, User, CallCreate, LockCreation, CreateCell, Spawn, SpawnFails, WriteThread,
    UnlockCreation, Return, ExitEarly, LockStorage, UnlinkCell, FreeCell, Exit, EnterHandler
<1>4. Phases
  BY DEF IInv
<1>5. ASSUME spc = "idle"
      PROVE  Phases'
  BY <1>2, <1>3, <1>4, <1>5 DEF Phases, service
<1>6. ASSUME spc # "idle"
      PROVE  Phases'
  <2>1. /\ ~LockCreation(t) /\ ~CreateCell(t) /\ ~Spawn(t) /\ ~SpawnFails(t) /\ ~WriteThread(t)
        /\ ~UnlockCreation(t)
    BY <1>4, <1>6 DEF Phases, NoCreator, Creating, LockCreation, CreateCell, Spawn, SpawnFails,
      WriteThread, UnlockCreation, At
  <2>2. /\ node' = node
        /\ pc' = pc \/ \E p \in Places : pc' = [pc EXCEPT ![t] = p]
        /\ \A u \in Threads : Alive(u)' => Alive(u)
        /\ \A u \in Threads : Creating(u)' => Creating(u)
    <3>1. pc[t] = "run" => node[t] = t
      BY DEF IInv, Nodes
    <3> QED
      BY <1>1, <2>1, <3>1 DEF Library, User, CallCreate, Return, ExitEarly, LockStorage, UnlinkCell,
        FreeCell, Exit, EnterHandler, At, Goto, Alive, Creating, Destroying, Places, threads
  <2>3. /\ listed' \subseteq listed
        /\ written' = written
        /\ undefined' = undefined
    BY <2>1 DEF Library, User, CallCreate, Return, ExitEarly, LockStorage, UnlinkCell, FreeCell,
      Exit, EnterHandler, storage, links
  <2>4. NoCreator'
    BY <1>4, <1>6, <2>2 DEF Phases, NoCreator
  <2>5. ASSUME Stopping
        PROVE  Stopping'
    <3>1. \A c \in counted : next'[c] # Null => next'[c] \in counted
      <4>1. CASE UnlinkCell(t)
        <5>1. PICK c \in listed : next' = [d \in Threads |-> IF d = prev[c] THEN next[c] ELSE next[d]]
          BY <4>1 DEF UnlinkCell, Unlinked, At, IInv, Listing, ListedRight
        <5>2. counted \subseteq Threads /\ c \in counted
          BY <2>5 DEF Stopping, IInv, Types
        <5> QED
          BY <2>5, <5>1, <5>2 DEF Stopping
      <4>2. CASE ~UnlinkCell(t)
        BY <2>1, <2>5, <4>2, QuietByThreads DEF Stopping
      <4> QED
        BY <4>1, <4>2
    <3> QED
      BY <1>2, <1>3, <2>2, <2>3, <2>5, <3>1 DEF Stopping, service
  <2>6. ASSUME spc \in {"scan", "start"}
        PROVE  /\ UNCHANGED <<head, next, listed, stopped>>
    <3>1. pending = {}
      BY <1>4, <2>6 DEF Phases, Stopping
    <3>2. t \notin stopped => ~Alive(t)
      BY <1>4, <2>6 DEF Phases, Stopping
    <3>3. Exit(t)
      BY <2>1, <3>1, <3>2 DEF Library, User, CallCreate, Return, ExitEarly, LockStorage, UnlinkCell,
        FreeCell, EnterHandler, At, Alive
    <3> QED
      BY <3>3 DEF Exit, storage, links
  <2>7. Traversed /\ spc = "scan" => Traversed'
    BY <1>2, <2>6 DEF Traversed, service
  <2> QED
    BY <1>2, <1>3, <1>4, <1>6, <2>3, <2>4, <2>5, <2>6, <2>7 DEF Phases, service
<1> QED
  BY <1>5, <1>6

-------------------------------------------------------------------------------

LEMMA OthersByService ==
  ASSUME IInv, ServiceStep
  PROVE  Nodes' /\ Listing' /\ Chain' /\ Whole' /\ Counts'
<1>1. UNCHANGED <<threads, storage>>
  BY DEF ServiceStep, Stop, BeginStop, CountThreads, BeginSignals, Signal, SignalsSent, WorldStops,
    ScanStack, StacksScanned, StartTheWorld
<1>2. Nodes'
  BY <1>1 DEF IInv, Nodes, Making, threads, storage
<1>3. Listing'
  BY <1>1 DEF IInv, Listing, ListedRight, Alive, Fresh, Creating, threads, storage, links
<1>4. Chain'
  BY <1>1 DEF IInv, Chain, storage, links
<1>5. Whole'
  BY <1>1 DEF IInv, Whole, Follows, storage, links
<1>6. Counts'
  BY <1>1 DEF IInv, Counts, threads, storage, links
<1> QED
  BY <1>2, <1>3, <1>4, <1>5, <1>6

LEMMA CountInRange ==
  ASSUME IInv
  PROVE  count \in 0 .. Cardinality(Threads)
<1>1. /\ IsFiniteSet(listed) /\ Cardinality(listed) <= Cardinality(Threads)
      /\ Cardinality(listed) \in Nat /\ Cardinality(Threads) \in Nat
  BY MainAssumption, FS_Subset, FS_CardinalityType DEF IInv, Types
<1>2. CASE \E t \in Threads : pc[t] = "unlink"
  <2>1. listed # {}
    BY <1>2 DEF IInv, Listing, ListedRight
  <2>2. Cardinality(listed) # 0
    BY <1>1, <2>1, FS_EmptySet
  <2> QED
    BY <1>1, <1>2, <2>2 DEF IInv, Counts
<1>3. CASE \A t \in Threads : pc[t] # "unlink"
  BY <1>1, <1>3 DEF IInv, Counts
<1> QED
  BY <1>2, <1>3

LEMMA TypesByService ==
  ASSUME IInv, ServiceStep
  PROVE  Types'
<1>1. UNCHANGED <<threads, storage>>
  BY DEF ServiceStep, Stop, BeginStop, CountThreads, BeginSignals, Signal, SignalsSent, WorldStops,
    ScanStack, StacksScanned, StartTheWorld
<1>2. UNCHANGED <<pc, node, head, next, prev, listed, storageLock, written, freed>>
  BY <1>1 DEF threads, storage, links
<1>3. /\ next \in [Threads -> Cells] /\ head \in Cells /\ listed \subseteq Threads
      /\ cursor # Null => cursor \in Threads /\ next[cursor] \in Cells
  BY DEF IInv, Types, Cells
<1>4. Types
  BY DEF IInv
<1> HIDE DEF IInv
<1>5. /\ cursor' \in Cells /\ scanned' \subseteq Threads /\ pending' \subseteq Threads
      /\ undefined' \in BOOLEAN /\ counted' \subseteq Threads /\ stopped' \subseteq Threads
  <2> USE <1>3, <1>4 DEF Types
  <2>1. CASE Signal
    BY <2>1 DEF Signal, Advance
  <2>2. CASE ScanStack
    BY <2>2 DEF ScanStack, Advance
  <2>3. CASE ~Signal /\ ~ScanStack
    BY <2>3 DEF ServiceStep, Stop, BeginStop, CountThreads, BeginSignals, SignalsSent,
      WorldStops, StacksScanned, StartTheWorld, FirstCell, ScanFrom
  <2> QED
    BY <2>1, <2>2, <2>3
<1>6. /\ spc' \in {"idle", "count", "begin", "signal", "wait", "scan", "start"}
      /\ expected' = expected \/ expected' = count
  BY <1>4 DEF Types, ServiceStep, Stop, BeginStop, CountThreads, BeginSignals, Signal,
    SignalsSent, WorldStops, ScanStack, StacksScanned, StartTheWorld
<1>7. expected' \in 0 .. Cardinality(Threads)
  BY <1>4, <1>6, CountInRange DEF Types
<1> QED
  BY <1>2, <1>4, <1>5, <1>6, <1>7 DEF Types

LEMMA OrderByService ==
  ASSUME IInv, ServiceStep
  PROVE  Order'
<1>1. PICK r \in [Threads -> Nat] : Ranked(r)
  BY DEF IInv, Order
<1>2. next' = next
  BY DEF ServiceStep, Stop, BeginStop, CountThreads, BeginSignals, Signal, SignalsSent, WorldStops,
    ScanStack, StacksScanned, StartTheWorld, storage, links
<1>3. CASE Signal
  <2>1. cursor \in Threads /\ cursor' = next[cursor] /\ cursor' \in Cells /\ stopped' = stopped
    BY <1>3 DEF Signal, Advance, IInv, Types, Cells
  <2>2. pending' \subseteq pending \cup {cursor} /\ spc = "signal"
    BY <1>3 DEF Signal
  <2>3. ASSUME cursor' # Null, NEW v \in pending' \cup stopped'
        PROVE  r[cursor'] < r[v]
    <3>1. r[cursor'] < r[cursor] /\ cursor' \in Threads
      BY <1>1, <2>1, <2>3 DEF Ranked, Cells
    <3>2. v = cursor \/ (v \in pending \cup stopped /\ r[cursor] < r[v])
      BY <1>1, <2>1, <2>2, <2>3, NullAssumption DEF Ranked
    <3>3. v \in Threads
      BY <2>1, <2>2, <2>3 DEF IInv, Types
    <3>4. r[cursor'] \in Nat /\ r[cursor] \in Nat /\ r[v] \in Nat
      BY <2>1, <3>1, <3>3
    <3> QED
      BY <3>1, <3>2, <3>4
  <2>4. Ranked(r)'
    BY <1>1, <1>2, <2>3 DEF Ranked
  <2> QED
    BY <2>4 DEF Order
<1>4. CASE BeginSignals
  <2>1. pending' = {} /\ stopped' = {}
    BY <1>4 DEF BeginSignals, IInv, Phases
  <2>2. Ranked(r)'
    BY <1>1, <1>2, <2>1 DEF Ranked
  <2> QED
    BY <2>2 DEF Order
<1>5. CASE ~Signal /\ ~BeginSignals
  <2>1. spc' # "signal"
    BY <1>5 DEF ServiceStep, Stop, BeginStop, CountThreads, SignalsSent, WorldStops, ScanStack,
      StacksScanned, StartTheWorld
  <2>2. Ranked(r)'
    BY <1>1, <1>2, <2>1 DEF Ranked
  <2> QED
    BY <2>2 DEF Order
<1> QED
  BY <1>3, <1>4, <1>5

LEMMA PhasesByService ==
  ASSUME IInv, ServiceStep, ~undefined
  PROVE  Phases'
<1>1. UNCHANGED <<threads, storage>>
  BY DEF ServiceStep, Stop, BeginStop, CountThreads, BeginSignals, Signal, SignalsSent, WorldStops,
    ScanStack, StacksScanned, StartTheWorld
<1>2. UNCHANGED <<pc, node, head, next, prev, listed, count, storageLock, written, freed>>
  BY <1>1 DEF threads, storage, links
<1>3. /\ NoCreator' <=> NoCreator
      /\ \A t \in Threads : Alive(t)' <=> Alive(t)
  BY <1>2 DEF NoCreator, Creating, Alive
<1>4. Phases /\ Types /\ Chain
  BY DEF IInv
<1>5. head # Null => head \in listed
  BY DEF IInv, Chain
<1> HIDE DEF IInv
<1>6. CASE BeginStop
  BY <1>3, <1>4, <1>6 DEF BeginStop, Phases
<1>7. CASE CountThreads
  <2>1. storageLock = Null /\ spc = "count" /\ expected' = count /\ counted' = listed
    BY <1>7 DEF CountThreads
  <2>2. NoCreator /\ pending = {} /\ stopped = {}
    BY <1>4, <2>1 DEF Phases
  <2>3. \A t \in Threads : pc[t] # "unlink" /\ pc[t] # "free"
    BY <2>1, NullAssumption DEF IInv, Nodes
  <2>4. count = Cardinality(listed)
    BY <2>3 DEF IInv, Counts
  <2>5. listed \subseteq written
    BY <1>4, <2>2 DEF IInv, Listing, ListedRight, NoCreator, Types
  <2>6. \A t \in Threads : Alive(t) => t \in listed
    BY <2>3 DEF IInv, Listing, ListedRight
  <2>7. \A c \in listed : next[c] # Null => next[c] \in listed
    BY <1>4 DEF Chain
  <2>8. pending' = {} /\ stopped' = {} /\ spc' = "begin"
    BY <1>7, <2>2 DEF CountThreads
  <2>9. Stopping'
    BY <1>2, <1>3, <2>1, <2>4, <2>5, <2>6, <2>7, <2>8 DEF Stopping
  <2> QED
    BY <1>3, <2>2, <2>8, <2>9 DEF Phases
<1>8. CASE BeginSignals
  BY <1>2, <1>3, <1>4, <1>5, <1>8 DEF BeginSignals, Phases, Stopping, FirstCell
<1>9. CASE Signal
  <2>1. cursor # Null /\ cursor \in counted /\ cursor' = next[cursor] /\ spc = "signal" /\ Stopping
    BY <1>4, <1>9 DEF Signal, Advance, Phases
  <2>2. UNCHANGED <<spc, stopped, counted, expected>>
    BY <1>9 DEF Signal
  <2>3. pending' \subseteq pending \cup {cursor}
    BY <1>9 DEF Signal
  <2>4. cursor \notin stopped
    <3>1. PICK r \in [Threads -> Nat] : Ranked(r)
      BY DEF IInv, Order
    <3>2. cursor \in stopped => r[cursor] < r[cursor]
      BY <2>1, <3>1 DEF Ranked
    <3>3. cursor \in Threads
      BY <1>4, <2>1 DEF Types
    <3> QED
      BY <3>1, <3>2, <3>3
  <2>5. pending' \cap stopped' = {}
    BY <1>4, <2>2, <2>3, <2>4 DEF Phases
  <2>6. Stopping'
    BY <1>2, <1>3, <2>1, <2>2, <2>3 DEF Stopping
  <2> QED
    BY <1>3, <1>4, <2>1, <2>2, <2>5, <2>6 DEF Phases, Stopping
<1>10. CASE SignalsSent
  BY <1>2, <1>3, <1>4, <1>10 DEF SignalsSent, Phases, Stopping
<1>11. CASE WorldStops
  <2>1. Stopping /\ spc = "wait" /\ Cardinality(stopped) = expected
    BY <1>4, <1>11 DEF WorldStops, BarrierOpen, Phases
  <2>2. IsFiniteSet(counted)
    BY <1>4, MainAssumption, FS_Subset DEF Types
  <2>3. stopped = counted
    BY <2>1, <2>2, FS_Subset DEF Stopping
  <2>4. UNCHANGED <<stopped, counted, expected, pending, undefined>> /\ cursor' = head /\ scanned' = {}
        /\ spc' = "scan"
    BY <1>11 DEF WorldStops, ScanFrom, FirstCell
  <2>5. Stopping'
    BY <1>2, <1>3, <2>1, <2>4 DEF Stopping
  <2>6. Traversed'
    BY <1>2, <1>5, <2>4 DEF Traversed
  <2> QED
    BY <1>3, <1>4, <2>1, <2>3, <2>4, <2>5, <2>6 DEF Phases
<1>12. CASE ScanStack
  <2>1. spc = "scan" /\ cursor # Null /\ cursor' = next[cursor] /\ undefined' = (cursor \in freed)
        /\ scanned' = scanned \cup {cursor}
        /\ UNCHANGED <<spc, expected, counted, pending, stopped>>
    BY <1>12 DEF ScanStack, Advance
  <2>2. Traversed /\ Stopping /\ stopped = counted
    BY <1>4, <2>1 DEF Phases
  <2>3. cursor \in listed /\ cursor \notin freed
    BY <2>1, <2>2 DEF Traversed, IInv, Listing
  <2>4. ~undefined'
    BY <2>1, <2>3
  <2>5. Traversed'
    BY <1>2, <1>4, <2>1, <2>2, <2>3 DEF Traversed, Chain
  <2>6. Stopping'
    BY <1>2, <1>3, <2>1, <2>2 DEF Stopping
  <2> QED
    BY <1>3, <1>4, <2>1, <2>2, <2>4, <2>5, <2>6 DEF Phases
<1>13. CASE StacksScanned
  <2>1. spc = "scan" /\ cursor = Null /\ spc' = "start"
        /\ UNCHANGED <<cursor, scanned, expected, counted, pending, stopped, undefined>>
    BY <1>13 DEF StacksScanned
  <2>2. Traversed /\ Stopping
    BY <1>4, <2>1 DEF Phases
  <2>3. Follows(scanned)
    BY <2>1, <2>2 DEF Traversed, Follows
  <2>4. listed \subseteq scanned
    BY <1>4, <2>3 DEF IInv, Whole, Types
  <2>5. Stopping'
    BY <1>2, <1>3, <2>1, <2>2 DEF Stopping
  <2> QED
    BY <1>2, <1>3, <1>4, <2>1, <2>4, <2>5 DEF Phases
<1>14. CASE StartTheWorld
  <2>1. pending = {}
    BY <1>4, <1>14 DEF StartTheWorld, Phases, Stopping
  <2> QED
    BY <2>1, <1>14 DEF StartTheWorld, Phases
<1> QED
  BY <1>6, <1>7, <1>8, <1>9, <1>10, <1>11, <1>12, <1>13, <1>14 DEF ServiceStep, Stop

-------------------------------------------------------------------------------

LEMMA IInvAtInit ==
  ASSUME Init
  PROVE  IInv
<1> USE DEF Init
<1>1. Types
  <2>1. expected \in 0 .. Cardinality(Threads)
    BY MainAssumption, FS_CardinalityType
  <2> QED
    BY <2>1, MainAssumption DEF Types, Cells, Places, Destroying
<1>2. Nodes
  BY NullAssumption, MainAssumption DEF Nodes, Making, Destroying
<1>3. Listing
  BY NullAssumption, MainAssumption DEF Listing, ListedRight, Alive, Fresh, Creating, Destroying
<1>4. Chain /\ Whole
  BY NullAssumption, MainAssumption DEF Chain, Whole, Follows
<1>5. Counts
  BY FS_Singleton DEF Counts
<1>6. Order
  <2>1. [t \in Threads |-> 0] \in [Threads -> Nat]
    OBVIOUS
  <2>2. Ranked([t \in Threads |-> 0])
    BY DEF Ranked
  <2> QED
    BY <2>1, <2>2 DEF Order
<1>7. Phases
  BY DEF Phases
<1> QED
  BY <1>1, <1>2, <1>3, <1>4, <1>5, <1>6, <1>7 DEF IInv

LEMMA IInvByNext ==
  ASSUME IInv, [Next]_vars
  PROVE  IInv'
<1>1. CASE UNCHANGED vars
  <2>1. UNCHANGED <<pc, node, head, next, prev, listed, count, storageLock, written, freed, spc,
                    expected, cursor, scanned, counted, pending, stopped, undefined>>
    BY <1>1 DEF vars, threads, storage, links, service
  <2>2. Types' /\ Nodes' /\ Chain' /\ Whole' /\ Counts'
    BY <2>1 DEF IInv, Types, Nodes, Making, Chain, Whole, Follows, Counts
  <2>3. Listing'
    BY <2>1 DEF IInv, Listing, ListedRight, Alive, Fresh, Creating
  <2>4. Order'
    BY <2>1 DEF IInv, Order, Ranked
  <2>5. Phases'
    BY <2>1 DEF IInv, Phases, Stopping, Traversed, NoCreator, Creating, Alive
  <2> QED
    BY <2>2, <2>3, <2>4, <2>5 DEF IInv
<1>2. CASE ThreadStep
  BY <1>2, TypesByThreads, NodesByThreads, ListingByThreads, ChainByThreads, WholeByThreads,
    CountsByThreads, OrderByThreads, PhasesByThreads DEF IInv
<1>3. CASE ServiceStep /\ ~undefined
  BY <1>3, TypesByService, OthersByService, OrderByService, PhasesByService DEF IInv
<1> QED
  BY <1>1, <1>2, <1>3 DEF Next, ThreadStep, ServiceStep

(***************************************************************************)
(* The inductive invariant holds in every behaviour of the registry.         *)
(***************************************************************************)
THEOREM RegistryInvariant == Spec => []IInv
<1>1. Init => IInv
  BY IInvAtInit
<1>2. IInv /\ [Next]_vars => IInv'
  BY IInvByNext
<1> QED
  BY <1>1, <1>2, PTL DEF Spec

(***************************************************************************)
(* For every set of threads, a free storage_lock means a whole list and an   *)
(* exact thread_count (threads-storage.c, 15-54).                            *)
(***************************************************************************)
THEOREM TheListIsWhole == Spec => []RegistryExact
<1>1. ASSUME IInv
      PROVE  RegistryExact
  <2> DEFINE edges == [c \in Threads |-> {next[c]} \ {Null}]
  <2>1. /\ next \in [Threads -> Cells] /\ head \in Cells /\ listed \subseteq Threads
    BY <1>1 DEF IInv, Types
  <2>2. \A S \in SUBSET Threads : ClosedUnder(S, edges, {head} \ {Null}) <=> Follows(S)
    BY <2>1 DEF ClosedUnder, Follows
  <2>3. Follows(listed)
    BY <1>1 DEF IInv, Chain, Follows
  <2>4. \A S \in SUBSET Threads : Follows(S) => listed \subseteq S
    BY <1>1 DEF IInv, Whole
  <2>5. Visited = listed
    <3> HIDE DEF edges
    <3>1. ReachedBy(Threads, edges, {head} \ {Null}) = listed
      BY <2>1, <2>2, <2>3, <2>4 DEF ReachedBy
    <3> QED
      BY <3>1 DEF Visited, edges
  <2>6. \A c \in listed : next[c] # Null => prev[next[c]] = c
    BY <1>1 DEF IInv, Chain
  <2>7. storageLock = Null => count = Cardinality(listed)
    BY <1>1, NullAssumption DEF IInv, Nodes, Counts
  <2> QED
    BY <2>5, <2>6, <2>7 DEF RegistryExact
<1> QED
  BY <1>1, RegistryInvariant, PTL

(***************************************************************************)
(* For every set of threads, no cell is signalled or scanned before its      *)
(* creator has written its thread (mt-safety.c, 101-121).                    *)
(***************************************************************************)
THEOREM TargetsAreKnown == Spec => []KnownTargets
<1>1. ASSUME IInv
      PROVE  KnownTargets
  BY <1>1 DEF IInv, Phases, Stopping, Traversed, KnownTargets
<1> QED
  BY <1>1, RegistryInvariant, PTL

(***************************************************************************)
(* For every set of threads, while stacks are scanned no thread runs that     *)
(* has not destroyed its cell (stop-the-world.c, 46-62).                     *)
(***************************************************************************)
THEOREM NobodyRuns == Spec => []EveryoneStopped
<1>1. ASSUME IInv
      PROVE  EveryoneStopped
  BY <1>1 DEF IInv, Phases, Stopping, Alive, EveryoneStopped
<1> QED
  BY <1>1, RegistryInvariant, PTL

(***************************************************************************)
(* For every set of threads, the scan uses no freed cell, although it does   *)
(* not take storage_lock (threads-storage.c, 76-97).                         *)
(***************************************************************************)
THEOREM TheScanIsSafe == Spec => []ScanIsSafe
<1>1. ASSUME IInv
      PROVE  ScanIsSafe
  <2>1. freed \subseteq Threads /\ listed \cap freed = {}
    BY <1>1 DEF IInv, Types, Listing
  <2> QED
    BY <1>1, <2>1, NullAssumption DEF IInv, Phases, Traversed, ScanIsSafe
<1> QED
  BY <1>1, RegistryInvariant, PTL

(***************************************************************************)
(* For every set of threads, the scan comes to the stack of every thread in  *)
(* code of the user's (marking.c, 98-112).                                   *)
(***************************************************************************)
THEOREM EveryStackIsScanned == Spec => []EveryoneScanned
<1>1. ASSUME IInv
      PROVE  EveryoneScanned
  BY <1>1 DEF IInv, Phases, Listing, ListedRight, Alive, EveryoneScanned
<1> QED
  BY <1>1, RegistryInvariant, PTL

(***************************************************************************)
(* For every set of threads, the variables keep their types; thread_count    *)
(* does not fall below zero (threads-storage.c, 24-30 and 38-40).            *)
(***************************************************************************)
THEOREM RegistryTypes == Spec => []TypeOK
<1>1. ASSUME IInv
      PROVE  TypeOK
  BY <1>1, CountInRange DEF IInv, Types, TypeOK
<1> QED
  BY <1>1, RegistryInvariant, PTL

-------------------------------------------------------------------------------
(***************************************************************************)
(* Whom the signals of a stop reach.                                        *)
(***************************************************************************)

\* A thread that has left the list gets no signal.
Lost(t) == t \in freed \/ pc[t] \in {"free", "gone"}

\* Cells that the traversal in hand will come to, and perhaps others.
Ahead(S) ==
  /\ cursor # Null => cursor \in S
  /\ \A c \in S : next[c] # Null => next[c] \in S

\* Counted threads have been signalled, or lie ahead, or have left the list.
Signalled ==
  /\ spc = "begin" => \A t \in counted : t \in listed \/ Lost(t)
  /\ spc \in {"signal", "wait"} =>
       \A S \in SUBSET Threads : Ahead(S) =>
         \A t \in counted : t \in pending \cup stopped \cup S \/ Lost(t)
  /\ spc = "wait" => cursor = Null

LEMMA SignalledByThreads ==
  ASSUME IInv, Signalled, ThreadStep
  PROVE  Signalled'
<1> PICK t \in Threads : Library(t) \/ User(t) \/ EnterHandler(t)
  BY DEF ThreadStep
<1>1. /\ pc \in [Threads -> Places] /\ node \in [Threads -> Cells] /\ next \in [Threads -> Cells]
      /\ listed \subseteq Threads /\ counted \subseteq Threads
  BY DEF IInv, Types
<1>2. UNCHANGED service
  BY DEF Library, User, CallCreate, LockCreation, CreateCell, Spawn, SpawnFails, WriteThread,
    UnlockCreation, Return, ExitEarly, LockStorage, UnlinkCell, FreeCell, Exit, EnterHandler, service
<1>3. CASE spc \notin {"begin", "signal", "wait"}
  BY <1>2, <1>3 DEF Signalled, service
<1>4. CASE spc \in {"begin", "signal", "wait"}
  <2>1. /\ ~LockCreation(t) /\ ~CreateCell(t) /\ ~Spawn(t) /\ ~SpawnFails(t) /\ ~WriteThread(t)
        /\ ~UnlockCreation(t)
    BY <1>4 DEF IInv, Phases, NoCreator, Creating, LockCreation, CreateCell, Spawn, SpawnFails,
      WriteThread, UnlockCreation, At
  \* No creator is at work, so a thread in destroy_cell() destroys its own cell.
  <2>2. pc[t] \in Destroying => node[t] = t
    BY <1>4 DEF IInv, Phases, NoCreator, Creating
  <2>3. ASSUME NEW u \in Threads, Lost(u)
        PROVE  Lost(u)'
    BY <1>1, <2>1, <2>2, <2>3 DEF Library, User, CallCreate, Return, ExitEarly, LockStorage, UnlinkCell,
      FreeCell, Exit, EnterHandler, At, Goto, Lost, threads, storage, Destroying
  <2>4. ASSUME NEW u \in pending \cup stopped
        PROVE  u \in pending' \cup stopped' \/ Lost(u)'
    BY <1>1, <2>1, <2>4 DEF Library, User, CallCreate, Return, ExitEarly, LockStorage, UnlinkCell,
      FreeCell, Exit, EnterHandler, Goto, Lost, IInv, Types
  <2>5. CASE UnlinkCell(t)
    <3>1. /\ listed' = listed \ {t} /\ Lost(t)'
          /\ next' = [d \in Threads |-> IF d = prev[t] THEN next[t] ELSE next[d]]
      BY <1>1, <2>2, <2>5 DEF UnlinkCell, Unlinked, At, Goto, Lost, Destroying
    <3>2. ASSUME NEW S \in SUBSET Threads, Ahead(S)'
          PROVE  Ahead(S) \/ Ahead(S \cup {t})
      <4>1. /\ cursor # Null => cursor \in S
            /\ \A c \in S : c # prev[t] /\ next[c] # Null => next[c] \in S
            /\ prev[t] \in S /\ next[t] # Null => next[t] \in S
        BY <1>1, <1>2, <3>1, <3>2 DEF Ahead, service
      <4>2. CASE prev[t] \in S
        <5>1. next[prev[t]] = t
          BY <1>1, <2>2, <2>5, <3>2, <4>2, NullAssumption
             DEF IInv, Listing, ListedRight, Chain, UnlinkCell, At, Destroying
        <5>2. \A c \in S \cup {t} : next[c] # Null => next[c] \in S \cup {t}
          BY <4>1, <4>2, <5>1
        <5> QED
          BY <4>1, <5>2 DEF Ahead
      <4> QED
        BY <4>1, <4>2 DEF Ahead
    <3>3. ASSUME spc \in {"signal", "wait"}, NEW S \in SUBSET Threads, Ahead(S)', NEW u \in counted
          PROVE  u \in pending' \cup stopped' \cup S \/ Lost(u)'
      <4>1. PICK T \in SUBSET Threads : T \subseteq S \cup {t} /\ Ahead(T)
        <5>1. S \cup {t} \in SUBSET Threads
          OBVIOUS
        <5> QED
          BY <3>2, <3>3, <5>1
      <4>2. u \in pending \cup stopped \cup T \/ Lost(u)
        BY <1>1, <3>3, <4>1 DEF Signalled
      <4> QED
        BY <1>1, <2>3, <2>4, <3>1, <4>1, <4>2
    <3>4. spc = "begin" => \A u \in counted : u \in listed' \/ Lost(u)'
      BY <1>1, <2>3, <3>1 DEF Signalled
    <3> QED
      BY <1>1, <1>2, <3>3, <3>4 DEF Signalled, service
  <2>6. CASE ~UnlinkCell(t)
    <3>1. next' = next /\ listed' = listed
      BY <2>1, <2>6, QuietByThreads
    <3>2. \A S : Ahead(S)' <=> Ahead(S)
      BY <1>2, <3>1 DEF Ahead, service
    <3> QED
      BY <1>1, <1>2, <2>3, <2>4, <3>1, <3>2 DEF Signalled, service
  <2> QED
    BY <2>5, <2>6
<1> QED
  BY <1>3, <1>4

LEMMA SignalledByService ==
  ASSUME IInv, Signalled, ServiceStep
  PROVE  Signalled'
<1>1. UNCHANGED <<pc, node, head, next, listed, freed>>
  BY DEF ServiceStep, Stop, BeginStop, CountThreads, BeginSignals, Signal, SignalsSent, WorldStops,
    ScanStack, StacksScanned, StartTheWorld, threads, storage, links
<1>2. counted \subseteq Threads /\ listed \subseteq Threads /\ next \in [Threads -> Cells]
  BY DEF IInv, Types
<1>3. CASE CountThreads
  BY <1>1, <1>3 DEF CountThreads, Signalled
<1>4. CASE BeginSignals
  <2>1. ASSUME NEW S \in SUBSET Threads, Ahead(S)'
        PROVE  listed \subseteq S
    <3>1. Follows(S)
      BY <1>1, <1>4, <2>1 DEF BeginSignals, FirstCell, Ahead, Follows
    <3> QED
      BY <3>1 DEF IInv, Whole
  <2> QED
    BY <1>1, <1>4, <2>1 DEF BeginSignals, Signalled, Lost
<1>5. CASE Signal
  <2>1. /\ spc = "signal" /\ cursor # Null /\ cursor' = next[cursor] /\ cursor \in Threads
        /\ pending' = IF pc[cursor] = "gone" THEN pending ELSE pending \cup {cursor}
        /\ UNCHANGED <<spc, counted, stopped>>
    BY <1>5 DEF Signal, Advance, IInv, Types, Cells
  <2>2. ASSUME NEW S \in SUBSET Threads, Ahead(S)'
        PROVE  Ahead(S \cup {cursor})
    BY <1>1, <2>1, <2>2 DEF Ahead
  <2>3. ASSUME NEW u \in counted, u \in pending \cup stopped \cup {cursor} \/ Lost(u)
        PROVE  u \in pending' \cup stopped' \/ Lost(u)'
    BY <1>1, <2>1, <2>3 DEF Lost
  <2>4. ASSUME NEW S \in SUBSET Threads, Ahead(S)', NEW u \in counted
        PROVE  u \in pending' \cup stopped' \cup S \/ Lost(u)'
    <3>1. S \cup {cursor} \in SUBSET Threads
      BY <2>1
    <3>2. u \in pending \cup stopped \cup (S \cup {cursor}) \/ Lost(u)
      BY <2>1, <2>2, <2>4, <3>1 DEF Signalled
    <3> QED
      BY <1>1, <2>1, <2>3, <3>2 DEF Lost
  <2> QED
    BY <2>1, <2>4 DEF Signalled
<1>6. CASE SignalsSent
  BY <1>1, <1>6 DEF SignalsSent, Signalled, Ahead, Lost
<1>7. CASE BeginStop \/ WorldStops \/ ScanStack \/ StacksScanned \/ StartTheWorld
  BY <1>7 DEF BeginStop, WorldStops, ScanStack, StacksScanned, StartTheWorld, Signalled
<1> QED
  BY <1>3, <1>4, <1>5, <1>6, <1>7 DEF ServiceStep, Stop

LEMMA SignalledInvariant == Spec => []Signalled
<1>1. Init => Signalled
  BY DEF Init, Signalled
<1>2. IInv /\ Signalled /\ [Next]_vars => Signalled'
  <2>1. ASSUME Signalled, UNCHANGED vars PROVE Signalled'
    BY <2>1 DEF Signalled, Ahead, Lost, vars, threads, storage, links, service
  <2> QED
    BY <2>1, SignalledByThreads, SignalledByService DEF Next, ThreadStep, ServiceStep
<1> QED
  BY <1>1, <1>2, RegistryInvariant, PTL DEF Spec

(***************************************************************************)
(* For every set of threads, a stop gets on or somebody else is about to,    *)
(* unless a thread that it has counted has ended (stop-the-world.c, 51-61).  *)
(***************************************************************************)
THEOREM TheStopGetsOn == Spec => []StopGetsOn
<1>1. ASSUME IInv, Signalled
      PROVE  StopGetsOn
  <2>1. CASE spc = "count"
    <3>1. storageLock # Null => storageLock \in Threads /\ pc[storageLock] \in {"unlink", "free"}
      BY <1>1 DEF IInv, Types, Nodes, Cells
    <3>2. stopped = {}
      BY <1>1, <2>1 DEF IInv, Phases
    <3> QED
      BY <2>1, <3>1, <3>2 DEF StopGetsOn, Leaving
  <2>2. CASE spc = "wait"
    <3>1. SUFFICES ASSUME ~Missed, pending = {}, \A t \in Threads : ~Leaving(t)
                   PROVE  BarrierOpen
      BY <2>2 DEF StopGetsOn
    <3>2. \A t \in counted : t \in stopped \/ Lost(t)
      <4>1. Ahead({})
        BY <1>1, <2>2 DEF Signalled, Ahead
      <4> QED
        BY <1>1, <2>2, <3>1, <4>1 DEF Signalled
    <3>3. counted \subseteq stopped
      BY <1>1, <2>2, <3>1, <3>2 DEF Lost, Missed, Leaving, IInv, Types
    <3>4. stopped = counted /\ expected = Cardinality(counted)
      BY <1>1, <2>2, <3>3 DEF IInv, Phases, Stopping
    <3> QED
      BY <3>4 DEF BarrierOpen
  <2>3. CASE spc \notin {"count", "wait"}
    BY <2>3 DEF StopGetsOn
  <2> QED
    BY <2>1, <2>2, <2>3
<1> QED
  BY <1>1, RegistryInvariant, SignalledInvariant, PTL

===============================================================================
