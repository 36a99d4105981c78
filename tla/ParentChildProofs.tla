-------------------------- MODULE ParentChildProofs --------------------------
(* Theorems about ParentChild, for any number of runs and objects, whatever   *)
(* earlier runs have left, with or without a process that is killed.          *)
EXTENDS ParentChild, TLAPS

BeforeFork == {"off", "made", "initing", "ready"}

\* What a run has got by the time it is somewhere, and when it has a child.
PlacedAt(r) ==
    /\ parent[r] = "off" => \A k \in Kinds : ids[r][k] = 0
    /\ parent[r] = "made" => demo = "sem" /\ ids[r].sem = 0
    /\ parent[r] = "initing" => demo = "sem"
    /\ parent[r] \in BeforeFork => child[r] = "off"
    /\ parent[r] \notin BeforeFork \cup {"failed", "killed"} => child[r] # "off"
    /\ Sharing /\ parent[r] # "off" => ids[r].shm # 0
    /\ Piping /\ parent[r] \notin {"off", "failed", "killed"} => Channel(r) # 0
    /\ Piping /\ child[r] # "off" => Channel(r) # 0

Placed == \A r \in Runs : PlacedAt(r)

\* The type invariant is inductive with Placed only: what a child reads is at an
\* object that the run has.
TypeInv == TypeOK /\ Placed

\* Where the parent at a pipe can be, and what it has written when it is done.
PipesAt(r) ==
    /\ parent[r] \in {"off", "ready", "forked", "open", "done", "failed", "killed"}
    /\ parent[r] = "done" => text[Channel(r)] = "whole"
    /\ child[r] # "off" => parent[r] # "failed"

PipesInv == Piping => \A r \in Runs : PipesAt(r)

\* Some run at the semaphore s has written its text.
Told(s) == \E q \in Runs : ids[q].sem = s /\ ids[q].shm # 0 /\ text[ids[q].shm] = "whole"

\* No run has initialised the semaphore s.
Raw(s) == \A q \in Runs : ids[q].sem = s => parent[q] \in {"initing", "failed", "killed"} /\ child[q] = "off"

\* A semaphore is positive only when no run has initialised it yet, or because
\* some run has written its text and signalled.
SignalsAt(r) ==
    /\ parent[r] = "written" => text[ids[r].shm] = "whole"
    /\ child[r] = "passed" => ids[r].sem # 0 /\ Told(ids[r].sem)

SignalsInv ==
    demo = "sem" =>
        /\ \A r \in Runs : SignalsAt(r)
        /\ \A s \in Ids : count[s] > 0 => Told(s) \/ Raw(s)

\* A run failed, or one of its processes was killed.
Broken == \E r \in Runs : parent[r] \in {"failed", "killed"} \/ child[r] \in {"failed", "killed"}

\* The run q will remove what the key k leads to.
Cleans(q, k) ==
    CASE k = "fifo" -> ids[q].fifo = named.fifo /\ child[q] # "done"
      [] k = "sem" -> parent[q] # "done" /\ (parent[q] = "made" \/ ids[q].sem = named.sem)
      [] OTHER -> ids[q][k] = named[k] /\ parent[q] \notin {"last", "done"}

\* What a key leads to is of this demonstration's kind, and as long as nothing went
\* wrong one of the runs that were started will remove it.
CleanInv ==
    \A k \in Kinds :
        named[k] # 0 =>
            /\ k # "pipe" /\ (k = demo \/ (k = "shm" /\ demo = "sem"))
            /\ \/ \A q \in Runs : parent[q] = "off"
               \/ Broken
               \/ \E q \in Runs : parent[q] # "off" /\ Cleans(q, k)

\* The parent has made its signal, or sent its message.
Signalled == {"signalled", "waiting", "removing", "last", "done"}

\* Why a run, of which no process was killed, is where it is: the two sides of a
\* named pipe open it together, and a parent outlives its child.  Who failed, or
\* is done, leaves nothing behind that a child could wait for.
WaitsAt(r) ==
    /\ ~Piping => parent[r] # "killed"
    /\ parent[r] = "last" => demo = "sem"
    /\ demo = "msg" => parent[r] \notin {"attached", "writing", "written"}
    /\ demo = "msg" /\ parent[r] # "off" => ids[r].msg # 0
    /\ demo = "sem" /\ parent[r] \notin {"off", "made"} => ids[r].sem # 0
    /\ demo = "fifo" => (parent[r] = "forked" <=> child[r] = "forked")
    /\ ~Piping /\ parent[r] \in {"removing", "last", "done"} => child[r] \in Ended
    /\ demo = "msg" /\ parent[r] \in {"failed", "done"} /\ child[r] # "off" => ~Lives(r, "msg")
    /\ demo = "sem" /\ parent[r] = "done" => ~Lives(r, "sem")
    /\ demo = "sem" /\ parent[r] = "failed" => ~Lives(r, "sem") \/ ~Attachable(r)

\* The semaphore s has a signal when every run that has it has signalled and no
\* child has passed; the queue s a message when somebody has sent one and nobody
\* has received any.
SignalThere(s) ==
    (\E r \in Runs : ids[r].sem = s) /\
    (\A r \in Runs : ids[r].sem = s => parent[r] \in Signalled /\ child[r] \notin {"passed", "done"})
        => count[s] > 0

MessageThere(s) ==
    (\E r \in Runs : ids[r].msg = s /\ parent[r] \in Signalled) /\
    (\A r \in Runs : ids[r].msg = s => child[r] # "done")
        => count[s] > 0

WaitInv ==
    ~hurt =>
        /\ \A r \in Runs : WaitsAt(r)
        /\ demo = "sem" => \A s \in Ids : SignalThere(s)
        /\ demo = "msg" => \A s \in Ids : MessageThere(s)

-----------------------------------------------------------------------------
(* Types *)

LEMMA TypeInit == Init => TypeInv
  <1> SUFFICES ASSUME Init PROVE TypeInv
    OBVIOUS
  <1>1. made \in 0..MaxObjects /\ named \in [Kinds -> 0..made]
    BY ObjectsAssumption DEF Init
  <1>2. text \in [Ids -> Texts]
    BY DEF Init, Texts
  <1>3. count \in [Ids -> Nat]
    BY DEF Init
  <1>4. ids \in [Runs -> [Kinds -> 0..made]]
    BY <1>1 DEF Init
  <1>5. /\ parent \in [Runs -> ParentPlaces] /\ child \in [Runs -> ChildPlaces]
        /\ said \in [Runs -> Texts \cup {"nothing"}]
    BY DEF Init, ParentPlaces, ChildPlaces
  <1>6. TypeOK
    BY <1>1, <1>2, <1>3, <1>4, <1>5 DEF Init, TypeOK
  <1>7. Placed
    BY DEF Init, Placed, PlacedAt, BeforeFork, Kinds, Piping, Channel, Demos
  <1> QED BY <1>6, <1>7 DEF TypeInv

LEMMA LivesInIds ==
    ASSUME TypeOK, NEW r \in Runs, NEW k \in Kinds, Lives(r, k) PROVE ids[r][k] \in Ids
  BY ObjectsAssumption DEF TypeOK, Ids, Lives

\* shmget, semget, msgget: what the key names, or a new object.
LEMMA GetsTypes ==
    ASSUME TypeOK, NEW r \in Runs, NEW k \in Kinds, Gets(r, k)
    PROVE  /\ made' \in 0..MaxObjects
           /\ named' \in [Kinds -> 0..made']
           /\ ids' \in [Runs -> [Kinds -> 0..made']]
  <1>1. CASE named[k] # 0
    <2>1. ids' = [ids EXCEPT ![r][k] = named[k]] /\ named' = named /\ made' = made
      BY <1>1 DEF Gets
    <2>2. named[k] \in 0..made
      BY DEF TypeOK
    <2> QED BY <2>1, <2>2 DEF TypeOK
  <1>2. CASE named[k] = 0
    <2>1. made' \in 0..MaxObjects /\ made' = made + 1
      BY <1>2, ObjectsAssumption DEF Gets, TypeOK
    <2>2. \A n : n \in 0..made => n \in 0..made'
      BY <2>1 DEF TypeOK
    <2>3. made + 1 \in 0..made'
      BY <2>1 DEF TypeOK
    <2>4. named' \in [Kinds -> 0..made']
      BY <2>1, <2>2, <2>3, <1>2 DEF Gets, TypeOK
    <2>5. ids' \in [Runs -> [Kinds -> 0..made']]
      BY <2>1, <2>2, <2>3, <1>2 DEF Gets, TypeOK
    <2> QED BY <2>1, <2>4, <2>5
  <1> QED BY <1>1, <1>2

LEMMA GetsIds ==
    ASSUME TypeOK, NEW r \in Runs, NEW k \in Kinds, Gets(r, k)
    PROVE  /\ ids'[r][k] # 0 /\ ids'[r][k] = named'[k]
           /\ \A l \in Kinds \ {k} : ids'[r][l] = ids[r][l] /\ named'[l] = named[l]
           /\ \A q \in Runs \ {r} : ids'[q] = ids[q]
           /\ named[k] # 0 => named' = named
  <1>1. CASE named[k] # 0
    <2>1. ids' = [ids EXCEPT ![r][k] = named[k]] /\ named' = named
      BY <1>1 DEF Gets
    <2> QED BY <2>1, <1>1 DEF TypeOK
  <1>2. CASE named[k] = 0
    <2>1. /\ ids' = [ids EXCEPT ![r][k] = made + 1] /\ made + 1 # 0
          /\ named' = [named EXCEPT ![k] = made + 1]
      BY <1>2, ObjectsAssumption DEF Gets, TypeOK
    <2> QED BY <2>1, <1>2 DEF TypeOK
  <1> QED BY <1>1, <1>2

\* The four ways in which a run begins.
LEMMA CreateCases ==
    ASSUME TypeOK, NEW r \in Runs, Create(r)
    PROVE  \/ /\ demo = "pipe" /\ parent' = [parent EXCEPT ![r] = "ready"]
              /\ made < MaxObjects /\ made' = made + 1
              /\ ids' = [ids EXCEPT ![r].pipe = made + 1] /\ named' = named
           \/ /\ demo = "fifo" /\ parent' = [parent EXCEPT ![r] = "failed"]
              /\ UNCHANGED <<named, made, ids>>
           \/ demo = "sem" /\ parent' = [parent EXCEPT ![r] = "made"] /\ Gets(r, "shm")
           \/ /\ demo \in {"fifo", "shm", "msg"} /\ parent' = [parent EXCEPT ![r] = "ready"]
              /\ Gets(r, demo)
  BY DEF Create, Parent

LEMMA CreateTypes == ASSUME TypeOK, NEW r \in Runs, Create(r) PROVE TypeOK'
  <1>1. /\ made' \in 0..MaxObjects
        /\ named' \in [Kinds -> 0..made']
        /\ ids' \in [Runs -> [Kinds -> 0..made']]
    <2>1. CASE /\ made < MaxObjects /\ made' = made + 1
               /\ ids' = [ids EXCEPT ![r].pipe = made + 1] /\ named' = named
      <3>1. made' = made + 1 /\ made' \in 0..MaxObjects /\ made \in Nat
        BY <2>1, ObjectsAssumption DEF TypeOK
      <3>2. \A n : n \in 0..made => n \in 0..made'
        BY <3>1
      <3>3. made + 1 \in 0..made'
        BY <3>1
      <3>4. named' \in [Kinds -> 0..made']
        BY <2>1, <3>2 DEF TypeOK
      <3>5. ids' \in [Runs -> [Kinds -> 0..made']]
        BY <2>1, <3>2, <3>3 DEF TypeOK
      <3> QED BY <3>1, <3>4, <3>5
    <2>2. CASE UNCHANGED <<named, made, ids>>
      BY <2>2 DEF TypeOK
    <2>3. CASE \E k \in Kinds : Gets(r, k)
      BY <2>3, GetsTypes
    <2> QED BY <2>1, <2>2, <2>3, CreateCases DEF Kinds
  <1>2. parent' \in [Runs -> ParentPlaces]
    BY CreateCases DEF TypeOK, ParentPlaces
  <1> QED BY <1>1, <1>2 DEF Create, TypeOK

LEMMA CreateIds ==
    ASSUME TypeOK, NEW r \in Runs, Create(r)
    PROVE  /\ parent[r] = "off" /\ parent'[r] \in {"made", "ready", "failed"}
           /\ \A q \in Runs \ {r} : parent'[q] = parent[q] /\ ids'[q] = ids[q]
           /\ demo' = demo /\ child' = child /\ text' = text /\ count' = count /\ said' = said
           /\ \A k \in Kinds \ {"shm"} : k # demo \/ demo = "sem" => ids'[r][k] = ids[r][k]
           /\ \A k \in Kinds : named[k] # 0 => named'[k] = named[k]
  <1>1. CASE ids' = [ids EXCEPT ![r].pipe = made + 1] /\ named' = named /\ demo = "pipe"
    BY <1>1, CreateCases DEF Create, Parent, TypeOK
  <1>2. CASE UNCHANGED <<named, ids>>
    BY <1>2, CreateCases DEF Create, Parent, TypeOK
  <1>3. CASE \E k \in Kinds : Gets(r, k) /\ (k = "shm" \/ (k = demo /\ demo # "sem"))
    BY <1>3, GetsIds, CreateCases DEF Create, Parent, TypeOK
  <1> QED BY <1>1, <1>2, <1>3, CreateCases DEF Kinds

LEMMA CreatePlaces == ASSUME TypeInv, NEW r \in Runs, Create(r) PROVE Placed'
  <1> USE DEF TypeInv, Placed
  <1>1. ASSUME NEW q \in Runs \ {r} PROVE PlacedAt(q)'
    BY <1>1, CreateIds DEF PlacedAt, Piping, Sharing, Channel
  <1>2. child[r] = "off" /\ ids[r].sem = 0
    BY CreateIds DEF PlacedAt, BeforeFork, Kinds
  <1>3. PlacedAt(r)'
    <2>1. CASE /\ demo = "pipe" /\ parent' = [parent EXCEPT ![r] = "ready"]
               /\ ids' = [ids EXCEPT ![r].pipe = made + 1]
      BY <2>1, <1>2, CreateIds, ObjectsAssumption
      DEF TypeOK, PlacedAt, Sharing, Piping, Channel, Kinds, BeforeFork
    <2>2. CASE /\ demo = "fifo" /\ parent' = [parent EXCEPT ![r] = "failed"]
               /\ UNCHANGED <<named, made, ids>>
      BY <2>2, <1>2, CreateIds DEF TypeOK, PlacedAt, Sharing, Piping, Channel, BeforeFork
    <2>3. CASE demo = "sem" /\ parent' = [parent EXCEPT ![r] = "made"] /\ Gets(r, "shm")
      <3>1. ids'[r].shm # 0 /\ ids'[r].sem = 0
        BY <2>3, <1>2, GetsIds DEF Kinds
      <3> QED BY <3>1, <2>3, <1>2, CreateIds
              DEF TypeOK, PlacedAt, Sharing, Piping, Channel, BeforeFork
    <2>4. CASE /\ demo \in {"fifo", "shm", "msg"} /\ parent' = [parent EXCEPT ![r] = "ready"]
               /\ Gets(r, demo)
      <3>1. ids'[r][demo] # 0
        BY <2>4, GetsIds DEF Kinds
      <3> QED BY <3>1, <2>4, <1>2, CreateIds
              DEF TypeOK, PlacedAt, Sharing, Piping, Channel, BeforeFork
    <2> QED BY <2>1, <2>2, <2>3, <2>4, CreateCases
  <1> QED BY <1>1, <1>3

LEMMA CreateSemaphoreIds ==
    ASSUME TypeOK, NEW r \in Runs, CreateSemaphore(r)
    PROVE  /\ parent[r] = "made" /\ parent'[r] = "initing"
           /\ \A q \in Runs \ {r} : parent'[q] = parent[q] /\ ids'[q] = ids[q]
           /\ demo' = demo /\ child' = child /\ text' = text /\ count' = count /\ said' = said
           /\ \A k \in Kinds \ {"sem"} : ids'[r][k] = ids[r][k] /\ named'[k] = named[k]
           /\ ids'[r].sem = named'["sem"] /\ ids'[r].sem # 0
  BY GetsIds DEF CreateSemaphore, Parent, Kinds, TypeOK

LEMMA TypeStep == TypeInv /\ [Next]_vars => TypeInv'
  <1> SUFFICES ASSUME TypeInv, [Next]_vars PROVE TypeInv'
    OBVIOUS
  <1> USE ObjectsAssumption
  <1> USE DEF TypeInv, Placed
  <1>1. ASSUME NEW r \in Runs, Create(r) PROVE TypeInv'
    <2>1. TypeOK'
      BY <1>1, CreateTypes
    <2>2. Placed'
      BY <1>1, CreatePlaces
    <2> QED BY <2>1, <2>2
  <1>2. ASSUME NEW r \in Runs, CreateSemaphore(r) PROVE TypeInv'
    <2>1. TypeOK'
      <3>1. /\ made' \in 0..MaxObjects
            /\ named' \in [Kinds -> 0..made']
            /\ ids' \in [Runs -> [Kinds -> 0..made']]
        BY <1>2, GetsTypes DEF CreateSemaphore, Kinds
      <3>2. parent' \in [Runs -> ParentPlaces]
        BY <1>2 DEF CreateSemaphore, Parent, TypeOK, ParentPlaces
      <3> QED BY <1>2, <3>1, <3>2 DEF CreateSemaphore, TypeOK
    <2>2. ASSUME NEW q \in Runs PROVE PlacedAt(q)'
      <3>1. /\ demo' = demo /\ child' = child
            /\ q = r => parent[q] = "made" /\ parent'[q] = "initing"
            /\ q # r => parent'[q] = parent[q] /\ ids'[q] = ids[q]
            /\ \A l \in Kinds \ {"sem"} : ids'[q][l] = ids[q][l]
        BY <1>2, GetsIds DEF CreateSemaphore, Parent, Kinds, TypeOK
      <3> QED BY <3>1 DEF PlacedAt, Sharing, Piping, Channel, Kinds, BeforeFork
    <2> QED BY <2>1, <2>2
  <1>3. ASSUME NEW r \in Runs, InitSemaphore(r) PROVE TypeInv'
    <2>1. count' \in [Ids -> Nat]
      BY <1>3 DEF InitSemaphore, TypeOK
    <2>2. parent' \in [Runs -> ParentPlaces]
      BY <1>3 DEF InitSemaphore, Parent, AtPipe, TypeOK, ParentPlaces, ChildPlaces
    <2>3. TypeOK'
      BY <1>3, <2>1, <2>2 DEF InitSemaphore, TypeOK, kernel
    <2>4. ASSUME NEW q \in Runs PROVE PlacedAt(q)'
      BY <1>3 DEF InitSemaphore, Parent, Lives, TypeOK, kernel, PlacedAt, BeforeFork,
          Kinds, Piping, Channel, Sharing
    <2> QED BY <2>3, <2>4
  <1>4. ASSUME NEW r \in Runs, Fork(r) PROVE TypeInv'
    <2>1. TypeOK'
      BY <1>4 DEF Fork, Parent, Child, TypeOK, Ids, Texts, ParentPlaces, ChildPlaces,
          Kinds, kernel
    <2>2. ASSUME NEW q \in Runs PROVE PlacedAt(q)'
      BY <1>4 DEF Fork, Parent, Child, TypeOK, kernel, PlacedAt, BeforeFork, Kinds,
          Piping, Channel, Sharing
    <2> QED BY <2>1, <2>2
  <1>5. ASSUME NEW r \in Runs, WritePipe(r) PROVE TypeInv'
    <2>1. TypeOK'
      BY <1>5 DEF WritePipe, Parent, AtPipe, Channel, TypeOK, Ids, Texts, ParentPlaces,
          ChildPlaces, Kinds, kernel
    <2>2. ASSUME NEW q \in Runs PROVE PlacedAt(q)'
      BY <1>5 DEF WritePipe, Parent, AtPipe, Channel, TypeOK, kernel, PlacedAt,
          BeforeFork, Kinds, Piping, Sharing
    <2> QED BY <2>1, <2>2
  <1>6. ASSUME NEW r \in Runs, AttachParent(r) PROVE TypeInv'
    <2>1. TypeOK'
      BY <1>6 DEF AttachParent, Parent, TypeOK, Ids, Texts, ParentPlaces, ChildPlaces,
          Kinds, kernel
    <2>2. ASSUME NEW q \in Runs PROVE PlacedAt(q)'
      BY <1>6 DEF AttachParent, Parent, TypeOK, kernel, PlacedAt, BeforeFork, Kinds,
          Piping, Channel, Sharing
    <2> QED BY <2>1, <2>2
  <1>7. ASSUME NEW r \in Runs, WriteBegins(r) PROVE TypeInv'
    <2>1. TypeOK'
      BY <1>7 DEF WriteBegins, Parent, TypeOK, Ids, Texts, ParentPlaces, ChildPlaces,
          Kinds, kernel
    <2>2. ASSUME NEW q \in Runs PROVE PlacedAt(q)'
      BY <1>7 DEF WriteBegins, Parent, TypeOK, kernel, PlacedAt, BeforeFork, Kinds,
          Piping, Channel, Sharing
    <2> QED BY <2>1, <2>2
  <1>8. ASSUME NEW r \in Runs, WriteEnds(r) PROVE TypeInv'
    <2>1. TypeOK'
      BY <1>8 DEF WriteEnds, Parent, TypeOK, Ids, Texts, ParentPlaces, ChildPlaces,
          Kinds, kernel
    <2>2. ASSUME NEW q \in Runs PROVE PlacedAt(q)'
      BY <1>8 DEF WriteEnds, Parent, TypeOK, kernel, PlacedAt, BeforeFork, Kinds,
          Piping, Channel, Sharing
    <2> QED BY <2>1, <2>2
  <1>9. ASSUME NEW r \in Runs, Signal(r) PROVE TypeInv'
    <2>1. count' \in [Ids -> Nat]
      <3>1. CASE Lives(r, "sem")
        <4>1. ids[r].sem \in Ids
          BY <3>1, LivesInIds DEF Kinds
        <4>2. count[ids[r].sem] + 1 \in Nat
          BY <1>9, <4>1, <3>1 DEF Signal, TypeOK
        <4> QED BY <1>9, <4>1, <4>2, <3>1 DEF Signal, TypeOK
      <3>2. CASE ~Lives(r, "sem")
        BY <1>9, <3>2 DEF Signal, TypeOK
      <3> QED BY <3>1, <3>2
    <2>2. parent' \in [Runs -> ParentPlaces]
      BY <1>9 DEF Signal, Parent, TypeOK, ParentPlaces, ChildPlaces, Texts
    <2>3. TypeOK'
      BY <1>9, <2>1, <2>2 DEF Signal, TypeOK
    <2>4. ASSUME NEW q \in Runs PROVE PlacedAt(q)'
      BY <1>9 DEF Signal, Parent, Lives, TypeOK, kernel, PlacedAt, BeforeFork, Kinds,
          Piping, Channel, Sharing
    <2> QED BY <2>3, <2>4
  <1>10. ASSUME NEW r \in Runs, Detach(r) PROVE TypeInv'
    <2>1. TypeOK'
      BY <1>10 DEF Detach, Parent, TypeOK, Ids, Texts, ParentPlaces, ChildPlaces, Kinds,
          kernel
    <2>2. ASSUME NEW q \in Runs PROVE PlacedAt(q)'
      BY <1>10 DEF Detach, Parent, TypeOK, kernel, PlacedAt, BeforeFork, Kinds, Piping,
          Channel, Sharing
    <2> QED BY <2>1, <2>2
  <1>11. ASSUME NEW r \in Runs, SendMessage(r) PROVE TypeInv'
    <2>1. count' \in [Ids -> Nat]
      <3>1. CASE Lives(r, "msg")
        <4>1. ids[r].msg \in Ids
          BY <3>1, LivesInIds DEF Kinds
        <4>2. count[ids[r].msg] + 1 \in Nat
          BY <1>11, <4>1, <3>1 DEF SendMessage, TypeOK
        <4> QED BY <1>11, <4>1, <4>2, <3>1 DEF SendMessage, TypeOK
      <3>2. CASE ~Lives(r, "msg")
        BY <1>11, <3>2 DEF SendMessage, TypeOK
      <3> QED BY <3>1, <3>2
    <2>2. parent' \in [Runs -> ParentPlaces]
      BY <1>11 DEF SendMessage, Parent, TypeOK, ParentPlaces, ChildPlaces, Texts
    <2>3. TypeOK'
      BY <1>11, <2>1, <2>2 DEF SendMessage, TypeOK
    <2>4. ASSUME NEW q \in Runs PROVE PlacedAt(q)'
      BY <1>11 DEF SendMessage, Parent, Lives, TypeOK, kernel, PlacedAt, BeforeFork,
          Kinds, Piping, Channel, Sharing
    <2> QED BY <2>3, <2>4
  <1>12. ASSUME NEW r \in Runs, Wait(r) PROVE TypeInv'
    <2>1. TypeOK'
      BY <1>12 DEF Wait, Parent, TypeOK, Ids, Texts, ParentPlaces, ChildPlaces, Kinds,
          kernel
    <2>2. ASSUME NEW q \in Runs PROVE PlacedAt(q)'
      BY <1>12 DEF Wait, Parent, TypeOK, kernel, PlacedAt, BeforeFork, Kinds, Piping,
          Channel, Sharing
    <2> QED BY <2>1, <2>2
  <1>13. ASSUME NEW r \in Runs, Remove(r) PROVE TypeInv'
    <2>1. named' \in [Kinds -> 0..made']
      <3>1. \E k \in Kinds : named' = [named EXCEPT ![k] = 0] \/ named' = named
        BY <1>13 DEF Remove, Removes, TypeOK, Demos, Kinds
      <3>2. made' = made
        BY <1>13 DEF Remove
      <3> QED BY <3>1, <3>2 DEF TypeOK
    <2>2. parent' \in [Runs -> ParentPlaces]
      BY <1>13 DEF Remove, Parent, AtPipe, TypeOK, ParentPlaces, ChildPlaces
    <2>3. TypeOK'
      BY <1>13, <2>1, <2>2 DEF Remove, TypeOK, kernel
    <2>4. ASSUME NEW q \in Runs PROVE PlacedAt(q)'
      BY <1>13 DEF Remove, Parent, Removes, Lives, TypeOK, kernel, PlacedAt, BeforeFork,
          Kinds, Piping, Channel, Sharing
    <2> QED BY <2>3, <2>4
  <1>14. ASSUME NEW r \in Runs, RemoveSemaphore(r) PROVE TypeInv'
    <2>1. named' \in [Kinds -> 0..made']
      BY <1>14 DEF RemoveSemaphore, Removes, TypeOK, Kinds
    <2>2. parent' \in [Runs -> ParentPlaces]
      BY <1>14 DEF RemoveSemaphore, Parent, AtPipe, TypeOK, ParentPlaces, ChildPlaces
    <2>3. TypeOK'
      BY <1>14, <2>1, <2>2 DEF RemoveSemaphore, TypeOK, kernel
    <2>4. ASSUME NEW q \in Runs PROVE PlacedAt(q)'
      BY <1>14 DEF RemoveSemaphore, Parent, Removes, Lives, TypeOK, kernel, PlacedAt,
          BeforeFork, Kinds, Piping, Channel, Sharing
    <2> QED BY <2>3, <2>4
  <1>15. ASSUME NEW r \in Runs, OpenFifo(r) PROVE TypeInv'
    <2>1. TypeOK'
      BY <1>15 DEF OpenFifo, Parent, Child, TypeOK, Ids, Texts, ParentPlaces,
          ChildPlaces, Kinds, kernel
    <2>2. ASSUME NEW q \in Runs PROVE PlacedAt(q)'
      BY <1>15 DEF OpenFifo, Parent, Child, TypeOK, kernel, PlacedAt, BeforeFork, Kinds,
          Piping, Channel, Sharing
    <2> QED BY <2>1, <2>2
  <1>16. ASSUME NEW r \in Runs, ReadPipe(r) PROVE TypeInv'
    <2>1. said' \in [Runs -> Texts \cup {"nothing"}]
      <3>1. Channel(r) \in Ids
        BY <1>16 DEF ReadPipe, Child, AtPipe, Channel, TypeOK, Placed, PlacedAt,
            BeforeFork, Ids, Kinds, Demos, Piping, Sharing
      <3> QED BY <1>16, <3>1 DEF ReadPipe, TypeOK
    <2>2. child' \in [Runs -> ChildPlaces]
      BY <1>16 DEF ReadPipe, Child, AtPipe, TypeOK, ParentPlaces, ChildPlaces
    <2>3. TypeOK'
      BY <1>16, <2>1, <2>2 DEF ReadPipe, TypeOK, kernel
    <2>4. ASSUME NEW q \in Runs PROVE PlacedAt(q)'
      BY <1>16 DEF ReadPipe, Child, AtPipe, Channel, TypeOK, kernel, PlacedAt,
          BeforeFork, Kinds, Piping, Sharing
    <2> QED BY <2>3, <2>4
  <1>17. ASSUME NEW r \in Runs, UnlinkFifo(r) PROVE TypeInv'
    <2>1. named' \in [Kinds -> 0..made']
      BY <1>17 DEF UnlinkFifo, Removes, TypeOK, Kinds
    <2>2. child' \in [Runs -> ChildPlaces]
      BY <1>17 DEF UnlinkFifo, Child, AtPipe, TypeOK, ParentPlaces, ChildPlaces
    <2>3. TypeOK'
      BY <1>17, <2>1, <2>2 DEF UnlinkFifo, TypeOK, kernel
    <2>4. ASSUME NEW q \in Runs PROVE PlacedAt(q)'
      BY <1>17 DEF UnlinkFifo, Child, TypeOK, kernel, PlacedAt, BeforeFork, Kinds,
          Piping, Channel, Sharing
    <2> QED BY <2>3, <2>4
  <1>18. ASSUME NEW r \in Runs, AttachChild(r) PROVE TypeInv'
    <2>1. TypeOK'
      BY <1>18 DEF AttachChild, Child, TypeOK, Ids, Texts, ParentPlaces, ChildPlaces,
          Kinds, kernel
    <2>2. ASSUME NEW q \in Runs PROVE PlacedAt(q)'
      BY <1>18 DEF AttachChild, Child, TypeOK, kernel, PlacedAt, BeforeFork, Kinds,
          Piping, Channel, Sharing
    <2> QED BY <2>1, <2>2
  <1>19. ASSUME NEW r \in Runs, Pass(r) PROVE TypeInv'
    <2>1. count' \in [Ids -> Nat]
      <3>1. CASE Lives(r, "sem")
        <4>1. ids[r].sem \in Ids
          BY <3>1, LivesInIds DEF Kinds
        <4>2. count[ids[r].sem] - 1 \in Nat
          BY <1>19, <4>1, <3>1 DEF Pass, TypeOK
        <4> QED BY <1>19, <4>1, <4>2, <3>1 DEF Pass, TypeOK
      <3>2. CASE ~Lives(r, "sem")
        BY <1>19, <3>2 DEF Pass, TypeOK
      <3> QED BY <3>1, <3>2
    <2>2. child' \in [Runs -> ChildPlaces]
      BY <1>19 DEF Pass, Child, TypeOK, ParentPlaces, ChildPlaces, Texts
    <2>3. TypeOK'
      BY <1>19, <2>1, <2>2 DEF Pass, TypeOK
    <2>4. ASSUME NEW q \in Runs PROVE PlacedAt(q)'
      BY <1>19 DEF Pass, Child, Lives, TypeOK, kernel, PlacedAt, BeforeFork, Kinds,
          Piping, Channel, Sharing
    <2> QED BY <2>3, <2>4
  <1>20. ASSUME NEW r \in Runs, ReadMemory(r) PROVE TypeInv'
    <2>1. said' \in [Runs -> Texts \cup {"nothing"}]
      <3>1. ids[r].shm \in Ids
        BY <1>20 DEF ReadMemory, Child, TypeOK, Placed, PlacedAt, BeforeFork, Ids,
            Kinds, Demos, Piping, Sharing
      <3> QED BY <1>20, <3>1 DEF ReadMemory, TypeOK
    <2>2. child' \in [Runs -> ChildPlaces]
      BY <1>20 DEF ReadMemory, Child, AtPipe, TypeOK, ParentPlaces, ChildPlaces
    <2>3. TypeOK'
      BY <1>20, <2>1, <2>2 DEF ReadMemory, TypeOK, kernel
    <2>4. ASSUME NEW q \in Runs PROVE PlacedAt(q)'
      BY <1>20 DEF ReadMemory, Child, TypeOK, kernel, PlacedAt, BeforeFork, Kinds,
          Piping, Channel, Sharing
    <2> QED BY <2>3, <2>4
  <1>21. ASSUME NEW r \in Runs, ReceiveMessage(r) PROVE TypeInv'
    <2>1. count' \in [Ids -> Nat]
      <3>1. CASE Lives(r, "msg")
        <4>1. ids[r].msg \in Ids
          BY <3>1, LivesInIds DEF Kinds
        <4>2. count[ids[r].msg] - 1 \in Nat
          BY <1>21, <4>1, <3>1 DEF ReceiveMessage, TypeOK
        <4> QED BY <1>21, <4>1, <4>2, <3>1 DEF ReceiveMessage, TypeOK
      <3>2. CASE ~Lives(r, "msg")
        BY <1>21, <3>2 DEF ReceiveMessage, TypeOK
      <3> QED BY <3>1, <3>2
    <2>2. child' \in [Runs -> ChildPlaces] /\ said' \in [Runs -> Texts \cup {"nothing"}]
      BY <1>21 DEF ReceiveMessage, Child, TypeOK, ParentPlaces, ChildPlaces, Texts
    <2>3. TypeOK'
      BY <1>21, <2>1, <2>2 DEF ReceiveMessage, TypeOK
    <2>4. ASSUME NEW q \in Runs PROVE PlacedAt(q)'
      BY <1>21 DEF ReceiveMessage, Child, Lives, TypeOK, kernel, PlacedAt, BeforeFork,
          Kinds, Piping, Channel, Sharing
    <2> QED BY <2>3, <2>4
  <1>22. ASSUME NEW r \in Runs, Kill(r) PROVE TypeInv'
    <2>1. TypeOK'
      BY <1>22 DEF Kill, Ended, TypeOK, Ids, Texts, ParentPlaces, ChildPlaces, Kinds,
          kernel
    <2>2. ASSUME NEW q \in Runs PROVE PlacedAt(q)'
      BY <1>22 DEF Kill, Ended, TypeOK, kernel, PlacedAt, BeforeFork, Kinds, Piping,
          Channel, Sharing
    <2> QED BY <2>1, <2>2
  <1>23. CASE UNCHANGED vars
    BY <1>23 DEF vars, TypeOK, PlacedAt, Piping, Sharing, Channel
  <1> QED
    BY <1>1, <1>2, <1>3, <1>4, <1>5, <1>6, <1>7, <1>8, <1>9, <1>10, <1>11, <1>12, <1>13,
        <1>14, <1>15, <1>16, <1>17, <1>18, <1>19, <1>20, <1>21, <1>22, <1>23 DEF Next,
        ParentStep, ChildStep

\* Every variable keeps its type: demo, objects, places and texts (IPC/01 to 05).
THEOREM TypeCorrect == Spec => []TypeOK
  <1>1. TypeInv => TypeOK
    BY DEF TypeInv
  <1> QED BY TypeInit, TypeStep, <1>1, PTL DEF Spec

-----------------------------------------------------------------------------
(* What no step undoes *)

Stays ==
    /\ demo' = demo
    /\ \A i \in Ids : text[i] = "whole" => text'[i] = "whole"
    /\ \A q \in Runs, k \in Kinds : ids[q][k] # 0 => ids'[q][k] = ids[q][k]
    /\ \A q \in Runs : parent[q] \in Ended => parent'[q] = parent[q]
    /\ \A q \in Runs : child[q] \in Ended => child'[q] = child[q]
    /\ \A q \in Runs : parent[q] # "off" => parent'[q] # "off"
    /\ \A q \in Runs : child[q] # "off" => child'[q] # "off"

LEMMA StepStays == ASSUME TypeInv, [Next]_vars PROVE Stays
  <1> USE DEF TypeInv, Placed
  <1>1. ASSUME NEW r \in Runs, Create(r) PROVE Stays
    <2>1. \A k \in Kinds : ids[r][k] = 0
      BY <1>1, CreateIds DEF PlacedAt
    <2>2. \A q \in Runs, k \in Kinds : ids[q][k] # 0 => ids'[q][k] = ids[q][k]
      BY <1>1, <2>1, CreateIds
    <2> QED BY <1>1, <2>2, CreateIds DEF Stays, Ended
  <1>2. ASSUME NEW r \in Runs, CreateSemaphore(r) PROVE Stays
    <2>1. \A k \in Kinds : k # "sem" \/ ids[r][k] = 0
      BY <1>2, CreateSemaphoreIds DEF PlacedAt
    <2>2. \A q \in Runs, k \in Kinds : ids[q][k] # 0 => ids'[q][k] = ids[q][k]
      BY <1>2, <2>1, CreateSemaphoreIds
    <2> QED BY <1>2, <2>2, CreateSemaphoreIds DEF Stays, Ended
  <1>3. ASSUME NEW r \in Runs, InitSemaphore(r) PROVE Stays
    BY <1>3 DEF InitSemaphore, Parent, Lives, TypeOK, kernel, Stays, Ended
  <1>4. ASSUME NEW r \in Runs, Fork(r) PROVE Stays
    BY <1>4 DEF Fork, Parent, Child, TypeOK, kernel, Stays, Ended
  <1>5. ASSUME NEW r \in Runs, WritePipe(r) PROVE Stays
    BY <1>5 DEF WritePipe, Parent, AtPipe, Channel, TypeOK, kernel, Stays, Ended
  <1>6. ASSUME NEW r \in Runs, AttachParent(r) PROVE Stays
    BY <1>6 DEF AttachParent, Parent, TypeOK, kernel, Stays, Ended
  <1>7. ASSUME NEW r \in Runs, WriteBegins(r) PROVE Stays
    BY <1>7 DEF WriteBegins, Parent, TypeOK, kernel, Stays, Ended
  <1>8. ASSUME NEW r \in Runs, WriteEnds(r) PROVE Stays
    BY <1>8 DEF WriteEnds, Parent, TypeOK, kernel, Stays, Ended
  <1>9. ASSUME NEW r \in Runs, Signal(r) PROVE Stays
    BY <1>9 DEF Signal, Parent, Lives, TypeOK, kernel, Stays, Ended
  <1>10. ASSUME NEW r \in Runs, Detach(r) PROVE Stays
    BY <1>10 DEF Detach, Parent, TypeOK, kernel, Stays, Ended
  <1>11. ASSUME NEW r \in Runs, SendMessage(r) PROVE Stays
    BY <1>11 DEF SendMessage, Parent, Lives, TypeOK, kernel, Stays, Ended
  <1>12. ASSUME NEW r \in Runs, Wait(r) PROVE Stays
    BY <1>12 DEF Wait, Parent, TypeOK, kernel, Stays, Ended
  <1>13. ASSUME NEW r \in Runs, Remove(r) PROVE Stays
    BY <1>13 DEF Remove, Parent, Removes, Lives, TypeOK, kernel, Stays, Ended
  <1>14. ASSUME NEW r \in Runs, RemoveSemaphore(r) PROVE Stays
    BY <1>14 DEF RemoveSemaphore, Parent, Removes, Lives, TypeOK, kernel, Stays, Ended
  <1>15. ASSUME NEW r \in Runs, OpenFifo(r) PROVE Stays
    BY <1>15 DEF OpenFifo, Parent, Child, TypeOK, kernel, Stays, Ended
  <1>16. ASSUME NEW r \in Runs, ReadPipe(r) PROVE Stays
    BY <1>16 DEF ReadPipe, Child, AtPipe, Channel, TypeOK, kernel, Stays, Ended
  <1>17. ASSUME NEW r \in Runs, UnlinkFifo(r) PROVE Stays
    BY <1>17 DEF UnlinkFifo, Child, TypeOK, kernel, Stays, Ended
  <1>18. ASSUME NEW r \in Runs, AttachChild(r) PROVE Stays
    BY <1>18 DEF AttachChild, Child, TypeOK, kernel, Stays, Ended
  <1>19. ASSUME NEW r \in Runs, Pass(r) PROVE Stays
    BY <1>19 DEF Pass, Child, Lives, TypeOK, kernel, Stays, Ended
  <1>20. ASSUME NEW r \in Runs, ReadMemory(r) PROVE Stays
    BY <1>20 DEF ReadMemory, Child, TypeOK, kernel, Stays, Ended
  <1>21. ASSUME NEW r \in Runs, ReceiveMessage(r) PROVE Stays
    BY <1>21 DEF ReceiveMessage, Child, Lives, TypeOK, kernel, Stays, Ended
  <1>22. ASSUME NEW r \in Runs, Kill(r) PROVE Stays
    BY <1>22 DEF Kill, Ended, TypeOK, kernel, Stays
  <1>23. CASE UNCHANGED vars
    BY <1>23 DEF vars, Stays
  <1> QED
    BY <1>1, <1>2, <1>3, <1>4, <1>5, <1>6, <1>7, <1>8, <1>9, <1>10, <1>11, <1>12, <1>13,
        <1>14, <1>15, <1>16, <1>17, <1>18, <1>19, <1>20, <1>21, <1>22, <1>23 DEF Next,
        ParentStep, ChildStep

-----------------------------------------------------------------------------
(* Pipes *)

LEMMA PipesInit == Init => PipesInv
  BY DEF Init, PipesInv, PipesAt

LEMMA PipesStep == ASSUME TypeInv, PipesInv, [Next]_vars PROVE PipesInv'
  <1> SUFFICES ASSUME Piping', NEW q \in Runs PROVE PipesAt(q)'
    BY DEF PipesInv
  <1> USE DEF TypeInv, Placed
  <1>1. Stays
    BY StepStays
  <1>2. Piping /\ PipesAt(q) /\ PlacedAt(q)
    BY <1>1 DEF Stays, Piping, PipesInv
  <1>3. \/ \E r \in Runs : \/ Create(r) \/ Fork(r) \/ OpenFifo(r) \/ WritePipe(r)
                           \/ ReadPipe(r) \/ UnlinkFifo(r) \/ Kill(r)
        \/ UNCHANGED vars
    <2>1. ASSUME NEW r \in Runs
          PROVE  /\ ~CreateSemaphore(r) /\ ~InitSemaphore(r)
                 /\ ~AttachParent(r) /\ ~WriteBegins(r) /\ ~WriteEnds(r) /\ ~Signal(r)
                 /\ ~Detach(r) /\ ~SendMessage(r) /\ ~Wait(r) /\ ~Remove(r)
                 /\ ~RemoveSemaphore(r) /\ ~AttachChild(r) /\ ~Pass(r) /\ ~ReadMemory(r)
                 /\ ~ReceiveMessage(r)
      BY <1>2 DEF PipesInv, PipesAt, Piping, Sharing, Parent, CreateSemaphore, InitSemaphore,
                  AttachParent, WriteBegins, WriteEnds, Signal, Detach, SendMessage, Wait,
                  Remove, RemoveSemaphore, AttachChild, Pass, ReadMemory, ReceiveMessage
    <2> QED BY <2>1 DEF Next, ParentStep, ChildStep
  <1>4. parent[q] = "done" => PipesAt(q)'
    <2>1. ASSUME parent[q] = "done" PROVE Channel(q) \in Ids /\ Channel(q)' = Channel(q)
      BY <2>1, <1>1, <1>2, ObjectsAssumption
      DEF Stays, PlacedAt, Channel, TypeOK, Demos, Ids
    <2> QED BY <2>1, <1>1, <1>2 DEF Stays, Ended, PipesAt
  <1>5. ASSUME parent[q] # "done" PROVE PipesAt(q)'
    <2>1. ASSUME NEW r \in Runs, Create(r) PROVE PipesAt(q)'
      <3>1. q = r => parent'[q] \in {"ready", "failed"} /\ child[q] = "off"
        BY <2>1, <1>2, CreateCases, CreateIds DEF Piping, PlacedAt, BeforeFork, TypeOK
      <3> QED BY <2>1, <3>1, <1>2, <1>5, CreateIds DEF PipesAt
    <2>2. ASSUME NEW r \in Runs, WritePipe(r) PROVE PipesAt(q)'
      <3>1. CASE q = r /\ parent'[q] = "done"
        <4>1. Channel(q) \in Ids /\ Channel(q)' = Channel(q)
          BY <2>2, <3>1, <1>2, ObjectsAssumption
          DEF WritePipe, Parent, AtPipe, PlacedAt, Channel, TypeOK, Demos, Ids
        <4>2. text' = [text EXCEPT ![Channel(q)] = "whole"]
          BY <2>2, <3>1 DEF WritePipe, Parent, TypeOK
        <4> QED BY <3>1, <4>1, <4>2 DEF PipesAt, TypeOK
      <3>2. CASE ~(q = r /\ parent'[q] = "done")
        BY <2>2, <3>2, <1>2, <1>5 DEF WritePipe, Parent, PipesAt, TypeOK
      <3> QED BY <3>1, <3>2
    <2>3. ASSUME NEW r \in Runs, Fork(r) \/ OpenFifo(r) \/ ReadPipe(r) \/ UnlinkFifo(r) \/ Kill(r)
          PROVE  PipesAt(q)'
      BY <2>3, <1>2, <1>5 DEF Fork, OpenFifo, ReadPipe, UnlinkFifo, Kill, Parent, Child, Ended,
                              PipesAt, PlacedAt, BeforeFork, AtPipe, TypeOK
    <2>4. CASE UNCHANGED vars
      BY <2>4, <1>2 DEF vars, PipesAt, Channel
    <2> QED BY <1>3, <2>1, <2>2, <2>3, <2>4
  <1> QED BY <1>4, <1>5

-----------------------------------------------------------------------------
(* The semaphore *)

LEMMA SignalsInit == Init => SignalsInv
  <1> SUFFICES ASSUME Init, demo = "sem" PROVE SignalsInv
    BY DEF SignalsInv
  <1>1. \A s \in Ids : Raw(s)
    BY ObjectsAssumption DEF Init, Raw, Ids, Kinds
  <1> QED BY <1>1 DEF Init, SignalsInv, SignalsAt

LEMMA ToldStays == ASSUME TypeInv, [Next]_vars, NEW s \in Ids, Told(s) PROVE Told(s)'
  <1>1. PICK q \in Runs : ids[q].sem = s /\ ids[q].shm # 0 /\ text[ids[q].shm] = "whole"
    BY DEF Told
  <1>2. ids[q].shm \in Ids /\ s # 0
    BY <1>1, ObjectsAssumption DEF TypeInv, TypeOK, Ids, Kinds
  <1>3. ids'[q].sem = s /\ ids'[q].shm = ids[q].shm /\ text'[ids[q].shm] = "whole"
    BY <1>1, <1>2, StepStays DEF Stays, Kinds
  <1> QED BY <1>1, <1>3 DEF Told

\* A semaphore stays raw until somebody initialises it.
LEMMA RawStays ==
    ASSUME TypeInv, [Next]_vars, demo = "sem", NEW s \in Ids, Raw(s),
           \A r \in Runs : InitSemaphore(r) => ~(Lives(r, "sem") /\ ids[r].sem = s)
    PROVE  Raw(s)'
  <1> SUFFICES ASSUME NEW q \in Runs, ids'[q].sem = s
               PROVE  parent'[q] \in {"initing", "failed", "killed"} /\ child'[q] = "off"
    BY DEF Raw
  <1> USE DEF TypeInv, Placed
  <1>0. PlacedAt(q) /\ s # 0
    BY ObjectsAssumption DEF Ids
  <1>1. ASSUME NEW r \in Runs, Create(r)
      PROVE  parent'[q] \in {"initing", "failed", "killed"} /\ child'[q] = "off"
    <2>1. q # r
      BY <1>1, <1>0, CreateIds DEF PlacedAt, Kinds
    <2> QED BY <1>1, <2>1, CreateIds DEF Raw
  <1>2. ASSUME NEW r \in Runs, CreateSemaphore(r)
      PROVE  parent'[q] \in {"initing", "failed", "killed"} /\ child'[q] = "off"
    BY <1>2, <1>0, CreateSemaphoreIds DEF Raw, TypeOK, PlacedAt, BeforeFork
  <1>3. ASSUME NEW r \in Runs, InitSemaphore(r)
      PROVE  parent'[q] \in {"initing", "failed", "killed"} /\ child'[q] = "off"
    BY <1>3, <1>0 DEF InitSemaphore, Parent, Lives, Raw, TypeOK, kernel, Ended, Piping,
        Sharing
  <1>4. ASSUME NEW r \in Runs, Fork(r)
      PROVE  parent'[q] \in {"initing", "failed", "killed"} /\ child'[q] = "off"
    BY <1>4, <1>0 DEF Fork, Parent, Child, Raw, TypeOK, kernel, Ended, Piping, Sharing
  <1>5. ASSUME NEW r \in Runs, WritePipe(r)
      PROVE  parent'[q] \in {"initing", "failed", "killed"} /\ child'[q] = "off"
    BY <1>5, <1>0 DEF WritePipe, Parent, AtPipe, Channel, Raw, TypeOK, kernel, Ended,
        Piping, Sharing
  <1>6. ASSUME NEW r \in Runs, AttachParent(r)
      PROVE  parent'[q] \in {"initing", "failed", "killed"} /\ child'[q] = "off"
    BY <1>6, <1>0 DEF AttachParent, Parent, Raw, TypeOK, kernel, Ended, Piping, Sharing
  <1>7. ASSUME NEW r \in Runs, WriteBegins(r)
      PROVE  parent'[q] \in {"initing", "failed", "killed"} /\ child'[q] = "off"
    BY <1>7, <1>0 DEF WriteBegins, Parent, Raw, TypeOK, kernel, Ended, Piping, Sharing
  <1>8. ASSUME NEW r \in Runs, WriteEnds(r)
      PROVE  parent'[q] \in {"initing", "failed", "killed"} /\ child'[q] = "off"
    BY <1>8, <1>0 DEF WriteEnds, Parent, Raw, TypeOK, kernel, Ended, Piping, Sharing
  <1>9. ASSUME NEW r \in Runs, Signal(r)
      PROVE  parent'[q] \in {"initing", "failed", "killed"} /\ child'[q] = "off"
    BY <1>9, <1>0 DEF Signal, Parent, Lives, Raw, TypeOK, kernel, Ended, Piping, Sharing
  <1>10. ASSUME NEW r \in Runs, Detach(r)
      PROVE  parent'[q] \in {"initing", "failed", "killed"} /\ child'[q] = "off"
    BY <1>10, <1>0 DEF Detach, Parent, Raw, TypeOK, kernel, Ended, Piping, Sharing
  <1>11. ASSUME NEW r \in Runs, SendMessage(r)
      PROVE  parent'[q] \in {"initing", "failed", "killed"} /\ child'[q] = "off"
    BY <1>11, <1>0 DEF SendMessage, Parent, Lives, Raw, TypeOK, kernel, Ended, Piping,
        Sharing
  <1>12. ASSUME NEW r \in Runs, Wait(r)
      PROVE  parent'[q] \in {"initing", "failed", "killed"} /\ child'[q] = "off"
    BY <1>12, <1>0 DEF Wait, Parent, Raw, TypeOK, kernel, Ended, Piping, Sharing
  <1>13. ASSUME NEW r \in Runs, Remove(r)
      PROVE  parent'[q] \in {"initing", "failed", "killed"} /\ child'[q] = "off"
    BY <1>13, <1>0 DEF Remove, Parent, Removes, Lives, Raw, TypeOK, kernel, Ended,
        Piping, Sharing
  <1>14. ASSUME NEW r \in Runs, RemoveSemaphore(r)
      PROVE  parent'[q] \in {"initing", "failed", "killed"} /\ child'[q] = "off"
    BY <1>14, <1>0 DEF RemoveSemaphore, Parent, Removes, Lives, Raw, TypeOK, kernel,
        Ended, Piping, Sharing
  <1>15. ASSUME NEW r \in Runs, OpenFifo(r)
      PROVE  parent'[q] \in {"initing", "failed", "killed"} /\ child'[q] = "off"
    BY <1>15, <1>0 DEF OpenFifo, Parent, Child, Raw, TypeOK, kernel, Ended, Piping,
        Sharing
  <1>16. ASSUME NEW r \in Runs, ReadPipe(r)
      PROVE  parent'[q] \in {"initing", "failed", "killed"} /\ child'[q] = "off"
    BY <1>16, <1>0 DEF ReadPipe, Child, AtPipe, Channel, Raw, TypeOK, kernel, Ended,
        Piping, Sharing
  <1>17. ASSUME NEW r \in Runs, UnlinkFifo(r)
      PROVE  parent'[q] \in {"initing", "failed", "killed"} /\ child'[q] = "off"
    BY <1>17, <1>0 DEF UnlinkFifo, Child, Raw, TypeOK, kernel, Ended, Piping, Sharing
  <1>18. ASSUME NEW r \in Runs, AttachChild(r)
      PROVE  parent'[q] \in {"initing", "failed", "killed"} /\ child'[q] = "off"
    BY <1>18, <1>0 DEF AttachChild, Child, Raw, TypeOK, kernel, Ended, Piping, Sharing
  <1>19. ASSUME NEW r \in Runs, Pass(r)
      PROVE  parent'[q] \in {"initing", "failed", "killed"} /\ child'[q] = "off"
    BY <1>19, <1>0 DEF Pass, Child, Lives, Raw, TypeOK, kernel, Ended, Piping, Sharing
  <1>20. ASSUME NEW r \in Runs, ReadMemory(r)
      PROVE  parent'[q] \in {"initing", "failed", "killed"} /\ child'[q] = "off"
    BY <1>20, <1>0 DEF ReadMemory, Child, Raw, TypeOK, kernel, Ended, Piping, Sharing
  <1>21. ASSUME NEW r \in Runs, ReceiveMessage(r)
      PROVE  parent'[q] \in {"initing", "failed", "killed"} /\ child'[q] = "off"
    BY <1>21, <1>0 DEF ReceiveMessage, Child, Lives, Raw, TypeOK, kernel, Ended, Piping,
        Sharing
  <1>22. ASSUME NEW r \in Runs, Kill(r)
      PROVE  parent'[q] \in {"initing", "failed", "killed"} /\ child'[q] = "off"
    BY <1>22, <1>0 DEF Kill, Ended, Raw, TypeOK, kernel, Piping, Sharing
  <1>23. CASE UNCHANGED vars
    BY <1>23 DEF vars, Raw
  <1> QED
    BY <1>1, <1>2, <1>3, <1>4, <1>5, <1>6, <1>7, <1>8, <1>9, <1>10, <1>11, <1>12, <1>13,
        <1>14, <1>15, <1>16, <1>17, <1>18, <1>19, <1>20, <1>21, <1>22, <1>23 DEF Next,
        ParentStep, ChildStep

LEMMA SignalsStep == ASSUME TypeInv, SignalsInv, [Next]_vars PROVE SignalsInv'
  <1> SUFFICES ASSUME demo' = "sem" PROVE SignalsInv'
    BY DEF SignalsInv
  <1> USE DEF TypeInv, Placed
  <1>1. Stays /\ demo = "sem"
    BY StepStays DEF Stays
  <1>2. ASSUME NEW q \in Runs PROVE SignalsAt(q)'
    <2>1. SignalsAt(q)
      BY <1>1 DEF SignalsInv
    <2>2. ASSUME parent'[q] = "written" PROVE text'[ids'[q].shm] = "whole"
      <3>1. parent[q] = "written" \/ WriteEnds(q)
        BY <2>2, CreateIds DEF Next, ParentStep, ChildStep, vars, CreateSemaphore,
            InitSemaphore, Fork, WritePipe, AttachParent, WriteBegins, WriteEnds,
            Signal, Detach, SendMessage, Wait, Remove, RemoveSemaphore, OpenFifo,
            ReadPipe, UnlinkFifo, AttachChild, Pass, ReadMemory, ReceiveMessage, Kill,
            Parent, TypeOK, kernel
      <3>2. ids[q].shm \in Ids /\ ids'[q].shm = ids[q].shm
        BY <3>1, <1>1, ObjectsAssumption
        DEF Stays, WriteEnds, Parent, PlacedAt, Sharing, TypeOK, Kinds, Ids
      <3> QED BY <3>1, <3>2, <1>1, <2>1 DEF Stays, WriteEnds, SignalsAt, TypeOK
    <2>3. ASSUME child'[q] = "passed" PROVE ids'[q].sem # 0 /\ Told(ids[q].sem)'
      <3>1. child[q] = "passed" \/ (Pass(q) /\ Lives(q, "sem") /\ count[ids[q].sem] > 0)
        BY <2>3, CreateIds DEF Next, ParentStep, ChildStep, vars, Create,
            CreateSemaphore, InitSemaphore, Fork, WritePipe, AttachParent, WriteBegins,
            WriteEnds, Signal, Detach, SendMessage, Wait, Remove, RemoveSemaphore,
            OpenFifo, ReadPipe, UnlinkFifo, AttachChild, Pass, ReadMemory,
            ReceiveMessage, Kill, Child, TypeOK, kernel
      <3>2. ids[q].sem # 0
        BY <3>1, <2>1 DEF SignalsAt, Lives
      <3>3. PICK s \in Ids : s = ids[q].sem
        BY <3>2, ObjectsAssumption DEF TypeOK, Kinds, Ids
      <3>4. ids'[q].sem = s
        BY <3>2, <3>3, <1>1 DEF Stays, Kinds
      <3>5. Told(s)
        <4>1. ~Raw(s) \/ child[q] = "passed"
          BY <3>1, <3>3 DEF Raw, Pass, Child
        <4> QED BY <3>1, <3>3, <4>1, <1>1, <2>1 DEF SignalsAt, SignalsInv
      <3>6. Told(s)'
        BY <3>5, ToldStays
      <3> QED BY <3>2, <3>3, <3>4, <3>6 DEF Told
    <2> QED BY <2>2, <2>3 DEF SignalsAt
  <1>3. ASSUME NEW s \in Ids, count'[s] > 0 PROVE (Told(s) \/ Raw(s))'
    <2>1. CASE Told(s)
      BY <2>1, ToldStays
    <2>2. CASE \E r \in Runs : Signal(r) /\ Lives(r, "sem") /\ ids[r].sem = s
      <3>1. PICK r \in Runs : Signal(r) /\ Lives(r, "sem") /\ ids[r].sem = s
        BY <2>2
      <3>2. text[ids[r].shm] = "whole" /\ ids[r].shm # 0
        BY <3>1, <1>1 DEF Signal, Parent, SignalsInv, SignalsAt, PlacedAt, Sharing
      <3>3. Told(s)
        BY <3>1, <3>2 DEF Told
      <3> QED BY <3>3, ToldStays
    <2>3. CASE /\ ~Told(s)
               /\ ~\E r \in Runs : Signal(r) /\ Lives(r, "sem") /\ ids[r].sem = s
      <3>1. count[s] > 0 /\ \A r \in Runs : InitSemaphore(r) => ~(Lives(r, "sem") /\ ids[r].sem = s)
        <4>1. ASSUME NEW r \in Runs, InitSemaphore(r), Lives(r, "sem"), ids[r].sem = s PROVE FALSE
          BY <4>1, <1>3 DEF InitSemaphore, TypeOK, Parent
        <4>2. count[s] > 0
          BY <1>3, <2>3 DEF Next, ParentStep, ChildStep, vars, Create, CreateSemaphore,
              InitSemaphore, Fork, WritePipe, AttachParent, WriteBegins, WriteEnds,
              Signal, Detach, SendMessage, Wait, Remove, RemoveSemaphore, OpenFifo,
              ReadPipe, UnlinkFifo, AttachChild, Pass, ReadMemory, ReceiveMessage, Kill,
              TypeOK, kernel
        <4> QED BY <4>1, <4>2
      <3>2. Raw(s)
        BY <3>1, <2>3, <1>1 DEF SignalsInv
      <3> QED BY <3>1, <3>2, <1>1, RawStays
    <2> QED BY <2>1, <2>2, <2>3
  <1> QED BY <1>2, <1>3 DEF SignalsInv

-----------------------------------------------------------------------------
(* What the children say *)

LEMMA SaysStep ==
    ASSUME TypeInv, PipesInv, SignalsInv, SaysWhatWasWritten, [Next]_vars
    PROVE  SaysWhatWasWritten'
  <1> SUFFICES ASSUME NEW q \in Runs, said'[q] # "nothing"
               PROVE  /\ Piping => said'[q] = "whole" \/ parent'[q] = "killed"
                      /\ demo = "sem" => said'[q] = "whole" \/ Confused(q)'
    BY StepStays DEF SaysWhatWasWritten, Stays, Piping
  <1> USE DEF TypeInv, Placed
  <1>1. \/ said'[q] = said[q]
        \/ ReadPipe(q) /\ said'[q] = text[Channel(q)]
        \/ ReadMemory(q) /\ said'[q] = text[ids[q].shm]
        \/ demo = "msg"
    BY CreateIds DEF Next, ParentStep, ChildStep, vars, CreateSemaphore,
        InitSemaphore, Fork, WritePipe, AttachParent, WriteBegins, WriteEnds, Signal,
        Detach, SendMessage, Wait, Remove, RemoveSemaphore, OpenFifo, ReadPipe,
        UnlinkFifo, AttachChild, Pass, ReadMemory, ReceiveMessage, Kill, Child, TypeOK,
        kernel
  <1>2. ASSUME demo = "sem", Confused(q) PROVE Confused(q)'
    <2>1. PICK p \in Runs : ids[q].sem # 0 /\ ids[p].sem = ids[q].sem /\ ids[p].shm # ids[q].shm
      BY <1>2 DEF Confused
    <2>2. ids[p].shm # 0 /\ ids[q].shm # 0
      BY <1>2, <2>1 DEF PlacedAt, Sharing, Kinds
    <2>3. \A k \in {"sem", "shm"} : ids'[p][k] = ids[p][k] /\ ids'[q][k] = ids[q][k]
      BY <2>1, <2>2, StepStays DEF Stays, Kinds
    <2> QED BY <2>1, <2>3 DEF Confused
  <1>3. CASE said'[q] = said[q]
    BY <1>3, <1>2, StepStays DEF SaysWhatWasWritten, Stays, Ended, Piping
  <1>4. CASE ReadPipe(q) /\ said'[q] = text[Channel(q)]
    <2>1. Piping /\ child[q] # "off" /\ (text[Channel(q)] = "whole" \/ parent[q] \in Ended)
      BY <1>4 DEF ReadPipe, Child, AtPipe
    <2>2. text[Channel(q)] = "whole" \/ parent[q] = "killed"
      BY <2>1 DEF PipesInv, PipesAt, Ended
    <2> QED BY <1>4, <2>1, <2>2, StepStays DEF Piping, Stays, Ended
  <1>5. CASE ReadMemory(q) /\ said'[q] = text[ids[q].shm]
    <2>1. Sharing
      BY <1>5 DEF ReadMemory
    <2>2. ASSUME demo = "sem" PROVE said'[q] = "whole" \/ Confused(q)
      <3>1. ids[q].sem # 0 /\ Told(ids[q].sem)
        BY <1>5, <2>2 DEF ReadMemory, Child, SignalsInv, SignalsAt
      <3> QED BY <3>1, <1>5 DEF Told, Confused
    <2> QED BY <2>1, <2>2, <1>2 DEF Sharing, Piping
  <1> QED BY <1>1, <1>3, <1>4, <1>5 DEF Piping

IInv == TypeInv /\ PipesInv /\ SignalsInv /\ SaysWhatWasWritten

\* A child that reads a pipe, or memory behind the semaphore, prints the whole text,
\* for any number of overlapping runs and whatever a killed run has left
\* (01_pipe.c:34, 02_named_pipe.c:48, 04_semaphore.c:59 and 81).
THEOREM ChildrenSayIt == Spec => []SaysWhatWasWritten
  <1>1. Init => IInv
    BY TypeInit, PipesInit, SignalsInit DEF Init, IInv, SaysWhatWasWritten
  <1>2. IInv /\ [Next]_vars => IInv'
    BY TypeStep, PipesStep, SignalsStep, SaysStep DEF IInv
  <1>3. IInv => SaysWhatWasWritten
    BY DEF IInv
  <1> QED BY <1>1, <1>2, <1>3, PTL DEF Spec

-----------------------------------------------------------------------------
(* What is left behind *)

LEMMA CleanInit == Init => CleanInv
  <1> SUFFICES ASSUME Init, NEW k \in Kinds, named[k] # 0
               PROVE  k # "pipe" /\ (k = demo \/ (k = "shm" /\ demo = "sem"))
    BY DEF Init, CleanInv
  <1>1. named[k] \in Left(k)
    BY DEF Init
  <1> QED BY <1>1 DEF Left

\* What a key leads to was there before, or has just been made by a run that is going
\* to remove it.
LEMMA MadeIsCleaned ==
    ASSUME TypeInv, CleanInv, [Next]_vars, NEW k \in Kinds, named'[k] # 0
    PROVE  \/ named'[k] = named[k]
           \/ /\ k # "pipe" /\ (k = demo \/ (k = "shm" /\ demo = "sem"))
              /\ \E q \in Runs : parent'[q] # "off" /\ Cleans(q, k)'
  <1> USE DEF TypeInv, Placed
  <1>1. ASSUME NEW r \in Runs, Create(r), named'[k] # named[k]
        PROVE  /\ k # "pipe" /\ (k = demo \/ (k = "shm" /\ demo = "sem"))
               /\ parent'[r] # "off" /\ Cleans(r, k)'
    <2>1. \/ demo = "sem" /\ parent'[r] = "made" /\ Gets(r, "shm") /\ k = "shm"
          \/ demo \in {"fifo", "shm", "msg"} /\ parent'[r] = "ready" /\ Gets(r, demo) /\ k = demo
      BY <1>1, CreateCases, GetsIds DEF TypeOK, Kinds
    <2>2. ids'[r][k] = named'[k] /\ child'[r] = "off"
      BY <1>1, <2>1, GetsIds, CreateIds DEF PlacedAt, BeforeFork
    <2> QED BY <2>1, <2>2 DEF Cleans
  <1>2. ASSUME NEW r \in Runs, CreateSemaphore(r), named'[k] # named[k]
        PROVE  k = "sem" /\ demo = "sem" /\ parent'[r] # "off" /\ Cleans(r, k)'
    <2>1. k = "sem" /\ demo = "sem"
      BY <1>2, CreateSemaphoreIds DEF PlacedAt
    <2> QED BY <1>2, <2>1, CreateSemaphoreIds DEF Cleans
  <1>3. \/ named'[k] = named[k]
        \/ \E r \in Runs : Create(r) \/ CreateSemaphore(r)
    BY DEF Next, ParentStep, ChildStep, vars, CreateSemaphore, InitSemaphore, Fork,
        WritePipe, AttachParent, WriteBegins, WriteEnds, Signal, Detach, SendMessage,
        Wait, Remove, RemoveSemaphore, OpenFifo, ReadPipe, UnlinkFifo, AttachChild,
        Pass, ReadMemory, ReceiveMessage, Kill, Removes, TypeOK, kernel
  <1> QED BY <1>1, <1>2, <1>3

\* The steps by which a parent comes to its end.
LEMMA EndsBy ==
    ASSUME TypeOK, [Next]_vars, NEW q \in Runs, parent'[q] \in {"last", "done"}
    PROVE  parent'[q] = parent[q] \/ WritePipe(q) \/ Remove(q) \/ RemoveSemaphore(q)
    BY CreateIds DEF Next, ParentStep, ChildStep, vars, CreateSemaphore, InitSemaphore,
        Fork, WritePipe, AttachParent, WriteBegins, WriteEnds, Signal, Detach,
        SendMessage, Wait, Remove, RemoveSemaphore, OpenFifo, ReadPipe, UnlinkFifo,
        AttachChild, Pass, ReadMemory, ReceiveMessage, Kill, Parent, AtPipe, TypeOK,
        kernel

\* A run that will clean up goes on to be one until it does, fails or is killed.
LEMMA CleanerStays ==
    ASSUME TypeInv, CleanInv, [Next]_vars, ~Broken',
           NEW k \in Kinds, named'[k] # 0, named'[k] = named[k],
           NEW q \in Runs, parent[q] # "off", Cleans(q, k)
    PROVE  Cleans(q, k)'
  <1> USE DEF TypeInv, Placed
  <1>1. Stays /\ k # "pipe" /\ (k = demo \/ (k = "shm" /\ demo = "sem"))
    BY StepStays DEF CleanInv
  <1>2. CASE k = "fifo"
    <2>1. ids[q].fifo = named.fifo /\ ids'[q].fifo = named'.fifo
      BY <1>1, <1>2 DEF Cleans, Stays
    <2>2. child'[q] # "done"
      BY <1>1, <1>2, CreateIds DEF Next, ParentStep, ChildStep, vars, CreateSemaphore,
          InitSemaphore, Fork, WritePipe, AttachParent, WriteBegins, WriteEnds, Signal,
          Detach, SendMessage, Wait, Remove, RemoveSemaphore, OpenFifo, ReadPipe,
          UnlinkFifo, AttachChild, Pass, ReadMemory, ReceiveMessage, Kill, Cleans,
          Child, TypeOK, kernel, Sharing, Piping
    <2> QED BY <2>1, <2>2, <1>2 DEF Cleans
  <1>3. CASE k = "sem"
    <2>1. parent[q] = "made" => parent'[q] = "made" \/ ids'[q].sem = named'["sem"]
      <3>1. parent[q] = "made" => \/ parent'[q] \in {"made", "killed"}
                                  \/ CreateSemaphore(q)
        BY CreateIds, CreateSemaphoreIds DEF Next, ParentStep, ChildStep, vars,
            InitSemaphore, Fork, WritePipe, AttachParent, WriteBegins,
            WriteEnds, Signal, Detach, SendMessage, Wait, Remove, RemoveSemaphore,
            OpenFifo, ReadPipe, UnlinkFifo, AttachChild, Pass, ReadMemory,
            ReceiveMessage, Kill, Parent, AtPipe, TypeOK, kernel
      <3> QED BY <3>1, CreateSemaphoreIds DEF Broken
    <2>2. ids[q].sem = named["sem"] => ids'[q].sem = named'["sem"]
      BY <1>1, <1>3 DEF Stays
    <2>3. parent'[q] # "done"
      BY <1>1, <1>3, <2>2, EndsBy
      DEF Cleans, WritePipe, Remove, RemoveSemaphore, Parent, Removes, Lives, TypeOK, Piping
    <2> QED BY <2>1, <2>2, <2>3, <1>3 DEF Cleans
  <1>4. CASE k \notin {"fifo", "sem"}
    <2>1. ids[q][k] = named[k] /\ ids'[q][k] = named'[k] /\ parent[q] \notin {"last", "done"}
      BY <1>1, <1>4 DEF Cleans, Stays
    <2>2. parent'[q] \notin {"last", "done"}
      <3>1. ~WritePipe(q)
        BY <1>1, <1>4 DEF WritePipe, Piping
      <3>2. ~Remove(q)
        BY <1>1, <1>4, <2>1 DEF Remove, Removes, Lives, Parent, TypeOK, Kinds
      <3> QED BY <2>1, <3>1, <3>2, EndsBy DEF RemoveSemaphore, Parent
    <2> QED BY <2>1, <2>2, <1>4 DEF Cleans
  <1> QED BY <1>2, <1>3, <1>4

LEMMA CleanStep == ASSUME TypeInv, CleanInv, [Next]_vars PROVE CleanInv'
  <1> SUFFICES ASSUME NEW k \in Kinds, named'[k] # 0
               PROVE  /\ k # "pipe" /\ (k = demo' \/ (k = "shm" /\ demo' = "sem"))
                      /\ \/ \A q \in Runs : parent'[q] = "off"
                         \/ Broken'
                         \/ \E q \in Runs : parent'[q] # "off" /\ Cleans(q, k)'
    BY DEF CleanInv
  <1>1. Stays
    BY StepStays
  <1>2. CASE named'[k] = named[k]
    <2>1. k # "pipe" /\ (k = demo' \/ (k = "shm" /\ demo' = "sem"))
      BY <1>1, <1>2 DEF CleanInv, Stays
    <2>2. CASE \A q \in Runs : parent[q] = "off"
      <3>1. ASSUME NEW r \in Runs, Create(r), ~Broken' PROVE Cleans(r, k)'
        <4>1. parent'[r] # "failed"
          BY <3>1 DEF Broken
        <4>2. k = "sem" => parent'[r] = "made"
          BY <2>1, <3>1, CreateCases, CreateIds DEF TypeInv, TypeOK
        <4>3. ASSUME k # "sem" PROVE Gets(r, k)
          BY <2>1, <3>1, <4>1, <4>3, CreateCases, CreateIds DEF TypeInv, TypeOK
        <4>4. k # "sem" => ids'[r][k] = named'[k]
          BY <4>3, GetsIds DEF TypeInv
        <4>5. child'[r] = "off" /\ parent'[r] \notin {"last", "done"}
          BY <3>1, CreateIds DEF TypeInv, Placed, PlacedAt, BeforeFork
        <4> QED BY <4>2, <4>4, <4>5 DEF Cleans
      <3>2. \A q \in Runs : child[q] = "off"
        BY <2>2 DEF TypeInv, Placed, PlacedAt, BeforeFork
      <3>3. (\E r \in Runs : Create(r)) \/ UNCHANGED vars
        BY <2>2, <3>2 DEF Next, ParentStep, ChildStep, vars, CreateSemaphore,
            InitSemaphore, Fork, WritePipe, AttachParent, WriteBegins, WriteEnds,
            Signal, Detach, SendMessage, Wait, Remove, RemoveSemaphore, OpenFifo,
            ReadPipe, UnlinkFifo, AttachChild, Pass, ReadMemory, ReceiveMessage, Kill,
            Parent, Child, Ended, AtPipe
      <3>4. UNCHANGED vars => \A q \in Runs : parent'[q] = "off"
        BY <2>2 DEF vars
      <3> QED BY <2>1, <3>1, <3>3, <3>4, CreateIds DEF TypeInv
    <2>3. CASE Broken
      BY <2>1, <2>3, <1>1 DEF Broken, Stays, Ended
    <2>4. CASE \E q \in Runs : parent[q] # "off" /\ Cleans(q, k)
      BY <2>1, <2>4, <1>1, <1>2, CleanerStays DEF Stays
    <2> QED BY <1>2, <2>2, <2>3, <2>4 DEF CleanInv
  <1>3. CASE named'[k] # named[k]
    BY <1>1, <1>3, MadeIsCleaned DEF Stays
  <1> QED BY <1>2, <1>3

\* When every run that was started has ended well, nothing of it is left, nor of the
\* runs before: memory, semaphore, queue or file (02:53, 03:50, 04:68-69, 05:45).
THEOREM NothingIsLeft == Spec => []CleanedUp
  <1>1. TypeInv /\ CleanInv => CleanedUp
    <2> SUFFICES ASSUME TypeInv, CleanInv, NEW p \in Runs, parent[p] = "done",
                        \A r \in Runs : parent[r] \in {"off", "done"} /\ child[r] \in {"off", "done"},
                        NEW k \in Kinds, named[k] # 0
                 PROVE  FALSE
      BY DEF CleanedUp
    <2>1. PICK q \in Runs : parent[q] # "off" /\ Cleans(q, k)
      BY DEF CleanInv, Broken
    <2>2. parent[q] = "done" /\ child[q] = "done"
      BY <2>1 DEF TypeInv, Placed, PlacedAt, BeforeFork
    <2> QED BY <2>1, <2>2 DEF Cleans
  <1>2. Init => TypeInv /\ CleanInv
    BY TypeInit, CleanInit
  <1>3. TypeInv /\ CleanInv /\ [Next]_vars => (TypeInv /\ CleanInv)'
    BY TypeStep, CleanStep
  <1> QED BY <1>1, <1>2, <1>3, PTL DEF Spec

-----------------------------------------------------------------------------
(* Nobody waits in vain *)

LEMMA WaitInit == Init => WaitInv
  <1> SUFFICES ASSUME Init PROVE WaitInv
    OBVIOUS
  <1>1. \A r \in Runs : parent[r] = "off" /\ child[r] = "off"
    BY DEF Init
  <1>2. \A r \in Runs, s \in Ids : ids[r].sem # s /\ ids[r].msg # s
    BY ObjectsAssumption DEF Init, Ids, Kinds
  <1> QED BY <1>1, <1>2 DEF WaitInv, WaitsAt, SignalThere, MessageThere, Signalled

\* A key leads where it led, nowhere, or to a new object.
LEMMA NamedBy ==
    ASSUME TypeInv, [Next]_vars, NEW k \in Kinds
    PROVE  named'[k] = named[k] \/ named'[k] = 0 \/ named'[k] = made + 1
  <1> USE DEF TypeInv, Placed
  <1>1. ASSUME NEW r \in Runs, NEW l \in Kinds, Gets(r, l)
        PROVE  named'[k] = named[k] \/ named'[k] = made + 1
    BY <1>1 DEF Gets, TypeOK
  <1>2. ASSUME NEW r \in Runs, Create(r)
        PROVE  named'[k] = named[k] \/ named'[k] = made + 1
    BY <1>1, <1>2, CreateCases DEF Kinds
  <1>3. ASSUME NEW r \in Runs, CreateSemaphore(r)
        PROVE  named'[k] = named[k] \/ named'[k] = made + 1
    BY <1>1, <1>3 DEF CreateSemaphore, Kinds
  <1>4. ASSUME NEW r \in Runs, Remove(r) \/ RemoveSemaphore(r) \/ UnlinkFifo(r)
        PROVE  named'[k] = named[k] \/ named'[k] = 0
    BY <1>4 DEF Remove, RemoveSemaphore, UnlinkFifo, Removes, TypeOK
  <1>5. \/ named' = named
        \/ \E r \in Runs : Create(r) \/ CreateSemaphore(r) \/ Remove(r) \/ RemoveSemaphore(r) \/ UnlinkFifo(r)
    BY DEF Next, ParentStep, ChildStep, vars, InitSemaphore, Fork,
        WritePipe, AttachParent, WriteBegins, WriteEnds, Signal, Detach, SendMessage,
        Wait, OpenFifo, ReadPipe, AttachChild, Pass, ReadMemory, ReceiveMessage, Kill, kernel
  <1> QED BY <1>2, <1>3, <1>4, <1>5

\* An object that was removed does not come back.
LEMMA GoneStays ==
    ASSUME TypeInv, [Next]_vars, NEW r \in Runs, NEW k \in Kinds, ids[r][k] # 0, ~Lives(r, k)
    PROVE  ~Lives(r, k)'
  <1>1. ids'[r][k] = ids[r][k] /\ named[k] # ids[r][k]
    BY StepStays DEF Stays, Lives
  <1>2. ids[r][k] # made + 1
    <2>1. ids[r][k] \in 0..made /\ made \in Nat
      BY DEF TypeInv, TypeOK
    <2> QED BY <2>1
  <1> QED BY <1>1, <1>2, NamedBy DEF Lives

AttachedParent == {"attached", "writing", "written", "signalled"}
AttachedChild == {"attached", "passed"}

\* Who has the memory attached has attached it in this step, or had it attached.
LEMMA AttachedBy ==
    ASSUME TypeInv, [Next]_vars, NEW q \in Runs
    PROVE  /\ parent'[q] \in AttachedParent => parent[q] \in AttachedParent \/ (AttachParent(q) /\ Attachable(q))
           /\ child'[q] \in AttachedChild => child[q] \in AttachedChild \/ (AttachChild(q) /\ Attachable(q))
  <1> USE DEF TypeInv, TypeOK, AttachedParent, AttachedChild
  <1>1. parent'[q] \in AttachedParent => parent[q] \in AttachedParent \/ AttachParent(q)
    BY CreateIds DEF Next, ParentStep, ChildStep, vars, CreateSemaphore, InitSemaphore,
        Fork, WritePipe, WriteBegins, WriteEnds, Signal, Detach,
        SendMessage, Wait, Remove, RemoveSemaphore, OpenFifo, ReadPipe, UnlinkFifo,
        AttachChild, AttachParent, Pass, ReadMemory, ReceiveMessage, Kill, Parent, kernel
  <1>2. child'[q] \in AttachedChild => child[q] \in AttachedChild \/ AttachChild(q)
    BY CreateIds DEF Next, ParentStep, ChildStep, vars, CreateSemaphore, InitSemaphore,
        Fork, WritePipe, WriteBegins, WriteEnds, Signal, Detach,
        SendMessage, Wait, Remove, RemoveSemaphore, OpenFifo, ReadPipe, UnlinkFifo,
        AttachChild, AttachParent, Pass, ReadMemory, ReceiveMessage, Kill, Child, kernel
  <1>3. AttachParent(q) /\ parent'[q] \in AttachedParent => Attachable(q)
    BY DEF AttachParent, Parent
  <1>4. AttachChild(q) /\ child'[q] \in AttachedChild => Attachable(q)
    BY DEF AttachChild, Child
  <1> QED BY <1>1, <1>2, <1>3, <1>4

\* A memory that cannot be attached any more stays so.
LEMMA UnattachableStays ==
    ASSUME TypeInv, [Next]_vars, Sharing, NEW r \in Runs, ids[r].shm # 0, ~Attachable(r)
    PROVE  ~Attachable(r)'
  <1> USE DEF AttachedParent, AttachedChild
  <1>1. ~Lives(r, "shm")' /\ ids'[r].shm = ids[r].shm
    BY GoneStays, StepStays DEF Attachable, Stays, Kinds
  <1>2. ASSUME NEW q \in Runs, ids'[q].shm = ids'[r].shm,
               parent'[q] \in AttachedParent \/ child'[q] \in AttachedChild
        PROVE  FALSE
    <2>1. ids[q].shm # 0 => ids[q].shm = ids[r].shm
      BY <1>1, <1>2, StepStays DEF Stays, Kinds
    <2>2. parent[q] \in AttachedParent \/ child[q] \in AttachedChild \/ AttachParent(q) \/ AttachChild(q)
      BY <1>2, AttachedBy
    <2>3. parent[q] # "off"
      BY <2>2 DEF TypeInv, Placed, PlacedAt, BeforeFork, AttachParent, AttachChild, Parent, Child
    <2>4. ids[q].shm = ids[r].shm
      BY <2>1, <2>3 DEF TypeInv, Placed, PlacedAt
    <2>5. ~Attachable(q)
      BY <2>4 DEF Attachable, Lives
    <2>6. parent[q] \notin AttachedParent /\ child[q] \notin AttachedChild
      BY <2>4 DEF Attachable
    <2> QED BY <1>2, <2>5, <2>6, AttachedBy
  <1> QED BY <1>1, <1>2 DEF Attachable

LEMMA HurtStays == ASSUME [Next]_vars, hurt PROVE hurt'
  BY DEF Next, ParentStep, ChildStep, vars, Create, CreateSemaphore, InitSemaphore, Fork,
      WritePipe, AttachParent, WriteBegins, WriteEnds, Signal, Detach, SendMessage, Wait,
      Remove, RemoveSemaphore, OpenFifo, ReadPipe, UnlinkFifo, AttachChild, Pass,
      ReadMemory, ReceiveMessage, Kill

\* The steps by which a process gets where WaitsAt looks for it.
LEMMA GetsThere ==
    ASSUME TypeInv, [Next]_vars, ~hurt', NEW q \in Runs
    PROVE  /\ parent'[q] = "killed" => parent[q] = "killed" \/ WritePipe(q)
           /\ parent'[q] = "removing" => parent[q] = "removing" \/ Wait(q)
           /\ parent'[q] = "last" => parent[q] = "last" \/ Remove(q)
           /\ parent'[q] = "done" => parent[q] = "done" \/ WritePipe(q) \/ Remove(q) \/ RemoveSemaphore(q)
           /\ parent'[q] = "failed" => \/ parent[q] = "failed" \/ Create(q) \/ InitSemaphore(q)
                                       \/ AttachParent(q) \/ Signal(q) \/ SendMessage(q) \/ Remove(q)
           /\ child'[q] = "off" <=> child[q] = "off" /\ ~Fork(q)
  <1> USE DEF TypeInv, TypeOK
  <1>1. ~hurt
    BY HurtStays
  <1>2. /\ parent'[q] = "killed" => parent[q] = "killed" \/ WritePipe(q)
        /\ parent'[q] = "removing" => parent[q] = "removing" \/ Wait(q)
        /\ parent'[q] = "last" => parent[q] = "last" \/ Remove(q)
        /\ parent'[q] = "done" => parent[q] = "done" \/ WritePipe(q) \/ Remove(q) \/ RemoveSemaphore(q)
    BY CreateIds DEF Next, ParentStep, ChildStep, vars, CreateSemaphore, InitSemaphore,
        Fork, AttachParent, WriteBegins, WriteEnds, Signal, Detach, SendMessage,
        Wait, WritePipe, Remove, RemoveSemaphore, OpenFifo, ReadPipe, UnlinkFifo,
        AttachChild, Pass, ReadMemory, ReceiveMessage, Kill, Parent, AtPipe, kernel
  <1>3. parent'[q] = "failed" => \/ parent[q] = "failed" \/ Create(q) \/ InitSemaphore(q)
                                 \/ AttachParent(q) \/ Signal(q) \/ SendMessage(q) \/ Remove(q)
    BY <1>1, CreateIds DEF Next, ParentStep, ChildStep, vars, CreateSemaphore, InitSemaphore,
        Fork, AttachParent, WriteBegins, WriteEnds, Signal, Detach, SendMessage,
        Wait, WritePipe, Remove, RemoveSemaphore, OpenFifo, ReadPipe, UnlinkFifo,
        AttachChild, Pass, ReadMemory, ReceiveMessage, Kill, Parent, AtPipe, kernel
  <1>4. child'[q] = "off" <=> child[q] = "off" /\ ~Fork(q)
    BY <1>1, CreateIds DEF Next, ParentStep, ChildStep, vars, CreateSemaphore, InitSemaphore,
        Fork, AttachParent, WriteBegins, WriteEnds, Signal, Detach, SendMessage,
        Wait, WritePipe, Remove, RemoveSemaphore, OpenFifo, ReadPipe, UnlinkFifo,
        AttachChild, Pass, ReadMemory, ReceiveMessage, Kill, Parent, Child, AtPipe, kernel
  <1> QED BY <1>2, <1>3, <1>4

LEMMA FifoTogether ==
    ASSUME TypeInv, [Next]_vars, ~hurt', demo = "fifo", NEW q \in Runs,
           parent[q] = "forked" <=> child[q] = "forked"
    PROVE  parent'[q] = "forked" <=> child'[q] = "forked"
  BY CreateIds DEF TypeInv, TypeOK, Next, ParentStep, ChildStep, vars, CreateSemaphore, InitSemaphore,
      Fork, AttachParent, WriteBegins, WriteEnds, Signal, Detach, SendMessage,
      Wait, WritePipe, Remove, RemoveSemaphore, OpenFifo, ReadPipe, UnlinkFifo,
      AttachChild, Pass, ReadMemory, ReceiveMessage, Kill, Parent, Child, AtPipe, kernel,
      Piping, Sharing, Placed, PlacedAt, BeforeFork

LEMMA WaitsStep ==
    ASSUME TypeInv, [Next]_vars, ~hurt', NEW q \in Runs, WaitsAt(q)
    PROVE  WaitsAt(q)'
  <1> USE DEF TypeInv, TypeOK
  <1>1. Stays /\ PlacedAt(q)
    BY StepStays DEF Placed
  <1>2. demo' = demo /\ (Piping' <=> Piping)
    BY <1>1 DEF Stays, Piping
  <1>3. ~Piping => parent'[q] # "killed"
    BY GetsThere DEF WaitsAt, WritePipe
  <1>4. demo = "fifo" => (parent'[q] = "forked" <=> child'[q] = "forked")
    BY FifoTogether DEF WaitsAt
  <1>5. ~Piping /\ parent'[q] \in {"removing", "last", "done"} => child'[q] \in Ended
    <2>1. ASSUME ~Piping, parent'[q] \in {"removing", "last", "done"} PROVE child[q] \in Ended
      BY <2>1, GetsThere DEF WaitsAt, WritePipe, Wait, Remove, RemoveSemaphore, Parent
    <2> QED BY <1>1, <2>1 DEF Stays
  <1>6. parent'[q] = "last" => demo = "sem"
    BY GetsThere DEF WaitsAt, Remove, Parent
  <1>12. demo = "msg" => parent'[q] \notin {"attached", "writing", "written"}
    <2>1. parent'[q] \in {"attached", "writing", "written"} =>
             parent[q] \in {"attached", "writing", "written"} \/ AttachParent(q)
      BY CreateIds DEF Next, ParentStep, ChildStep, vars, CreateSemaphore, InitSemaphore,
        Fork, WriteBegins, WriteEnds, Signal, Detach, SendMessage,
        Wait, WritePipe, Remove, RemoveSemaphore, OpenFifo, ReadPipe, UnlinkFifo,
        AttachChild, Pass, ReadMemory, ReceiveMessage, Kill, AttachParent, Parent, AtPipe, kernel
    <2> QED BY <2>1 DEF WaitsAt, AttachParent, Sharing
  <1>7. demo = "msg" /\ parent'[q] # "off" => ids'[q].msg # 0
    <2>1. demo = "msg" /\ parent[q] = "off" /\ parent'[q] # "off" => Create(q)
      BY CreateIds DEF Next, ParentStep, ChildStep, vars, CreateSemaphore, InitSemaphore,
        Fork, AttachParent, WriteBegins, WriteEnds, Signal, Detach, SendMessage,
        Wait, WritePipe, Remove, RemoveSemaphore, OpenFifo, ReadPipe, UnlinkFifo,
        AttachChild, Pass, ReadMemory, ReceiveMessage, Kill, Parent, AtPipe, kernel
    <2>2. demo = "msg" /\ Create(q) => ids'[q].msg # 0
      BY CreateCases, GetsIds DEF Kinds
    <2> QED BY <1>1, <2>1, <2>2 DEF WaitsAt, Stays, Kinds
  <1>8. demo = "sem" /\ parent'[q] \notin {"off", "made"} => ids'[q].sem # 0
    <2>1. demo = "sem" /\ parent[q] \in {"off", "made"} /\ parent'[q] \notin {"off", "made"} => CreateSemaphore(q)
      BY HurtStays, CreateIds, CreateCases DEF Next, ParentStep, ChildStep, vars, CreateSemaphore, InitSemaphore,
        Fork, AttachParent, WriteBegins, WriteEnds, Signal, Detach, SendMessage,
        Wait, WritePipe, Remove, RemoveSemaphore, OpenFifo, ReadPipe, UnlinkFifo,
        AttachChild, Pass, ReadMemory, ReceiveMessage, Kill, Parent, AtPipe, kernel
    <2>2. CreateSemaphore(q) => ids'[q].sem # 0
      BY CreateSemaphoreIds
    <2> QED BY <1>1, <2>1, <2>2 DEF WaitsAt, Stays, Kinds
  <1>9. demo = "msg" /\ parent'[q] \in {"failed", "done"} /\ child'[q] # "off" => ~Lives(q, "msg")'
    <2> SUFFICES ASSUME demo = "msg", parent'[q] \in {"failed", "done"}, child'[q] # "off"
                 PROVE  ~Lives(q, "msg")'
      OBVIOUS
    <2>1. ~Piping /\ ~Sharing
      BY DEF Piping, Sharing
    <2>2. CASE parent[q] \in {"failed", "done"}
      <3>1. child[q] # "off"
        BY <2>2, GetsThere DEF Fork, Parent
      <3>2. ~Lives(q, "msg") /\ ids[q].msg # 0
        BY <2>2, <3>1 DEF WaitsAt
      <3> QED BY <3>2, GoneStays DEF Kinds
    <2>3. CASE SendMessage(q) /\ parent'[q] = "failed"
      BY <2>3 DEF SendMessage, Parent, Lives
    <2>4. CASE Remove(q)
      <3>1. named' = IF Lives(q, "msg") THEN [named EXCEPT !["msg"] = 0] ELSE named
        BY <2>4 DEF Remove, Removes
      <3>2. ids' = ids
        BY <2>4 DEF Remove
      <3> QED BY <3>1, <3>2 DEF Lives, Kinds
    <2>5. ~Create(q) /\ ~InitSemaphore(q) /\ ~AttachParent(q) /\ ~Signal(q) /\ ~WritePipe(q) /\ ~RemoveSemaphore(q)
      <3>1. ~Create(q)
        BY CreateIds, <1>1 DEF PlacedAt, BeforeFork
      <3>2. ~InitSemaphore(q)
        BY <1>1 DEF InitSemaphore, Parent, PlacedAt
      <3>3. ~RemoveSemaphore(q)
        BY DEF RemoveSemaphore, Parent, WaitsAt
      <3> QED BY <2>1, <3>1, <3>2, <3>3 DEF AttachParent, Signal, WritePipe, Sharing
    <2> QED BY <2>2, <2>3, <2>4, <2>5, GetsThere
  <1>10. demo = "sem" /\ parent'[q] = "done" => ~Lives(q, "sem")'
    <2> SUFFICES ASSUME demo = "sem", parent'[q] = "done" PROVE ~Lives(q, "sem")'
      OBVIOUS
    <2>1. CASE parent[q] = "done"
      BY <2>1, GoneStays DEF WaitsAt, Kinds
    <2>2. CASE RemoveSemaphore(q)
      <3>1. named' = IF Lives(q, "sem") THEN [named EXCEPT !["sem"] = 0] ELSE named
        BY <2>2 DEF RemoveSemaphore, Removes
      <3>2. ids' = ids
        BY <2>2 DEF RemoveSemaphore
      <3> QED BY <3>1, <3>2 DEF Lives, Kinds
    <2>3. ~WritePipe(q) /\ ~Remove(q)
      BY DEF WritePipe, Piping, Remove, Parent
    <2> QED BY <2>1, <2>2, <2>3, GetsThere
  <1>11. demo = "sem" /\ parent'[q] = "failed" => ~Lives(q, "sem")' \/ ~Attachable(q)'
    <2> SUFFICES ASSUME demo = "sem", parent'[q] = "failed"
                 PROVE  ~Lives(q, "sem")' \/ ~Attachable(q)'
      OBVIOUS
    <2>1. Sharing /\ ~Piping
      BY DEF Sharing, Piping
    <2>2. ~Create(q) /\ ~SendMessage(q) /\ ~Remove(q)
      <3>1. ~Create(q)
        BY CreateCases DEF Parent, Create
      <3>2. ~Remove(q)
        BY DEF Remove, Parent
      <3> QED BY <3>1, <3>2 DEF SendMessage
    <2>3. CASE parent[q] = "failed"
      BY <2>1, <2>3, <1>1, GoneStays, UnattachableStays DEF WaitsAt, Kinds, PlacedAt
    <2>4. CASE InitSemaphore(q) \/ Signal(q)
      BY <2>4 DEF InitSemaphore, Signal, Parent, Lives
    <2>5. CASE AttachParent(q)
      <3>1. ~Attachable(q) /\ ids[q].shm # 0
        BY <2>1, <2>5, <1>1 DEF AttachParent, Parent, PlacedAt
      <3> QED BY <2>1, <3>1, UnattachableStays
    <2> QED BY <2>2, <2>3, <2>4, <2>5, GetsThere
  <1> QED BY <1>2, <1>3, <1>4, <1>5, <1>6, <1>7, <1>8, <1>9, <1>10, <1>11, <1>12 DEF WaitsAt

\* What takes a signal or a message away.
LEMMA CountBy ==
    ASSUME TypeInv, [Next]_vars, NEW s \in Ids
    PROVE  \/ count'[s] >= count[s]
           \/ \E q \in Runs :
                 \/ demo = "sem" /\ ids[q].sem = s /\ Pass(q) /\ child'[q] = "passed"
                 \/ ids[q].sem = s /\ InitSemaphore(q) /\ parent'[q] = "ready"
                 \/ demo = "msg" /\ ids[q].msg = s /\ ReceiveMessage(q) /\ child'[q] = "done"
  <1> USE DEF TypeInv, TypeOK
  <1>0. count[s] \in Nat
    OBVIOUS
  <1>1. ASSUME NEW q \in Runs, Pass(q), count'[s] # count[s]
        PROVE  demo = "sem" /\ ids[q].sem = s /\ child'[q] = "passed"
    BY <1>1 DEF Pass, Child, Lives
  <1>2. ASSUME NEW q \in Runs, InitSemaphore(q), count'[s] # count[s]
        PROVE  ids[q].sem = s /\ parent'[q] = "ready"
    BY <1>2 DEF InitSemaphore, Parent, Lives
  <1>3. ASSUME NEW q \in Runs, ReceiveMessage(q), count'[s] # count[s]
        PROVE  demo = "msg" /\ ids[q].msg = s /\ child'[q] = "done"
    BY <1>3 DEF ReceiveMessage, Child, Lives
  <1>4. ASSUME NEW q \in Runs, Signal(q) \/ SendMessage(q) PROVE count'[s] >= count[s]
    BY <1>0, <1>4 DEF Signal, SendMessage
  <1>5. \/ count' = count
        \/ \E q \in Runs : Pass(q) \/ InitSemaphore(q) \/ ReceiveMessage(q) \/ Signal(q) \/ SendMessage(q)
    BY CreateIds, CreateSemaphoreIds DEF Next, ParentStep, ChildStep, vars,
        Fork, AttachParent, WriteBegins, WriteEnds, Detach,
        Wait, WritePipe, Remove, RemoveSemaphore, OpenFifo, ReadPipe, UnlinkFifo,
        AttachChild, ReadMemory, Kill, kernel
  <1> QED BY <1>0, <1>1, <1>2, <1>3, <1>4, <1>5

\* A parent has signalled in this step, or before; a child that has passed stays so.
LEMMA SignalledBy ==
    ASSUME TypeInv, [Next]_vars, ~hurt', NEW q \in Runs
    PROVE  /\ parent'[q] \in Signalled =>
                 parent[q] \in Signalled \/ (demo # "sem" /\ Detach(q)) \/ Piping \/ Signal(q) \/ SendMessage(q)
           /\ child[q] \in {"passed", "done"} => child'[q] \in {"passed", "done"}
  <1> USE DEF TypeInv, TypeOK
  <1>1. ~hurt
    BY HurtStays
  <1>2. parent'[q] \in Signalled =>
           parent[q] \in Signalled \/ (demo # "sem" /\ Detach(q)) \/ Piping \/ Signal(q) \/ SendMessage(q)
    <2>1. /\ parent'[q] = "signalled" => parent[q] = "signalled" \/ Signal(q)
          /\ parent'[q] = "waiting" => parent[q] = "waiting" \/ Detach(q) \/ SendMessage(q)
      BY CreateIds, CreateSemaphoreIds DEF Next, ParentStep, ChildStep, vars, InitSemaphore,
        Fork, AttachParent, WriteBegins, WriteEnds, Signal, Detach, SendMessage,
        Wait, WritePipe, Remove, RemoveSemaphore, OpenFifo, ReadPipe, UnlinkFifo,
        AttachChild, Pass, ReadMemory, ReceiveMessage, Kill, Parent, AtPipe, kernel
    <2>2. Detach(q) => parent[q] = "signalled" \/ demo # "sem"
      BY DEF Detach, Parent
    <2>3. Wait(q) => parent[q] = "waiting"
      BY DEF Wait, Parent
    <2>4. Remove(q) => parent[q] = "removing"
      BY DEF Remove, Parent
    <2>5. RemoveSemaphore(q) => parent[q] = "last"
      BY DEF RemoveSemaphore, Parent
    <2>6. WritePipe(q) => Piping
      BY DEF WritePipe
    <2> HIDE DEF TypeInv, TypeOK
    <2>7. /\ parent'[q] = "removing" => parent[q] = "removing" \/ Wait(q)
          /\ parent'[q] = "last" => parent[q] = "last" \/ Remove(q)
          /\ parent'[q] = "done" => parent[q] = "done" \/ WritePipe(q) \/ Remove(q) \/ RemoveSemaphore(q)
      BY GetsThere
    <2> QED BY <2>1, <2>2, <2>3, <2>4, <2>5, <2>6, <2>7 DEF Signalled
  <1>3. child[q] \in {"passed", "done"} => child'[q] \in {"passed", "done"}
    BY <1>1, CreateIds, CreateSemaphoreIds DEF Next, ParentStep, ChildStep, vars, InitSemaphore,
        Fork, AttachParent, WriteBegins, WriteEnds, Signal, Detach, SendMessage,
        Wait, WritePipe, Remove, RemoveSemaphore, OpenFifo, ReadPipe, UnlinkFifo,
        AttachChild, Pass, ReadMemory, ReceiveMessage, Kill, Parent, Child, AtPipe, kernel
  <1> QED BY <1>2, <1>3

LEMMA SignalStep ==
    ASSUME TypeInv, WaitInv, [Next]_vars, ~hurt', demo = "sem", NEW s \in Ids
    PROVE  SignalThere(s)'
  <1> SUFFICES ASSUME NEW r \in Runs, ids'[r].sem = s,
                      \A q \in Runs : ids'[q].sem = s =>
                          parent'[q] \in Signalled /\ child'[q] \notin {"passed", "done"}
               PROVE  count'[s] > 0
    BY DEF SignalThere
  <1>1. ~hurt /\ SignalThere(s) /\ (\A q \in Runs : WaitsAt(q)) /\ count[s] \in Nat /\ s # 0
    <2>1. ~hurt
      BY HurtStays
    <2>2. count[s] \in Nat
      BY DEF TypeInv, TypeOK
    <2>3. s # 0
      BY ObjectsAssumption DEF Ids
    <2> QED BY <2>1, <2>2, <2>3 DEF WaitInv
  <1>2. \A q \in Runs : ids[q].sem = s => ids'[q].sem = s
    BY <1>1, StepStays DEF Stays, Kinds
  <1>3. CASE \E q \in Runs : Signal(q) /\ ids[q].sem = s
    <2>1. PICK q \in Runs : Signal(q) /\ ids[q].sem = s
      BY <1>3
    <2>2. parent'[q] # "failed"
      BY <1>2, <2>1 DEF Signalled
    <2>3. count' = [count EXCEPT ![s] = @ + 1]
      BY <2>1, <2>2 DEF Signal, Parent, TypeInv, TypeOK
    <2> QED BY <1>1, <2>3 DEF TypeInv, TypeOK
  <1>4. CASE \A q \in Runs : ids[q].sem = s => ~Signal(q)
    <2>1. ASSUME NEW q \in Runs, ids[q].sem = s
          PROVE  parent[q] \in Signalled /\ child[q] \notin {"passed", "done"}
      BY <1>2, <1>4, <2>1, SignalledBy DEF SendMessage, Piping
    <2>2. ids[r].sem = s
      <3>1. parent'[r] \in Signalled
        OBVIOUS
      <3>2. parent[r] \in Signalled \/ Signal(r)
        BY <3>1, SignalledBy DEF SendMessage, Piping
      <3>3. ids[r].sem # 0
        BY <1>1, <3>2 DEF WaitsAt, Signal, Parent, Signalled
      <3> QED BY <3>3, StepStays DEF Stays, Kinds
    <2>3. count[s] > 0
      BY <1>1, <2>1, <2>2 DEF SignalThere
    <2>4. count'[s] >= count[s]
      BY <1>2, CountBy DEF Signalled
    <2>5. count'[s] \in Nat
      BY TypeStep DEF TypeInv, TypeOK
    <2> QED BY <1>1, <2>3, <2>4, <2>5
  <1> QED BY <1>3, <1>4

LEMMA MessageStep ==
    ASSUME TypeInv, WaitInv, [Next]_vars, ~hurt', demo = "msg", NEW s \in Ids
    PROVE  MessageThere(s)'
  <1> SUFFICES ASSUME NEW r \in Runs, ids'[r].msg = s, parent'[r] \in Signalled,
                      \A q \in Runs : ids'[q].msg = s => child'[q] # "done"
               PROVE  count'[s] > 0
    BY DEF MessageThere
  <1>1. ~hurt /\ MessageThere(s) /\ (\A q \in Runs : WaitsAt(q)) /\ count[s] \in Nat /\ s # 0
    <2>1. ~hurt
      BY HurtStays
    <2>2. count[s] \in Nat
      BY DEF TypeInv, TypeOK
    <2>3. s # 0
      BY ObjectsAssumption DEF Ids
    <2> QED BY <2>1, <2>2, <2>3 DEF WaitInv
  <1>2. \A q \in Runs : ids[q].msg = s => ids'[q].msg = s
    BY <1>1, StepStays DEF Stays, Kinds
  <1>3. parent[r] \in Signalled \/ SendMessage(r)
    <2>1. ~Detach(r)
      BY <1>1 DEF Detach, Parent, WaitsAt
    <2> QED BY <2>1, SignalledBy DEF Signal, Piping
  <1>4. ids[r].msg = s
    <2>1. ids[r].msg # 0
      BY <1>1, <1>3 DEF WaitsAt, SendMessage, Parent, Signalled
    <2> QED BY <2>1, StepStays DEF Stays, Kinds
  <1>5. CASE SendMessage(r)
    <2>1. count' = [count EXCEPT ![s] = @ + 1]
      BY <1>4, <1>5 DEF SendMessage, Parent, TypeInv, TypeOK, Signalled
    <2> QED BY <1>1, <2>1 DEF TypeInv, TypeOK
  <1>6. CASE parent[r] \in Signalled
    <2>1. \A q \in Runs : ids[q].msg = s => child[q] # "done"
      BY <1>2, StepStays DEF Stays, Ended
    <2>2. count[s] > 0
      BY <1>1, <1>4, <1>6, <2>1 DEF MessageThere
    <2>3. count'[s] >= count[s]
      BY <1>2, CountBy DEF TypeInv, Placed, PlacedAt, InitSemaphore, Parent
    <2>4. count'[s] \in Nat
      BY TypeStep DEF TypeInv, TypeOK
    <2> QED BY <1>1, <2>2, <2>3, <2>4
  <1> QED BY <1>3, <1>5, <1>6

LEMMA WaitStep == ASSUME TypeInv, WaitInv, [Next]_vars PROVE WaitInv'
  <1> SUFFICES ASSUME ~hurt' PROVE WaitInv'
    BY DEF WaitInv
  <1>1. ~hurt /\ demo' = demo
    BY HurtStays, StepStays DEF Stays
  <1>2. \A r \in Runs : WaitsAt(r)'
    BY <1>1, WaitsStep DEF WaitInv
  <1>3. demo = "sem" => \A s \in Ids : SignalThere(s)'
    BY SignalStep
  <1>4. demo = "msg" => \A s \in Ids : MessageThere(s)'
    BY MessageStep
  <1> QED BY <1>1, <1>2, <1>3, <1>4 DEF WaitInv

\* As long as something runs and nobody was killed, somebody can go on.  Were it
\* otherwise, every parent that runs would wait for a child that waits; but then
\* all of those at its semaphore have signalled and none has passed, or one of
\* those at its queue has sent and none has received.
THEOREM SomebodyGoesOn == Spec => []NobodyWaitsInVain
  <1>1. ASSUME TypeInv, PipesInv, WaitInv PROVE NobodyWaitsInVain
    <2> SUFFICES ASSUME ~hurt, \A q \in Runs : ~Confused(q), \A q \in Runs : ~CanGoOn(q), Running
                 PROVE  FALSE
      BY DEF NobodyWaitsInVain
    <2>1. \A q \in Runs : WaitsAt(q) /\ PlacedAt(q) /\ (Piping => PipesAt(q))
      BY <1>1 DEF WaitInv, TypeInv, Placed, PipesInv
    <2>2. ASSUME NEW q \in Runs, parent[q] \notin Ended \cup {"off"}
          PROVE  ~Piping /\ parent[q] = "waiting" /\ child[q] \notin Ended \cup {"off"}
      <3>1. ParentWaits(q)
        BY <2>2 DEF CanGoOn
      <3>2. parent[q] = "waiting" /\ child[q] \notin Ended
        BY <2>1, <3>1 DEF ParentWaits, WaitsAt
      <3>3. child[q] # "off"
        BY <2>1, <3>2 DEF PlacedAt, BeforeFork
      <3>4. ~Piping
        BY <2>1, <3>2 DEF PipesAt
      <3> QED BY <3>2, <3>3, <3>4
    <2>3. ASSUME NEW q \in Runs, child[q] \notin Ended \cup {"off"}
          PROVE  \/ demo = "sem" /\ child[q] = "attached" /\ Lives(q, "sem") /\ count[ids[q].sem] = 0
                 \/ demo = "msg" /\ child[q] = "forked" /\ Lives(q, "msg") /\ count[ids[q].msg] = 0
      <3>1. ChildWaits(q)
        BY <2>3 DEF CanGoOn
      <3>2. parent[q] # "off"
        BY <2>1, <2>3 DEF PlacedAt, BeforeFork
      <3>3. Piping => parent[q] \in Ended
        BY <2>2, <3>2
      <3>4. demo = "fifo" => Piping
        BY DEF Piping
      <3> QED BY <2>1, <3>1, <3>3, <3>4 DEF ChildWaits, WaitsAt, Ended
    <2>4. PICK r \in Runs : child[r] \notin Ended \cup {"off"}
      BY <2>2 DEF Running
    <2>5. ASSUME demo = "sem", child[r] = "attached", Lives(r, "sem"), count[ids[r].sem] = 0
          PROVE  FALSE
      <3>1. ASSUME NEW q \in Runs, ids[q].sem = ids[r].sem
            PROVE  parent[q] \in Signalled /\ child[q] \notin {"passed", "done"}
        <4>1. Lives(q, "sem") /\ ids[q].sem # 0 /\ ~Piping /\ Sharing
          BY <2>5, <3>1 DEF Lives, Piping, Sharing
        <4>2. parent[q] \notin {"off", "made"}
          BY <2>1, <2>5, <4>1 DEF PlacedAt, Kinds
        <4>3. ids[q].shm = ids[r].shm
          BY <3>1, <4>1 DEF Confused
        <4>4. Attachable(q)
          BY <2>5, <4>3 DEF Attachable
        <4>5. parent[q] # "failed"
          BY <2>1, <2>5, <4>1, <4>4 DEF WaitsAt
        <4>6. parent[q] # "done" /\ parent[q] # "killed"
          BY <2>1, <2>5, <4>1 DEF WaitsAt
        <4>7. parent[q] = "waiting" /\ child[q] \notin Ended \cup {"off"}
          BY <2>2, <4>2, <4>5, <4>6 DEF Ended
        <4>8. child[q] = "attached"
          BY <2>3, <2>5, <4>7
        <4> QED BY <4>7, <4>8 DEF Signalled
      <3>2. ids[r].sem \in Ids
        BY <1>1, <2>5, LivesInIds DEF TypeInv, Kinds
      <3> QED BY <1>1, <2>5, <3>1, <3>2 DEF WaitInv, SignalThere
    <2>6. ASSUME demo = "msg", child[r] = "forked", Lives(r, "msg"), count[ids[r].msg] = 0
          PROVE  FALSE
      <3>1. ASSUME NEW q \in Runs, ids[q].msg = ids[r].msg
            PROVE  /\ child[q] # "done"
                   /\ q = r => parent[q] \in Signalled
        <4>1. Lives(q, "msg") /\ ids[q].msg # 0 /\ ~Piping
          BY <2>6, <3>1 DEF Lives, Piping
        <4>2. parent[q] # "off" /\ parent[q] # "killed"
          BY <2>1, <2>6, <4>1 DEF PlacedAt, Kinds, WaitsAt
        <4>3. child[q] # "off" => parent[q] \notin {"failed", "done"}
          BY <2>1, <2>6, <4>1 DEF WaitsAt
        <4>4. child[q] # "off" => parent[q] = "waiting" /\ child[q] \notin Ended
          BY <2>2, <4>2, <4>3 DEF Ended
        <4> QED BY <2>6, <4>4 DEF Signalled, Ended
      <3>2. ids[r].msg \in Ids
        BY <1>1, <2>6, LivesInIds DEF TypeInv, Kinds
      <3> QED BY <1>1, <2>6, <3>1, <3>2 DEF WaitInv, MessageThere
    <2> QED BY <2>3, <2>4, <2>5, <2>6
  <1> QED BY TypeInit, PipesInit, WaitInit, TypeStep, PipesStep, WaitStep, <1>1, PTL DEF Spec

=============================================================================
