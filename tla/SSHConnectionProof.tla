------------------------- MODULE SSHConnectionProof -------------------------
(***************************************************************************)
(* Theorems about SSHConnection for every number of operations, closers    *)
(* and connections, and every budget and deadline.                         *)
(***************************************************************************)
EXTENDS SSHConnection, TLAPS

\* Whoever connects holds the lock, and only who connects does.
LockHeld == \A o \in Ops : lock = o <=> pc[o] = "open"

\* Nobody connects while there is a healthy connection, or after close().
OpensWhenNeeded == lock # None => ~Healthy /\ ~closed

\* What a close() has dropped stays away.
DroppedForGood == closed => cached = None

IInv == TypeOK /\ LockHeld /\ OpensWhenNeeded /\ DroppedForGood /\ NoTransportLeft

-----------------------------------------------------------------------------
(* Types.                                                                  *)

USE NamesAssumption, TimeAssumption DEF Ops, manager, timers

\* The types hold before anything is started.
LEMMA TypeInit == Init => TypeOK
<1> SUFFICES ASSUME Init PROVE TypeOK
  OBVIOUS
<1>1. 0 \in Times
  BY DEF Times
<1>2. /\ pc \in [Ops \cup Closers -> OpPCs]
      /\ held \in [Ops -> Conns \cup {None}]
      /\ age \in [Ops -> Times]
      /\ failing \in [Ops -> Times \cup {None}]
      /\ left \in [Ops -> (0 .. Deadline) \cup {None}]
  BY <1>1 DEF Init, OpPCs
<1>3. \A a \in Ops \cup Closers : pc[a] = "idle"
  BY DEF Init
<1> QED
  BY <1>2, <1>3 DEF Init, TypeOK, CloserPCs

\* An operation that leaves run() keeps its types, whatever the lock becomes.
LEMMA TypeLeave ==
    ASSUME TypeOK, NEW o \in Ops, Leave(o),
           cached' \in Conns \cup {None}, closed' \in BOOLEAN,
           lock' \in Ops \cup {None}, live' \subseteq Conns
    PROVE  TypeOK'
BY DEF Leave, TypeOK, Times, OpPCs, CloserPCs

\* A failure that is raised or followed by a pause keeps the types.
LEMMA TypeAssess ==
    ASSUME TypeOK, NEW o \in Ops, Assess(o),
           cached' \in Conns \cup {None}, closed' \in BOOLEAN,
           lock' \in Ops \cup {None}, live' \subseteq Conns
    PROVE  TypeOK'
<1>1. CASE Leave(o)
  BY <1>1, TypeLeave
<1>2. CASE ~Leave(o)
  <2>1. /\ failing' = [failing EXCEPT ![o] = IF FreshBudget(o) THEN 0 ELSE @]
        /\ pc' = [pc EXCEPT ![o] = "sleep"]
        /\ held' = [held EXCEPT ![o] = None]
        /\ age' = [age EXCEPT ![o] = 0]
        /\ left' = left
    BY <1>2 DEF Assess, Goto
  <2>2. failing' \in [Ops -> Times \cup {None}] /\ age' \in [Ops -> Times]
    BY <2>1 DEF TypeOK, Times
  <2> QED
    BY <2>1, <2>2 DEF TypeOK, OpPCs, CloserPCs
<1> QED
  BY <1>1, <1>2

\* A step of an operation keeps the types.
LEMMA TypeOp ==
    ASSUME TypeOK, NEW o \in Ops, Start(o) \/ OpStep(o) \/ Cancel(o)
    PROVE  TypeOK'
<1>1. CASE Start(o)
  BY <1>1 DEF Start, Goto, TypeOK, OpPCs, CloserPCs
<1>2. CASE Get(o)
  <2>1. CASE Leave(o)
    BY <1>2, <2>1, TypeLeave DEF Get, TypeOK
  <2>2. CASE ~Leave(o)
    BY <1>2, <2>2 DEF Get, Use, Goto, Healthy, TypeOK, OpPCs, CloserPCs
  <2> QED
    BY <2>1, <2>2
<1>3. CASE TakeLock(o)
  <2>1. CASE Leave(o)
    <3>1. lock' \in Ops \cup {None}
      BY <1>3 DEF TakeLock, TypeOK
    <3> QED
      BY <1>3, <2>1, <3>1, TypeLeave DEF TakeLock, TypeOK
  <2>2. CASE ~Leave(o)
    BY <1>3, <2>2 DEF TakeLock, Use, Goto, Healthy, TypeOK, OpPCs, CloserPCs
  <2> QED
    BY <2>1, <2>2
<1>4. CASE Opened(o)
  <2>1. PICK c \in Conns : /\ cached' = c /\ live' = live \cup {c}
                           /\ pc' = [pc EXCEPT ![o] = "work"]
                           /\ held' = [held EXCEPT ![o] = c]
    BY <1>4 DEF Opened, Use, Goto, Free
  <2> QED
    BY <1>4, <2>1 DEF Opened, TypeOK, OpPCs, CloserPCs
<1>5. CASE OpenFails(o)
  BY <1>5, TypeAssess DEF OpenFails, TypeOK
<1>6. CASE OpenRefused(o)
  BY <1>6, TypeLeave DEF OpenRefused, TypeOK
<1>7. CASE WorkFails(o)
  BY <1>7 DEF WorkFails, Evict, Goto, TypeOK, OpPCs, CloserPCs
<1>8. CASE WorkEnds(o)
  BY <1>8, TypeLeave DEF WorkEnds, TypeOK
<1>9. CASE Discarded(o)
  <2>1. CASE o \in Runs
    BY <1>9, <2>1, TypeAssess DEF Discarded, TypeOK
  <2>2. CASE o \notin Runs
    BY <1>9, <2>2, TypeLeave DEF Discarded, TypeOK
  <2> QED
    BY <2>1, <2>2
<1>10. CASE Wake(o)
  BY <1>10 DEF Wake, Goto, TypeOK, OpPCs, CloserPCs
<1>11. CASE Cancel(o)
  <2>1. lock' \in Ops \cup {None}
    BY <1>11 DEF Cancel, TypeOK
  <2> QED
    BY <1>11, <2>1, TypeLeave DEF Cancel, TypeOK
<1> QED
  BY <1>1, <1>2, <1>3, <1>4, <1>5, <1>6, <1>7, <1>8, <1>9, <1>10, <1>11 DEF OpStep

\* close(), the network and the clock keep the types.
LEMMA TypeRest ==
    ASSUME TypeOK,
           \/ \E x \in Closers : BeginClose(x) \/ CloserStep(x)
           \/ \E c \in Conns : Lose(c)
           \/ Tick
    PROVE  TypeOK'
<1>1. CASE \E x \in Closers : BeginClose(x) \/ CloserStep(x)
  <2> PICK x \in Closers : BeginClose(x) \/ CloserStep(x)
    BY <1>1
  <2>1. CASE BeginClose(x)
    BY <2>1 DEF BeginClose, Goto, TypeOK, OpPCs, CloserPCs
  <2>2. CASE CloseManager(x)
    BY <2>2 DEF CloseManager, Goto, TypeOK, OpPCs, CloserPCs
  <2>3. CASE Drained(x)
    BY <2>3 DEF Drained, Goto, TypeOK, OpPCs, CloserPCs
  <2> QED
    BY <2>1, <2>2, <2>3 DEF CloserStep
<1>2. CASE \E c \in Conns : Lose(c)
  BY <1>2 DEF Lose, TypeOK
<1>3. CASE Tick
  <2>1. \A t \in Times : Older(t) \in Times
    BY DEF Older, Times
  <2>2. \A t \in 0 .. Deadline : Sooner(t) \in 0 .. Deadline
    BY DEF Sooner
  <2>3. age' \in [Ops -> Times]
    BY <1>3, <2>1 DEF Tick, TypeOK
  <2>4. failing' \in [Ops -> Times \cup {None}]
    BY <1>3, <2>1 DEF Tick, TypeOK
  <2>5. left' \in [Ops -> (0 .. Deadline) \cup {None}]
    BY <1>3, <2>2 DEF Tick, TypeOK
  <2> QED
    BY <1>3, <2>3, <2>4, <2>5 DEF Tick, TypeOK
<1> QED
  BY <1>1, <1>2, <1>3

-----------------------------------------------------------------------------
(* The invariant.                                                          *)

\* Nothing is connected at first.
LEMMA InvInit == Init => IInv
BY TypeInit DEF Init, IInv, LockHeld, OpensWhenNeeded, DroppedForGood, NoTransportLeft

\* A step of an operation keeps the lock with who connects.
LEMMA LockOp ==
    ASSUME IInv, NEW o \in Ops, Start(o) \/ OpStep(o) \/ Cancel(o)
    PROVE  LockHeld'
<1> USE DEF IInv, LockHeld, TypeOK, Goto, Leave, Use, Assess
<1>1. CASE Start(o)
  BY <1>1 DEF Start
<1>2. CASE Get(o)
  BY <1>2 DEF Get
<1>3. CASE TakeLock(o)
  BY <1>3 DEF TakeLock
<1>4. CASE Opened(o)
  BY <1>4 DEF Opened
<1>5. CASE OpenFails(o)
  BY <1>5 DEF OpenFails
<1>6. CASE OpenRefused(o)
  BY <1>6 DEF OpenRefused
<1>7. CASE WorkFails(o)
  BY <1>7 DEF WorkFails
<1>8. CASE WorkEnds(o)
  BY <1>8 DEF WorkEnds
<1>9. CASE Discarded(o)
  BY <1>9 DEF Discarded
<1>10. CASE Wake(o)
  BY <1>10 DEF Wake
<1>11. CASE Cancel(o)
  BY <1>11 DEF Cancel
<1> QED
  BY <1>1, <1>2, <1>3, <1>4, <1>5, <1>6, <1>7, <1>8, <1>9, <1>10, <1>11 DEF OpStep

\* A step of an operation opens nothing beside what is cached.
LEMMA TransportOp ==
    ASSUME IInv, NEW o \in Ops, Start(o) \/ OpStep(o) \/ Cancel(o)
    PROVE  OpensWhenNeeded' /\ DroppedForGood' /\ NoTransportLeft'
<1> USE DEF IInv, OpensWhenNeeded, DroppedForGood, NoTransportLeft, Healthy
<1>1. CASE UNCHANGED manager
  BY <1>1
<1>2. CASE TakeLock(o)
  BY <1>2 DEF TakeLock
<1>3. CASE Opened(o)
  <2>1. lock = o /\ live = {}
    BY <1>3 DEF Opened, LockHeld
  <2>2. live' = {cached'} /\ lock' = None /\ closed' = closed
    BY <1>3, <2>1 DEF Opened
  <2>3. ~closed
    BY <2>1
  <2> QED
    BY <2>2, <2>3
<1>4. CASE OpenFails(o) \/ OpenRefused(o) \/ Cancel(o)
  BY <1>4 DEF OpenFails, OpenRefused, Cancel
<1>5. CASE WorkFails(o)
  BY <1>5 DEF WorkFails, Evict, TypeOK
<1> QED
  BY <1>1, <1>2, <1>3, <1>4, <1>5
     DEF OpStep, Start, Get, WorkEnds, Discarded, Wake

\* close(), the network and the clock keep the invariant.
LEMMA InvRest ==
    ASSUME IInv,
           \/ \E x \in Closers : BeginClose(x) \/ CloserStep(x)
           \/ \E c \in Conns : Lose(c)
           \/ Tick
    PROVE  IInv'
<1>1. TypeOK'
  BY TypeRest DEF IInv
<1> USE DEF IInv, LockHeld, OpensWhenNeeded, DroppedForGood, NoTransportLeft, Healthy
<1>2. CASE \E x \in Closers : BeginClose(x) \/ CloserStep(x)
  <2> PICK x \in Closers : BeginClose(x) \/ CloserStep(x)
    BY <1>2
  <2>1. \A o \in Ops : pc'[o] = pc[o]
    BY DEF BeginClose, CloserStep, CloseManager, Drained, Goto, TypeOK
  <2>2. CASE CloseManager(x)
    BY <1>1, <2>1, <2>2 DEF CloseManager
  <2>3. CASE BeginClose(x) \/ Drained(x)
    BY <1>1, <2>1, <2>3 DEF BeginClose, Drained
  <2> QED
    BY <2>2, <2>3 DEF CloserStep
<1>3. CASE \E c \in Conns : Lose(c)
  BY <1>1, <1>3 DEF Lose
<1>4. CASE Tick
  BY <1>1, <1>4 DEF Tick
<1> QED
  BY <1>2, <1>3, <1>4

\* The invariant is kept by every step.
LEMMA InvNext == IInv /\ [Next]_vars => IInv'
<1> SUFFICES ASSUME IInv, [Next]_vars PROVE IInv'
  OBVIOUS
<1>1. CASE \E o \in Ops : Start(o) \/ OpStep(o) \/ Cancel(o)
  BY <1>1, TypeOp, LockOp, TransportOp DEF IInv
<1>2. CASE \/ \E x \in Closers : BeginClose(x) \/ CloserStep(x)
           \/ \E c \in Conns : Lose(c)
           \/ Tick
  BY <1>2, InvRest
<1>3. CASE UNCHANGED vars
  BY <1>3 DEF vars, IInv, TypeOK, LockHeld, OpensWhenNeeded, DroppedForGood,
              NoTransportLeft, Healthy
<1> QED
  BY <1>1, <1>2, <1>3 DEF Next

\* The invariant holds in every reachable state.
THEOREM Invariant == Spec => []IInv
BY InvInit, InvNext, PTL DEF Spec

\* Every variable of the manager and its coroutines keeps its type.
THEOREM TypeCorrect == Spec => []TypeOK
<1>1. IInv => TypeOK
  BY DEF IInv
<1> QED
  BY <1>1, Invariant, PTL

\* However operations fail, retry, are cancelled and close, no transport is up
\* but the one that is cached.
THEOREM NoneLeft == Spec => []NoTransportLeft
<1>1. IInv => NoTransportLeft
  BY DEF IInv
<1> QED
  BY <1>1, Invariant, PTL

\* After close() nothing is connected or connecting, for ever.
THEOREM StaysClosed == Spec => []ClosedForGood
<1>1. IInv => ClosedForGood
  <2> SUFFICES ASSUME IInv, closed PROVE live = {} /\ \A o \in Ops : pc[o] # "open"
    BY DEF ClosedForGood
  <2>1. live = {}
    BY DEF IInv, DroppedForGood, NoTransportLeft, TypeOK
  <2>2. \A o \in Ops : pc[o] # "open"
    BY DEF IInv, LockHeld, OpensWhenNeeded
  <2> QED
    BY <2>1, <2>2
<1> QED
  BY <1>1, Invariant, PTL

-----------------------------------------------------------------------------
(* What a step may take from an operation.                                 *)

\* What Undisturbed asks of one step.
Taken(o) == pc[o] = "work" /\ held[o] \in live /\ held[o] \notin live'

Justified(o) ==
    \/ pc' = pc
    \/ closed' /\ ~closed
    \/ \E q \in Ops : held[q] = held[o] /\ pc[q] = "work" /\ pc'[q] = "drain"

\* A step that takes a healthy connection has one of three reasons.
LEMMA TakenJustified ==
    ASSUME IInv, [Next]_vars, NEW o \in Ops, Taken(o)
    PROVE  Justified(o)
<1>1. ~(live \subseteq live')
  BY DEF Taken
<1>2. CASE \E q \in Ops : Start(q) \/ OpStep(q) \/ Cancel(q)
  <2> PICK q \in Ops : Start(q) \/ OpStep(q) \/ Cancel(q)
    BY <1>2
  <2>1. WorkFails(q)
    BY <1>1 DEF OpStep, Start, Get, TakeLock, Opened, OpenFails, OpenRefused,
                WorkEnds, Discarded, Wake, Cancel
  <2>2. held[q] = held[o] /\ pc[q] = "work" /\ pc'[q] = "drain"
    BY <2>1 DEF WorkFails, Evict, Goto, Taken, IInv, TypeOK
  <2> QED
    BY <2>2 DEF Justified
<1>3. CASE \E x \in Closers : BeginClose(x) \/ CloserStep(x)
  <2> PICK x \in Closers : BeginClose(x) \/ CloserStep(x)
    BY <1>3
  <2>1. CloseManager(x)
    BY <1>1 DEF CloserStep, BeginClose, Drained
  <2>2. ~closed
    BY DEF Taken, IInv, DroppedForGood, NoTransportLeft, TypeOK
  <2> QED
    BY <2>1, <2>2 DEF CloseManager, Justified
<1>4. CASE \E c \in Conns : Lose(c)
  BY <1>4 DEF Lose, Justified
<1>5. CASE Tick \/ UNCHANGED vars
  BY <1>1, <1>5 DEF Tick, vars
<1> QED
  BY <1>2, <1>3, <1>4, <1>5 DEF Next

\* Nobody loses a healthy connection to a failure on another one.
THEOREM TakenOnlyByItsOwn == Spec => Undisturbed
<1>1. IInv /\ [Next]_vars =>
        [\A o \in Ops :
            pc[o] = "work" /\ held[o] \in live /\ held[o] \notin live' =>
               \/ pc' = pc
               \/ closed' /\ ~closed
               \/ \E q \in Ops : held[q] = held[o] /\ pc[q] = "work" /\ pc'[q] = "drain"]_vars
  BY TakenJustified DEF Taken, Justified
<1> QED
  BY <1>1, Invariant, PTL DEF Spec, Undisturbed
=============================================================================
