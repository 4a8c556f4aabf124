--------------------------- MODULE SSHConnection ---------------------------
(***************************************************************************)
(* SSHConnectionManager (asynchronous/_ssh.py): one connection that the    *)
(* coroutines of a sandbox share, replaced when it fails, and the loop     *)
(* that repeats an idempotent operation on it.                             *)
(*                                                                         *)
(* A coroutine runs from one await to the next, which is one action here.  *)
(* Time is counted in ticks that several retries fit in; ages are cut off  *)
(* at Budget, since nothing asks for more.                                 *)
(***************************************************************************)
EXTENDS Naturals

CONSTANTS Runs,       \* operations given to run()
          Attached,   \* channels opened by _create_process: never repeated
          Closers,    \* calls of close()
          Conns,      \* names for connections; a name nobody holds is used again
          Budget,     \* SSH_RETRY_BUDGET_SECONDS, in ticks
          Deadline,   \* ticks from the start of a run to its deadline
          None

Ops == Runs \cup Attached

ASSUME NamesAssumption ==
    /\ Runs \cap Attached = {} /\ Ops \cap Closers = {}
    /\ None \notin Ops \cup Closers \cup Conns
    /\ None \notin Nat

ASSUME TimeAssumption == Budget \in Nat \ {0} /\ Deadline \in Nat

VARIABLES cached,   \* _connection
          closed,   \* _closed
          lock,     \* who holds _connection_lock
          live,     \* connections whose is_closed() is false
          pc,       \* the await an operation or a close() is at
          held,     \* the connection an operation uses
          age,      \* time since attempt_started
          failing,  \* time since failing_since, None before the first failure
          left      \* time to the deadline, None without one

manager == <<cached, closed, lock, live>>
timers == <<age, failing, left>>
vars == <<manager, pc, held, timers>>

-----------------------------------------------------------------------------
OpPCs == {"idle", "get", "lock", "open", "work", "drain", "sleep", "ended"}
CloserPCs == {"idle", "lock", "drain", "ended"}

Healthy == cached \in live
InFlight(o) == pc[o] \notin {"idle", "ended"}

\* Connections are told apart as long as somebody refers to them.
Free == Conns \ (live \cup {cached} \cup {held[o] : o \in Ops})

Init ==
    /\ cached = None
    /\ closed = FALSE
    /\ lock = None
    /\ live = {}
    /\ pc = [a \in Ops \cup Closers |-> "idle"]
    /\ held = [o \in Ops |-> None]
    /\ age = [o \in Ops |-> 0]
    /\ failing = [o \in Ops |-> None]
    /\ left = [o \in Ops |-> None]

\* How an operation leaves run(), with a result or an exception.
Leave(o) ==
    /\ pc' = [pc EXCEPT ![o] = "ended"]
    /\ held' = [held EXCEPT ![o] = None]
    /\ age' = [age EXCEPT ![o] = 0]
    /\ failing' = [failing EXCEPT ![o] = None]
    /\ left' = [left EXCEPT ![o] = None]

Goto(o, await) == pc' = [pc EXCEPT ![o] = await]

Use(o, c) == Goto(o, "work") /\ held' = [held EXCEPT ![o] = c]

-----------------------------------------------------------------------------
(* get(): the connection that is there, or a new one under the lock.       *)

Start(o) ==
    /\ pc[o] = "idle"
    /\ Goto(o, "get")
    /\ \E d \in {None} \cup (IF o \in Runs THEN {Deadline} ELSE {}) :
          left' = [left EXCEPT ![o] = d]
    /\ UNCHANGED <<manager, held, age, failing>>

\* The check of closed and of the connection that needs no lock.
Get(o) ==
    /\ pc[o] = "get"
    /\ UNCHANGED manager
    /\ \/ closed /\ Leave(o)
       \/ ~closed /\ Healthy /\ Use(o, cached) /\ UNCHANGED timers
       \/ ~closed /\ ~Healthy /\ Goto(o, "lock") /\ UNCHANGED <<held, timers>>

\* Mutant: get() does not look again in the lock whether the manager was closed.
TakeLockUnchecked(o) ==
    /\ pc[o] = "lock"
    /\ lock = None
    /\ UNCHANGED <<cached, closed, live>>
    /\ \/ Healthy /\ Use(o, cached) /\ UNCHANGED <<lock, timers>>
       \/ /\ ~Healthy
          /\ lock' = o
          /\ Goto(o, "open")
          /\ UNCHANGED <<held, timers>>

\* The same checks again, in the lock: somebody else may have connected or
\* closed. The lock is kept only to connect.
TakeLock(o) ==
    /\ pc[o] = "lock"
    /\ lock = None
    /\ UNCHANGED <<cached, closed, live>>
    /\ \/ closed /\ Leave(o) /\ UNCHANGED lock
       \/ ~closed /\ Healthy /\ Use(o, cached) /\ UNCHANGED <<lock, timers>>
       \/ /\ ~closed /\ ~Healthy
          /\ lock' = o
          /\ Goto(o, "open")
          /\ UNCHANGED <<held, timers>>

Opened(o) ==
    /\ pc[o] = "open"
    /\ Free # {}
    /\ LET c == CHOOSE d \in Free : TRUE
       IN /\ cached' = c
          /\ live' = live \cup {c}
          /\ Use(o, c)
    /\ lock' = None
    /\ UNCHANGED <<closed, timers>>

-----------------------------------------------------------------------------
(* run(): what follows a failure.                                          *)

\* Mutant: every failure starts a new budget.
FreshBudgetAlways(o) == TRUE

\* The budget counts from the first failure, and anew from a failure that
\* ended a long attempt.
FreshBudget(o) == failing[o] = None \/ age[o] >= Budget

Exhausted(o) == ~FreshBudget(o) /\ failing[o] >= Budget
PastDeadline(o) == left[o] = 0

\* Raise ConnectionError for the budget or the deadline, or pause.
Assess(o) ==
    \/ (Exhausted(o) \/ PastDeadline(o)) /\ Leave(o)
    \/ /\ ~Exhausted(o) /\ ~PastDeadline(o)
       /\ failing' = [failing EXCEPT ![o] = IF FreshBudget(o) THEN 0 ELSE @]
       /\ Goto(o, "sleep")
       /\ held' = [held EXCEPT ![o] = None]
       /\ age' = [age EXCEPT ![o] = 0]
       /\ UNCHANGED left

\* Mutant: the lock is not released when connecting fails.
OpenFailsLocked(o) ==
    /\ pc[o] = "open"
    /\ Assess(o)
    /\ UNCHANGED manager

\* Connecting fails in a way that may pass: network, handshake, refusal.
OpenFails(o) ==
    /\ pc[o] = "open"
    /\ lock' = None
    /\ Assess(o)
    /\ UNCHANGED <<cached, closed, live>>

\* Mutant: discard() forgets the cached connection, whichever it is.
EvictAnyway(c) ==
    /\ cached' = None
    /\ live' = live \ {c}

\* Mutant: discard() closes the connection that is cached.
EvictCached(c) ==
    /\ cached' = None
    /\ live' = live \ {cached}

\* The part of discard() before its await.
Evict(c) ==
    /\ cached' = IF cached = c THEN None ELSE cached
    /\ live' = live \ {c}

\* The operation fails with the connection, or although it is healthy.
WorkFails(o) ==
    /\ pc[o] = "work"
    /\ Evict(held[o])
    /\ Goto(o, "drain")
    /\ UNCHANGED <<closed, lock, held, timers>>

\* wait_closed() is over. A channel that is attached is not opened again.
Discarded(o) ==
    /\ pc[o] = "drain"
    /\ IF o \in Runs THEN Assess(o) ELSE Leave(o)
    /\ UNCHANGED manager

Wake(o) ==
    /\ pc[o] = "sleep"
    /\ Goto(o, "get")
    /\ UNCHANGED <<manager, held, timers>>

\* A result, or an error that no new connection can mend.
WorkEnds(o) ==
    /\ pc[o] = "work"
    /\ Leave(o)
    /\ UNCHANGED manager

\* Connecting fails for good: host key, rejected credential, error of the API.
OpenRefused(o) ==
    /\ pc[o] = "open"
    /\ lock' = None
    /\ Leave(o)
    /\ UNCHANGED <<cached, closed, live>>

\* The coroutine is cancelled at the await it is at.
Cancel(o) ==
    /\ InFlight(o)
    /\ lock' = IF lock = o THEN None ELSE lock
    /\ Leave(o)
    /\ UNCHANGED <<cached, closed, live>>

-----------------------------------------------------------------------------
(* close()                                                                 *)

BeginClose(x) ==
    /\ pc[x] = "idle"
    /\ Goto(x, "lock")
    /\ UNCHANGED <<manager, held, timers>>

\* In the lock, so after an open in flight; then the transport is closed.
CloseManager(x) ==
    /\ pc[x] = "lock"
    /\ lock = None
    /\ closed' = TRUE
    /\ cached' = None
    /\ live' = live \ {cached}
    /\ Goto(x, IF closed \/ cached = None THEN "ended" ELSE "drain")
    /\ UNCHANGED <<lock, held, timers>>

Drained(x) ==
    /\ pc[x] = "drain"
    /\ Goto(x, "ended")
    /\ UNCHANGED <<manager, held, timers>>

-----------------------------------------------------------------------------
(* The network and the clock.                                              *)

Lose(c) ==
    /\ c \in live
    /\ live' = live \ {c}
    /\ UNCHANGED <<cached, closed, lock, pc, held, timers>>

Older(t) == IF t < Budget THEN t + 1 ELSE t
Sooner(t) == IF t > 0 THEN t - 1 ELSE t

\* A pause is cut short to end by the deadline.
Tick ==
    /\ \A o \in Ops : ~(pc[o] = "sleep" /\ left[o] = 0)
    /\ age' = [o \in Ops |->
                 IF InFlight(o) /\ pc[o] # "sleep" THEN Older(age[o]) ELSE age[o]]
    /\ failing' = [o \in Ops |-> IF failing[o] = None THEN None ELSE Older(failing[o])]
    /\ left' = [o \in Ops |-> IF left[o] = None THEN None ELSE Sooner(left[o])]
    /\ UNCHANGED <<manager, pc, held>>

OpStep(o) ==
    \/ Get(o) \/ TakeLock(o) \/ Opened(o) \/ OpenFails(o) \/ OpenRefused(o)
    \/ WorkFails(o) \/ WorkEnds(o) \/ Discarded(o) \/ Wake(o)

CloserStep(x) == CloseManager(x) \/ Drained(x)

Next ==
    \/ \E o \in Ops : Start(o) \/ OpStep(o) \/ Cancel(o)
    \/ \E x \in Closers : BeginClose(x) \/ CloserStep(x)
    \/ \E c \in Conns : Lose(c)
    \/ Tick

\* asyncio runs what can run and its locks are first come first served;
\* connecting has a timeout; an operation whose connection is gone notices
\* (keepalive). A healthy operation may run for ever.
LoopFairness ==
    /\ \A o \in Ops :
          /\ WF_vars(Get(o)) /\ SF_vars(TakeLock(o))
          /\ WF_vars(Opened(o) \/ OpenFails(o) \/ OpenRefused(o))
          /\ WF_vars(held[o] \notin live /\ WorkFails(o))
          /\ WF_vars(Discarded(o)) /\ WF_vars(Wake(o))
    /\ \A x \in Closers : SF_vars(CloseManager(x)) /\ WF_vars(Drained(x))
    /\ WF_vars(Tick)

Spec == Init /\ [][Next]_vars
FairSpec == Spec /\ LoopFairness

-----------------------------------------------------------------------------
Times == 0 .. Budget

TypeOK ==
    /\ cached \in Conns \cup {None}
    /\ closed \in BOOLEAN
    /\ lock \in Ops \cup {None}
    /\ live \subseteq Conns
    /\ pc \in [Ops \cup Closers -> OpPCs]
    /\ \A x \in Closers : pc[x] \in CloserPCs
    /\ held \in [Ops -> Conns \cup {None}]
    /\ \A o \in Ops : pc[o] \in {"work", "drain"} <=> held[o] # None
    /\ age \in [Ops -> Times]
    /\ failing \in [Ops -> Times \cup {None}]
    /\ left \in [Ops -> (0 .. Deadline) \cup {None}]

\* Every transport that is up is the cached one: none is left behind by a
\* late discard, by two openers, or by a close() that meets an open in flight.
NoTransportLeft == live \subseteq {cached}

\* Once the manager is closed nothing is connected, and nothing ever is again.
ClosedForGood == closed => live = {} /\ \A o \in Ops : pc[o] # "open"

\* A healthy connection an operation works on is taken away from it by the
\* network, by close(), or by a failure on that connection, never by one
\* on another connection.
Undisturbed ==
    [][\A o \in Ops :
          pc[o] = "work" /\ held[o] \in live /\ held[o] \notin live' =>
             \/ pc' = pc
             \/ closed' /\ ~closed
             \/ \E q \in Ops : held[q] = held[o] /\ pc[q] = "work" /\ pc'[q] = "drain"]_vars

Ended(o) == pc[o] \in {"idle", "ended"}

\* An operation whose attempts all come to an end is not repeated for ever:
\* it has a deadline, or its attempts are short in the end and the budget
\* stops it.
RunEnds ==
    \A o \in Ops :
       []<>(pc[o] \notin {"open", "work"}) /\ <>[](age[o] < Budget \/ left[o] # None)
          => <>[]Ended(o)

\* close() ends, and ends everything that is still using the manager.
CloseEndsAll ==
    /\ \A x \in Closers : pc[x] = "lock" ~> pc[x] = "ended"
    /\ \A o \in Ops : closed ~> Ended(o)
=============================================================================
