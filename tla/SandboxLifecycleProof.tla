----------------------- MODULE SandboxLifecycleProof -----------------------
(***************************************************************************)
(* Theorems about SandboxLifecycle for every number of calls that wait and *)
(* terminate, and every length of an outage that is borne.                 *)
(***************************************************************************)
EXTENDS SandboxLifecycle, TLAPS

\* The awaits a call of each kind can be at.
CreatorAwaits == {"idle", "prepare", "start", "fetch", "hold", "read", "settle", "exec", "undo",
                  "done", "raised"}
WaiterAwaits == {"idle", "poll", "hold", "read", "settle", "done", "raised"}
TerminatorAwaits == {"idle", "stop", "hold", "read", "settle", "stop again", "refresh",
                     "closing", "aborting", "done", "raised"}

Roles ==
    /\ pc[Creator] \in CreatorAwaits
    /\ \A o \in Waiters : pc[o] \in WaiterAwaits
    /\ \A o \in Terminators : pc[o] \in TerminatorAwaits

\* Before there is a sandbox nothing is known of it; before there is a handle
\* nobody else calls; a create() is undone only when it raises.
InOrder ==
    /\ pc[Creator] \in {"idle", "prepare", "start"} => known = None /\ ~allocated
    /\ pc[Creator] \in {"fetch", "hold", "read", "settle", "exec", "undo", "done"} => status # "none"
    /\ reply[Creator] # None => status # "none"
    /\ pc[Creator] # "done" => \A o \in Waiters \cup Terminators : pc[o] = "idle"
    /\ pc[Creator] # "raised" => rollback = None
    /\ allocated => status # "none"

\* An answer is one to the request, and one that says the sandbox is over, or
\* was stopped, stays true.
Over == status \in {"over", "gone"}
AnswersTrue ==
    /\ \A o \in Callers :
          /\ reply[o] = "id" => pc[o] = "start"
          /\ reply[o] = "window" => pc[o] = "hold"
          /\ reply[o] \in {"stopped", "not ready"} => pc[o] \in Stops
          /\ reply[o] \in Statuses => pc[o] \in Reads \cup {"hold"}
          /\ reply[o] \notin {"none", "gone"}
          /\ reply[o] = "over" => Over
          /\ reply[o] = "stopped" \/ pc[o] = "refresh" => asked \/ Over
    /\ known \notin {"none", "gone"}
    /\ known = "over" => Over

\* A 404 comes of a missing endpoint or of a missing sandbox, which the read
\* that follows tells apart.
NotFoundTrue ==
    \A o \in Callers :
        /\ pc[o] = "hold" /\ reply[o] = "missing" => ~offersWait \/ status = "gone"
        /\ pc[o] = "settle" => ~offersWait \/ status = "gone"
        /\ pc[o] = "settle" /\ reply[o] \in Statuses => ~offersWait

\* A create() that raises has tried to undo what it started.
RolledBack ==
    /\ pc[Creator] = "raised" /\ allocated => rollback # None
    /\ rollback = "stopped" => asked \/ Over

LInv ==
    /\ LifecycleTypeOK /\ Roles /\ InOrder /\ AnswersTrue /\ NotFoundTrue
    /\ RolledBack /\ ClientKept /\ FallbackWarranted /\ TerminateMeansStopped

-----------------------------------------------------------------------------
USE CallersAssumption, GraceAssumption, NoneAssumption
    DEF Callers, api, sdk, call, undo, Answer, Goto, StartClock, StopClock, Ended, Handle,
        Leave, Return

(* A step of a call.                                                       *)

CallStep(o) ==
    \/ o = Creator /\ BeginCreate
    \/ o \in Waiters /\ BeginWait(o)
    \/ o \in Terminators /\ BeginTerminate(o)
    \/ Proceed(o) \/ Cancel(o)

\* Its own state only, once the handle is there unless it makes that; answers
\* are used up.
Keeps(o) ==
    /\ UNCHANGED <<api, owned>>
    /\ \A p \in Callers : p # o => pc'[p] = pc[p] /\ reply'[p] = reply[p]
    /\ ~Ended(o) /\ reply'[o] = None
    /\ o # Creator => Handle /\ UNCHANGED undo
    /\ o = Creator => pc'[o] \in CreatorAwaits
    /\ o \in Waiters => pc'[o] \in WaiterAwaits
    /\ o \in Terminators => pc'[o] \in TerminatorAwaits

\* What it concludes from an answer.
Concludes(o) ==
    /\ \/ known' = known
       \/ pc[Creator] \notin {"idle", "prepare", "start"} /\ reply[o] \in Statuses /\ known' = reply[o]
    /\ endpoint' = endpoint \/ (pc[o] = "settle" /\ reply[o] \in Statuses)
    /\ endpoint' \in BOOLEAN
    /\ pc'[o] = "refresh" => reply[o] = "stopped"
    /\ pc'[o] = "settle" => pc[o] = "hold" /\ reply[o] = "missing"
    /\ o \in Terminators /\ pc'[o] \in {"closing", "done"} =>
          pc[o] \in {"closing", "refresh"} \/ reply[o] = "over" \/ known = "over"

\* A create() goes forward, undoes what it made before it raises, and says how.
Creates(o) ==
    o = Creator =>
        /\ pc'[o] \in {"idle", "prepare", "start"} => pc[o] \in {"idle", "prepare"} /\ known' = known
        /\ pc'[o] \in {"fetch", "hold", "read", "settle", "exec", "undo", "done"} =>
              status # "none"
        /\ allocated' = allocated \/ (reply[o] = "id" /\ allocated' = TRUE)
        /\ allocated' => pc'[o] \notin {"idle", "prepare", "start"}
        /\ pc'[o] # "raised" => rollback' = rollback
        /\ pc'[o] = "raised" /\ allocated' => rollback' # None
        /\ rollback' = "stopped" => rollback = "stopped" \/ reply[o] = "stopped"
        /\ rollback' \in {None, "stopped", "failed"}

\* The session is closed by a create() that raises or by terminate(), if the
\* Client is theirs.
Shuts(o) ==
    \/ client' = client /\ (o = Creator => pc'[o] # "raised")
    \/ /\ CloseClient
       /\ \/ o = Creator /\ pc'[o] = "raised"
          \/ o \in Terminators /\ pc'[o] \in {"done", "raised"}

Steps(o) == Keeps(o) /\ Concludes(o) /\ Creates(o) /\ Shuts(o)

\* An exception ends a call that is not create(), or undoes it.
LEMMA Raising ==
    ASSUME LInv, NEW o \in Callers, Raise(o),
           pc[o] \notin {"done", "raised", "closing", "aborting"}, UNCHANGED <<api, owned>>,
           o # Creator => Handle,
           pc[Creator] # "idle",
           \/ known' = known
           \/ pc[Creator] \notin {"idle", "prepare", "start"} /\ reply[o] \in Statuses /\ known' = reply[o],
           endpoint' \in BOOLEAN,
           endpoint' = endpoint \/ (pc[o] = "settle" /\ reply[o] \in Statuses)
    PROVE  Steps(o)
<1> USE DEF LInv, LifecycleTypeOK
<1>1. CASE o # Creator
  <2>1. Keeps(o)
    BY <1>1 DEF Raise, Keeps, WaiterAwaits, TerminatorAwaits
  <2>2. Concludes(o) /\ Creates(o) /\ Shuts(o)
    BY <1>1 DEF Raise, Concludes, Creates, Shuts
  <2> QED
    BY <2>1, <2>2 DEF Steps
<1>2. CASE o = Creator
  <2>1. Keeps(o)
    BY <1>2 DEF Raise, Undone, Keeps, CreatorAwaits
  <2>2. Concludes(o)
    BY <1>2 DEF Raise, Undone, Concludes
  <2>3. Creates(o)
    BY <1>2 DEF Raise, Undone, Creates, InOrder, RolledBack
  <2>4. Shuts(o)
    BY <1>2 DEF Raise, Undone, Shuts
  <2> QED
    BY <2>1, <2>2, <2>3, <2>4 DEF Steps
<1> QED
  BY <1>1, <1>2

\* Every step of a call keeps to that.
LEMMA CallSteps ==
    ASSUME LInv, NEW o \in Callers, CallStep(o)
    PROVE  Steps(o)
<1> USE DEF LInv, LifecycleTypeOK
<1>r. /\ o # Creator /\ pc[o] # "idle" => Handle
      /\ pc[Creator] \in CreatorAwaits
      /\ o \in Waiters => pc[o] \in WaiterAwaits
      /\ o \in Terminators => pc[o] \in TerminatorAwaits
  BY DEF Roles, InOrder
<1>a. reply[o] # None => pc[o] \notin {"idle", "prepare", "exec", "closing", "aborting", "done", "raised"}
  BY DEF Requests, Reads, Startup, Stops
<1>n. "none" # None /\ None \notin Statuses /\ None # "id" /\ None # "missing" /\ None # "window"
      /\ None # "stopped" /\ None # "not ready" /\ None # "over"
  BY DEF Answers, Statuses
<1>1. CASE o = Creator /\ BeginCreate
  BY <1>1, <1>a DEF BeginCreate, Steps, Keeps, Concludes, Creates, Shuts, CreatorAwaits, InOrder, RolledBack
<1>2. CASE o = Creator /\ Prepared
  <2>1. CASE Raise(o)
    BY <1>2, <2>1, Raising DEF Prepared
  <2>2. CASE Goto(o, "start") /\ UNCHANGED <<client, deadline, undo>>
    BY <1>2, <2>2 DEF Prepared, Steps, Keeps, Concludes, Creates, Shuts, CreatorAwaits, InOrder, RolledBack
  <2> QED
    BY <1>2, <2>1, <2>2 DEF Prepared
<1>3. CASE o = Creator /\ Started
  BY <1>3, <1>a, <1>n DEF Started, Steps, Keeps, Concludes, Creates, Shuts, CreatorAwaits, InOrder, RolledBack
<1>4. CASE o = Creator /\ Fetched
  <2>1. CASE Raise(o)
    BY <1>4, <2>1, Raising DEF Fetched
  <2>2. CASE Return(o) \/ (Goto(o, StartupRequest) /\ UNCHANGED <<client, deadline, undo>>)
    BY <1>4, <2>2 DEF Fetched, StartupRequest, Steps, Keeps, Concludes, Creates, Shuts,
                      CreatorAwaits, InOrder, RolledBack
  <2> QED
    BY <1>4, <2>1, <2>2 DEF Fetched
<1>5. CASE o = Creator /\ Executed
  <2>1. CASE Raise(o)
    BY <1>5, <2>1, Raising DEF Executed
  <2>2. CASE Return(o)
    BY <1>5, <2>2 DEF Executed, Steps, Keeps, Concludes, Creates, Shuts,
                      CreatorAwaits, InOrder, RolledBack
  <2> QED
    BY <1>5, <2>1, <2>2 DEF Executed
<1>s. ASSUME pc[o] \in Startup, reply[o] # None, UNCHANGED <<api, owned>>,
             known' = known \/ (reply[o] \in Statuses /\ known' = reply[o]),
             endpoint' = endpoint \/ (endpoint' = FALSE /\ pc[o] = "settle" /\ reply[o] \in Statuses),
             StillStarting(o)
      PROVE  Steps(o)
  <2>1. CASE Raise(o)
    BY <1>s, <1>r, <2>1, Raising DEF Startup
  <2>2. CASE Goto(o, StartupRequest) /\ UNCHANGED <<client, deadline, undo>>
    BY <1>s, <1>r, <2>2 DEF Startup, StartupRequest, Steps, Keeps, Concludes, Creates, Shuts,
              CreatorAwaits, WaiterAwaits, TerminatorAwaits, InOrder, RolledBack
  <2> QED
    BY <1>s, <2>1, <2>2 DEF StillStarting
<1>6. CASE WindowElapsed(o)
  <2>1. pc[o] \in Startup
    BY <1>6 DEF WindowElapsed, AnswersTrue, Startup
  <2> QED
    BY <1>6, <1>n, <1>s, <2>1 DEF WindowElapsed
<1>7. CASE StartupSeen(o)
  <2>1. CASE StillStarting(o)
    BY <1>7, <1>n, <1>s, <2>1 DEF StartupSeen
  <2>2. CASE Raise(o)
    BY <1>7, <1>r, <2>2, Raising DEF StartupSeen, Startup
  <2>3. CASE o = Creator /\ Goto(o, "exec") /\ UNCHANGED <<client, deadline, undo>>
    BY <1>7, <1>r, <2>3 DEF StartupSeen, Startup, Steps, Keeps, Concludes, Creates, Shuts,
              CreatorAwaits, InOrder, RolledBack
  <2>4. CASE o \in Waiters /\ Return(o)
    BY <1>7, <1>r, <2>4 DEF StartupSeen, Startup, Steps, Keeps, Concludes, Creates, Shuts, WaiterAwaits
  <2>5. CASE o \in Terminators /\ Goto(o, "stop again") /\ UNCHANGED <<client, deadline, undo>>
    BY <1>7, <1>r, <2>5 DEF StartupSeen, Startup, Steps, Keeps, Concludes, Creates, Shuts,
              TerminatorAwaits
  <2>6. CASE o \in Terminators /\ reply[o] \notin {"created", "ready"} /\ Return(o)
    <3>1. reply[o] = "over"
      BY <1>7, <2>6 DEF StartupSeen, Statuses, Live, AnswersTrue
    <3> QED
      BY <1>7, <1>r, <2>6, <3>1 DEF StartupSeen, Startup, Steps, Keeps, Concludes, Creates, Shuts,
              TerminatorAwaits
  <2> QED
    BY <1>7, <2>1, <2>2, <2>3, <2>4, <2>5, <2>6 DEF StartupSeen, StartupOver
<1>8. CASE NotFound(o)
  BY <1>8, <1>r DEF NotFound, Settle, Steps, Keeps, Concludes, Creates, Shuts,
       CreatorAwaits, WaiterAwaits, TerminatorAwaits, InOrder, RolledBack
<1>9. CASE o \in Waiters /\ BeginWait(o)
  BY <1>9, <1>a DEF BeginWait, StartupRequest, Steps, Keeps, Concludes, Creates, Shuts, WaiterAwaits
<1>10. CASE o \in Terminators /\ BeginTerminate(o)
  BY <1>10, <1>a DEF BeginTerminate, Steps, Keeps, Concludes, Creates, Shuts, TerminatorAwaits
<1>11. CASE Polled(o)
  <2>1. CASE Raise(o)
    BY <1>11, <1>r, <2>1, Raising DEF Polled
  <2>2. CASE o \in Waiters /\ (Return(o) \/ (Goto(o, "poll") /\ UNCHANGED <<client, deadline, undo>>))
    BY <1>11, <1>r, <2>2 DEF Polled, Steps, Keeps, Concludes, Creates, Shuts, WaiterAwaits
  <2>3. o \in Waiters
    BY <1>11, <1>r DEF Polled, CreatorAwaits, TerminatorAwaits
  <2> QED
    BY <1>11, <2>1, <2>2, <2>3 DEF Polled
<1>12. CASE Stopped(o)
  <2>1. pc[o] \in Stops
    BY <1>12 DEF Stopped, AnswersTrue
  <2>2. CASE o = Creator
    <3>1. pc[o] = "undo" /\ Undone("stopped") /\ UNCHANGED <<api, owned, ssh, endpoint, known>>
      BY <1>12, <1>r, <2>1, <2>2 DEF Stopped, Stops, CreatorAwaits
    <3>2. Keeps(o) /\ Concludes(o) /\ Shuts(o)
      BY <2>2, <3>1 DEF Undone, Keeps, Concludes, Shuts, CreatorAwaits
    <3>3. Creates(o)
      BY <1>12, <1>n, <2>2, <3>1 DEF Stopped, Undone, Creates
    <3> QED
      BY <3>2, <3>3 DEF Steps
  <2>3. CASE o # Creator
    BY <1>12, <1>r, <2>1, <2>3 DEF Stopped, Stops, Steps, Keeps, Concludes, Creates, Shuts,
              WaiterAwaits, TerminatorAwaits
  <2> QED
    BY <2>2, <2>3
<1>13. CASE StopRefused(o)
  <2>1. pc[o] \in Stops
    BY <1>13 DEF StopRefused, AnswersTrue
  <2>2. CASE Raise(o)
    BY <1>13, <1>r, <2>1, <2>2, Raising DEF StopRefused, Stops
  <2>3. CASE pc[o] = "stop" /\ Goto(o, StartupRequest) /\ UNCHANGED <<client, deadline, undo>>
    BY <1>13, <1>r, <2>3 DEF StopRefused, StartupRequest, Steps, Keeps, Concludes, Creates, Shuts,
              CreatorAwaits, WaiterAwaits, TerminatorAwaits
  <2> QED
    BY <1>13, <2>2, <2>3 DEF StopRefused
<1>14. CASE Refreshed(o)
  BY <1>14, <1>r DEF Refreshed, Steps, Keeps, Concludes, Creates, Shuts,
       CreatorAwaits, WaiterAwaits, TerminatorAwaits
<1>15. CASE Missing(o)
  BY <1>15, <1>r, <1>a, <1>n, Raising DEF Missing
<1>16. CASE Closed(o)
  BY <1>16, <1>r DEF Closed, Steps, Keeps, Concludes, Creates, Shuts,
       CreatorAwaits, WaiterAwaits, TerminatorAwaits
<1>17. CASE RequestFails(o)
  <2>1. pc[o] \notin {"idle", "prepare", "exec", "closing", "aborting", "done", "raised"}
    BY <1>17 DEF RequestFails, Requests, Reads, Startup, Stops
  <2>2. CASE Raise(o)
    BY <1>17, <1>r, <2>1, <2>2, Raising DEF RequestFails
  <2>3. CASE pc[o] \in Retried /\ Persist(o)
    BY <1>17, <1>r, <2>1, <2>3 DEF RequestFails, Persist, Retried, Stops, Startup, StartupRequest,
              Steps, Keeps, Concludes, Creates, Shuts,
              CreatorAwaits, WaiterAwaits, TerminatorAwaits, InOrder, RolledBack
  <2> QED
    BY <1>17, <2>2, <2>3 DEF RequestFails
<1>18. CASE Cancel(o)
  <2>1. CASE pc[o] \notin {"closing", "aborting"} /\ Raise(o)
    BY <1>18, <1>r, <2>1, Raising DEF Cancel
  <2>2. CASE pc[o] \in {"closing", "aborting"} /\ Leave(o, "raised", "raised")
    BY <1>18, <1>r, <2>2 DEF Cancel, Steps, Keeps, Concludes, Creates, Shuts,
              CreatorAwaits, WaiterAwaits, TerminatorAwaits
  <2> QED
    BY <1>18, <2>1, <2>2 DEF Cancel
<1> QED
  BY <1>1, <1>2, <1>3, <1>4, <1>5, <1>6, <1>7, <1>8, <1>9, <1>10, <1>11, <1>12, <1>13, <1>14,
     <1>15, <1>16, <1>17, <1>18 DEF CallStep, Proceed

-----------------------------------------------------------------------------
(* Every step keeps the invariant.                                         *)

Awaits == Requests \cup {"idle", "prepare", "exec", "closing", "aborting", "done", "raised"}
CallTypes ==
    /\ pc \in [Callers -> Awaits] /\ reply \in [Callers -> Answers \cup {None}]
    /\ failing \in [Callers -> 0 .. Grace]
    /\ deadline \in [Callers -> {"none", "ahead", "past"}]
    /\ client \in {"open", "closed"} /\ allocated \in BOOLEAN

\* The awaits, answers, failures and clocks of a call keep their types.
LEMMA CallTyped ==
    ASSUME LInv, NEW o \in Callers, CallStep(o)
    PROVE  CallTypes'
<1>p. /\ {"idle", "prepare", "exec", "closing", "aborting", "done", "raised"} \subseteq Awaits
      /\ {"start", "fetch", "poll", "hold", "read", "settle", "refresh"} \subseteq Awaits
      /\ {"stop", "stop again", "undo"} \subseteq Awaits
  BY DEF Awaits, Requests, Reads, Startup, Stops
<1>t. CallTypes /\ 0 \in 0 .. Grace
  BY DEF LInv, LifecycleTypeOK, CallTypes, Awaits
<1>c. CloseClient => client' \in {"open", "closed"}
  BY <1>t DEF CloseClient, CallTypes
<1>g. ASSUME NEW where \in Awaits, Goto(o, where)
      PROVE  /\ pc' \in [Callers -> Awaits] /\ reply' \in [Callers -> Answers \cup {None}]
             /\ failing' \in [Callers -> 0 .. Grace]
  BY <1>t, <1>g DEF CallTypes
<1>d. StartClock(o) \/ StopClock(o) \/ UNCHANGED deadline =>
         deadline' \in [Callers -> {"none", "ahead", "past"}]
  BY <1>t DEF CallTypes
<1>u. UNCHANGED client => client' \in {"open", "closed"}
  BY <1>t DEF CallTypes
<1>v. UNCHANGED allocated => allocated' \in BOOLEAN
  BY <1>t DEF CallTypes
<1>h. StartupRequest \in Awaits
  BY <1>p DEF StartupRequest
<1>l. ASSUME NEW one \in Awaits, NEW other \in Awaits, Leave(o, one, other)
      PROVE  CallTypes'
  BY <1>t, <1>l DEF CallTypes
<1> HIDE DEF Goto, StartClock, StopClock, Leave
<1>r. Raise(o) => CallTypes'
  <2>1. CASE o # Creator /\ Leave(o, "aborting", "raised")
    BY <1>p, <1>l, <2>1
  <2>2. CASE o = Creator /\ Undone("failed")
    BY <1>p, <1>t, <1>c, <1>g, <1>d, <2>2 DEF Undone, CallTypes
  <2>3. CASE CloseClient /\ Goto(o, "raised") /\ StopClock(o) /\ UNCHANGED undo
    BY <1>p, <1>t, <1>c, <1>g, <1>d, <2>3 DEF CallTypes
  <2>4. CASE /\ Goto(o, "undo") /\ deadline' = [deadline EXCEPT ![o] = "ahead"]
             /\ UNCHANGED <<client, undo>>
    BY <1>p, <1>t, <1>g, <2>4 DEF CallTypes
  <2> QED
    BY <2>1, <2>2, <2>3, <2>4 DEF Raise
<1>m. ASSUME NEW where \in Awaits, Goto(o, where), UNCHANGED <<client, allocated>>,
             StartClock(o) \/ StopClock(o) \/ UNCHANGED deadline
      PROVE  CallTypes'
  BY <1>g, <1>d, <1>u, <1>v, <1>m DEF CallTypes
<1>s. StillStarting(o) => CallTypes'
  BY <1>r, <1>h, <1>m DEF StillStarting
<1>1. CASE o = Creator /\ (BeginCreate \/ Prepared \/ Fetched \/ Executed)
  BY <1>1, <1>p, <1>r, <1>h, <1>m, <1>l DEF BeginCreate, Prepared, Fetched, Executed, Return
<1>2. CASE o = Creator /\ Started
  BY <1>2, <1>p, <1>g, <1>d, <1>u DEF Started, CallTypes
<1>3. CASE WindowElapsed(o)
  BY <1>3, <1>s DEF WindowElapsed
<1>4. CASE StartupSeen(o)
  BY <1>4, <1>p, <1>s, <1>r, <1>m, <1>l DEF StartupSeen, StartupOver, Return
<1>5. CASE NotFound(o)
  BY <1>5, <1>p, <1>t DEF NotFound, Settle, CallTypes
<1>6. CASE Stopped(o)
  <2>1. CASE o = Creator /\ Undone("stopped")
    BY <1>p, <1>t, <1>c, <1>g, <1>d, <2>1 DEF Undone, CallTypes
  <2>2. CASE Goto(o, "refresh") /\ UNCHANGED <<client, deadline, undo>>
    BY <1>p, <1>m, <2>2
  <2> QED
    BY <1>6, <2>1, <2>2 DEF Stopped
<1>7. CASE BeginWait(o) \/ BeginTerminate(o)
  BY <1>7, <1>p, <1>h, <1>m DEF BeginWait, BeginTerminate
<1>8. CASE Polled(o) \/ StopRefused(o) \/ Refreshed(o) \/ Missing(o)
  BY <1>8, <1>p, <1>h, <1>m, <1>l, <1>r DEF Polled, StopRefused, Refreshed, Missing, Return
<1>9. CASE Closed(o)
  BY <1>9, <1>p, <1>t, <1>c, <1>g, <1>d DEF Closed, CallTypes
<1>10. CASE Cancel(o)
  BY <1>10, <1>p, <1>l, <1>r DEF Cancel
<1>11. CASE RequestFails(o)
  <2>1. Persist(o) => CallTypes'
    BY <1>t, <1>h DEF Persist, CallTypes
  <2> QED
    BY <1>11, <1>r, <2>1 DEF RequestFails
<1> QED
  BY <1>1, <1>2, <1>3, <1>4, <1>5, <1>6, <1>7, <1>8, <1>9, <1>10, <1>11 DEF CallStep, Proceed

\* A step of a call keeps the invariant.
LEMMA CallInvariant ==
    ASSUME LInv, NEW o \in Callers, CallStep(o)
    PROVE  LInv'
<1>1. Keeps(o) /\ Concludes(o) /\ Creates(o) /\ Shuts(o)
  BY CallSteps DEF Steps
<1>2. CallTypes'
  BY CallTyped
<1> USE DEF LInv
<1>3. LifecycleTypeOK'
  <2>1. ssh' \in {"open", "closed"}
    BY DEF LifecycleTypeOK, CallStep, Proceed, BeginCreate, BeginWait, BeginTerminate, Prepared,
        Started, Fetched, Executed, WindowElapsed, StartupSeen, NotFound, Polled, Stopped,
        StopRefused, Refreshed, Missing, Closed, RequestFails, Cancel
  <2>2. known' \in Statuses \cup {None} /\ rollback' \in {None, "stopped", "failed"}
    BY <1>1 DEF LifecycleTypeOK, Concludes, Creates, Keeps
  <2>3. \A p \in Callers : reply'[p] # None => pc'[p] \in Requests
    BY <1>1 DEF LifecycleTypeOK, Keeps
  <2> QED
    BY <1>1, <1>2, <2>1, <2>2, <2>3 DEF LifecycleTypeOK, Keeps, Concludes, CallTypes, Awaits
<1>4. Roles'
  BY <1>1 DEF Roles, Keeps
<1>5. InOrder'
  <2>1. CASE o = Creator
    <3>1. reply[o] = "id" => status # "none"
      BY <2>1 DEF InOrder, Answers
    <3> QED
      BY <1>1, <2>1, <3>1 DEF InOrder, Keeps, Creates
  <2>2. CASE o # Creator
    BY <1>1, <2>2 DEF InOrder, Keeps
  <2> QED
    BY <2>1, <2>2
<1>6. AnswersTrue'
  <2>1. Over' = Over /\ asked' = asked
    BY <1>1 DEF Keeps, Over
  <2>2. known' \notin {"none", "gone"} /\ (known' = "over" => Over)
    BY <1>1 DEF AnswersTrue, Concludes
  <2>3. /\ None \notin Statuses \cup {"id", "window", "stopped", "not ready"}
        /\ None \notin {"none", "gone", "over"}
    BY DEF Answers, Statuses
  <2>4. ASSUME NEW p \in Callers
        PROVE  /\ reply'[p] = "id" => pc'[p] = "start"
               /\ reply'[p] = "window" => pc'[p] = "hold"
               /\ reply'[p] \in {"stopped", "not ready"} => pc'[p] \in Stops
               /\ reply'[p] \in Statuses => pc'[p] \in Reads \cup {"hold"}
               /\ reply'[p] \notin {"none", "gone"}
               /\ reply'[p] = "over" => Over
               /\ reply'[p] = "stopped" \/ pc'[p] = "refresh" => asked \/ Over
    <3>1. CASE p # o
      BY <1>1, <3>1 DEF AnswersTrue, Keeps
    <3>2. CASE p = o
      <4>1. reply'[p] = None
        BY <1>1, <3>2 DEF Keeps
      <4>2. pc'[p] = "refresh" => asked \/ Over
        BY <1>1, <3>2 DEF AnswersTrue, Concludes
      <4> QED
        BY <2>3, <4>1, <4>2
    <3> QED
      BY <3>1, <3>2
  <2> QED
    BY <2>1, <2>2, <2>4 DEF AnswersTrue
<1>7. NotFoundTrue'
  <2>1. None \notin Statuses
    BY DEF Answers
  <2> QED
    BY <1>1, <2>1 DEF NotFoundTrue, Keeps, Concludes, Answers
<1>8. RolledBack'
  BY <1>1 DEF RolledBack, AnswersTrue, Keeps, Creates, Over
<1>9. ClientKept'
  BY <1>1 DEF ClientKept, Keeps, Shuts, CloseClient
<1>10. FallbackWarranted'
  BY <1>1 DEF FallbackWarranted, NotFoundTrue, Keeps, Concludes
<1>11. TerminateMeansStopped'
  BY <1>1 DEF TerminateMeansStopped, AnswersTrue, Keeps, Concludes, Over
<1> QED
  BY <1>3, <1>4, <1>5, <1>6, <1>7, <1>8, <1>9, <1>10, <1>11

\* What the service answers is true.
LEMMA ServeInvariant ==
    ASSUME LInv, NEW o \in Callers, Serve(o)
    PROVE  LInv'
<1> USE DEF LInv
<1>f. /\ {"id", "missing", "window", "stopped", "not ready", "over", "ready"} \subseteq Answers
      /\ {"id", "missing", "window", "stopped", "not ready"} \cap Statuses = {}
      /\ None \notin {"none", "gone", "over", "created", "ready", "stopped"}
  BY DEF Answers, Statuses, Live
<1>1. PICK a \in Answers :
         /\ reply' = [reply EXCEPT ![o] = a] /\ reply[o] = None /\ pc[o] \in Requests
         /\ a = "id" => pc[o] = "start"
         /\ a = "window" => pc[o] = "hold"
         /\ a \in {"stopped", "not ready"} => pc[o] \in Stops
         /\ a \in Statuses => pc[o] \in Reads \cup {"hold"}
         /\ a \notin {"none", "gone"}
         /\ a = "over" => Over
         /\ a = "stopped" => asked' \/ Over'
         /\ pc[o] = "hold" /\ a = "missing" => ~offersWait \/ status = "gone"
         /\ pc[o] = "settle" /\ a \in Statuses => status # "gone"
  <2>1. CASE ServeStart(o)
    BY <1>f, <2>1 DEF ServeStart, Unserved, Requests
  <2>2. CASE ServeRead(o)
    <3>1. pc[o] \in Reads => status # "none"
      <4>1. CASE o = Creator
        BY <4>1 DEF InOrder, Roles, CreatorAwaits, Reads
      <4>2. CASE o # Creator
        BY <4>2 DEF InOrder, Reads
      <4> QED
        BY <4>1, <4>2
    <3>2. "missing" \in Answers /\ Statuses \subseteq Answers /\ "missing" \notin Statuses
      BY DEF Answers, Statuses, Live
    <3>3. status \in Statuses /\ "id" \notin Statuses /\ "window" \notin Statuses
          /\ "stopped" \notin Statuses /\ "not ready" \notin Statuses
      BY DEF LifecycleTypeOK, Statuses, Live
    <3>4. CASE status = "gone"
      BY <2>2, <3>2, <3>4 DEF ServeRead, Unserved, Requests, Reads
    <3>5. CASE status # "gone"
      BY <2>2, <3>1, <3>2, <3>3, <3>5 DEF ServeRead, Unserved, Requests, Reads, Over
    <3> QED
      BY <3>4, <3>5
  <2>3. CASE ServeWait(o)
    BY <2>3 DEF ServeWait, Unserved, Requests, Startup, Answers, Statuses, Live, Over
  <2>4. CASE ServeStop(o)
    <3>1. pc[o] \in Stops /\ pc[o] \notin {"hold", "settle"} /\ reply[o] = None /\ pc[o] \in Requests
      BY <2>4 DEF ServeStop, Unserved, Requests, Stops
    <3>2. CASE Answer(o, "stopped") /\ (asked' \/ status' = "over")
      BY <1>f, <3>1, <3>2 DEF Over
    <3>3. CASE Answer(o, "not ready") \/ Answer(o, "missing")
      BY <1>f, <3>1, <3>3
    <3> QED
      BY <2>4, <3>2, <3>3 DEF ServeStop
  <2> QED
    BY <2>1, <2>2, <2>3, <2>4 DEF Serve
<1>2. /\ UNCHANGED <<sdk, pc, failing, deadline, undo, offersWait>>
      /\ asked' \in BOOLEAN /\ (asked => asked')
      /\ status' = status \/ (status' = "created" /\ pc[o] = "start")
  <2>1. CASE ServeStart(o)
    BY <2>1 DEF Serve, ServeStart, Unserved, LifecycleTypeOK
  <2>2. CASE ServeRead(o) \/ ServeWait(o)
    BY <2>2 DEF Serve, ServeRead, ServeWait, LifecycleTypeOK
  <2>3. CASE ServeStop(o)
    <3>1. (asked' = TRUE \/ asked' = asked) /\ UNCHANGED <<status, offersWait>>
      BY <2>3 DEF ServeStop
    <3>2. UNCHANGED <<sdk, pc, failing, deadline, undo>>
      BY DEF Serve
    <3> QED
      BY <3>1, <3>2 DEF LifecycleTypeOK
  <2> QED
    BY <2>1, <2>2, <2>3 DEF Serve
<1>3. \A p \in Callers : p # o => reply'[p] = reply[p]
  BY <1>1 DEF LifecycleTypeOK
<1>4. reply'[o] \in Answers /\ reply'[o] # None
  BY <1>1 DEF LifecycleTypeOK
\* Before there is a sandbox, nobody has concluded anything of it.
<1>5. CASE pc[o] = "start"
  <2>1. o = Creator /\ status' \in Statuses
    BY <1>2, <1>5 DEF Roles, WaiterAwaits, TerminatorAwaits, LifecycleTypeOK, Statuses, Live
  <2>2. /\ known = None /\ ~allocated /\ rollback = None
        /\ \A p \in Callers : p # o => pc[p] = "idle" /\ reply[p] = None
    BY <1>5, <2>1 DEF InOrder, LifecycleTypeOK, Requests, Reads, Startup, Stops
  <2>3. LifecycleTypeOK'
    BY <1>1, <1>2, <2>1 DEF LifecycleTypeOK
  <2>4. Roles' /\ RolledBack' /\ ClientKept' /\ FallbackWarranted'
    BY <1>2, <1>5, <1>f, <2>1, <2>2 DEF Roles, RolledBack, ClientKept, FallbackWarranted
  <2>5. status' # "none"
    BY <1>1, <1>5 DEF Serve, ServeStart, ServeRead, ServeWait, ServeStop, Unserved, Reads, Stops
  <2>6. InOrder'
    BY <1>2, <2>1, <2>2, <2>5 DEF InOrder
  <2>7. AnswersTrue'
    <3>1. a = "id"
      BY <1>1, <1>5 DEF Serve, ServeStart, ServeRead, ServeWait, ServeStop, Unserved, Reads, Stops,
             LifecycleTypeOK
    <3>2. \A p \in Callers : reply'[p] \in {None, "id"} /\ (reply'[p] = "id" => pc'[p] = "start")
                            /\ pc'[p] # "refresh"
      BY <1>1, <1>2, <1>5, <2>2, <3>1 DEF LifecycleTypeOK
    <3>3. None \notin Statuses \cup {"window", "not ready"}
      BY DEF Answers
    <3> QED
      BY <1>2, <1>f, <2>2, <3>2, <3>3 DEF AnswersTrue
  <2>8. NotFoundTrue'
    BY <1>2, <1>5, <2>2 DEF NotFoundTrue
  <2>9. TerminateMeansStopped'
    BY <1>2, <2>1, <2>2 DEF TerminateMeansStopped
  <2> QED
    BY <2>3, <2>4, <2>6, <2>7, <2>8, <2>9
<1>6. CASE pc[o] # "start"
  <2>1. status' = status
    BY <1>2, <1>6
  <2>2. LifecycleTypeOK'
    BY <1>1, <1>2, <2>1 DEF LifecycleTypeOK
  <2>3. Roles' /\ RolledBack' /\ ClientKept' /\ FallbackWarranted' /\ TerminateMeansStopped'
    BY <1>2, <2>1 DEF Roles, RolledBack, ClientKept, FallbackWarranted, TerminateMeansStopped, Over
  <2>4. InOrder'
    BY <1>1, <1>2, <1>3, <1>6, <2>1 DEF InOrder, Roles, CreatorAwaits, Requests, Reads, Startup, Stops
  <2>5. AnswersTrue'
    <3>1. Over' = Over
      BY <2>1 DEF Over
    <3>2. known' = known
      BY <1>2
    <3>3. ASSUME NEW p \in Callers
          PROVE  /\ reply'[p] = "id" => pc'[p] = "start"
                 /\ reply'[p] = "window" => pc'[p] = "hold"
                 /\ reply'[p] \in {"stopped", "not ready"} => pc'[p] \in Stops
                 /\ reply'[p] \in Statuses => pc'[p] \in Reads \cup {"hold"}
                 /\ reply'[p] \notin {"none", "gone"}
                 /\ reply'[p] = "over" => Over
                 /\ reply'[p] = "stopped" \/ pc'[p] = "refresh" => asked' \/ Over
      <4>1. CASE p # o
        BY <1>2, <1>3, <4>1 DEF AnswersTrue
      <4>2. CASE p = o
        BY <1>1, <1>2, <3>1, <4>2 DEF AnswersTrue, LifecycleTypeOK
      <4> QED
        BY <4>1, <4>2
    <3> QED
      BY <3>1, <3>2, <3>3 DEF AnswersTrue
  <2>6. NotFoundTrue'
    <3> SUFFICES ASSUME NEW p \in Callers
                 PROVE  /\ pc'[p] = "hold" /\ reply'[p] = "missing" => ~offersWait \/ status = "gone"
                        /\ pc'[p] = "settle" => ~offersWait \/ status = "gone"
                        /\ pc'[p] = "settle" /\ reply'[p] \in Statuses => ~offersWait
      BY <1>2, <2>1 DEF NotFoundTrue
    <3>1. CASE p # o
      BY <1>2, <1>3, <3>1 DEF NotFoundTrue
    <3>2. CASE p = o
      BY <1>1, <1>2, <3>2 DEF NotFoundTrue, LifecycleTypeOK
    <3> QED
      BY <3>1, <3>2
  <2> QED
    BY <2>2, <2>3, <2>4, <2>5, <2>6
<1> QED
  BY <1>5, <1>6

\* The sandbox moves forward and a deadline passes without making any answer
\* untrue that somebody relies on.
LEMMA TimeInvariant ==
    ASSUME LInv, SandboxMoves \/ \E o \in Callers : Expire(o)
    PROVE  LInv'
<1> USE DEF LInv
<1>1. CASE SandboxMoves
  <2>1. /\ UNCHANGED <<asked, offersWait, sdk, call, undo>>
        /\ status' \in Statuses /\ status # "none" /\ status' # "none" /\ status # "gone"
        /\ Over => Over'
        /\ status' \in Live => status \in Live
    BY <1>1 DEF SandboxMoves, Over, Statuses, Live
  <2>2. LifecycleTypeOK' /\ Roles' /\ InOrder'
    BY <2>1 DEF LifecycleTypeOK, Roles, InOrder
  <2>3. AnswersTrue'
    BY <2>1 DEF AnswersTrue
  <2>4. NotFoundTrue'
    BY <2>1 DEF NotFoundTrue
  <2>5. RolledBack' /\ ClientKept' /\ FallbackWarranted'
    BY <2>1 DEF RolledBack, ClientKept, FallbackWarranted
  <2>6. TerminateMeansStopped'
    BY <2>1 DEF TerminateMeansStopped, Over
  <2> QED
    BY <2>2, <2>3, <2>4, <2>5, <2>6
<1>2. CASE \E o \in Callers : Expire(o)
  <2>1. /\ UNCHANGED <<api, sdk, pc, reply, failing, undo>>
        /\ deadline' \in [Callers -> {"none", "ahead", "past"}]
    BY <1>2 DEF Expire, LifecycleTypeOK
  <2>2. LifecycleTypeOK' /\ Roles' /\ InOrder'
    BY <2>1 DEF LifecycleTypeOK, Roles, InOrder
  <2>3. AnswersTrue' /\ NotFoundTrue'
    BY <2>1 DEF AnswersTrue, NotFoundTrue, Over
  <2>4. RolledBack' /\ ClientKept' /\ FallbackWarranted' /\ TerminateMeansStopped'
    BY <2>1 DEF RolledBack, ClientKept, FallbackWarranted, TerminateMeansStopped, Over
  <2> QED
    BY <2>2, <2>3, <2>4
<1> QED
  BY <1>1, <1>2

\* Nobody has begun at first.
LEMMA LifecycleInit == Init => LInv
<1> SUFFICES ASSUME Init PROVE LInv
  OBVIOUS
<1>1. LifecycleTypeOK
  <2>1. 0 \in 0 .. Grace
    OBVIOUS
  <2>2. CallTypes /\ \A o \in Callers : reply[o] = None
    BY <2>1 DEF Init, CallTypes, Awaits
  <2>3. status \in Statuses
    BY DEF Init, Statuses, Live
  <2> QED
    BY <2>2, <2>3 DEF Init, LifecycleTypeOK, CallTypes, Awaits
<1>2. Roles /\ InOrder
  BY DEF Init, Roles, InOrder, CreatorAwaits, WaiterAwaits, TerminatorAwaits
<1>3. AnswersTrue
  <2>1. None \notin {"id", "window", "stopped", "not ready", "none", "gone", "over"} \cup Statuses
    BY DEF Answers, Statuses
  <2> QED
    BY <2>1 DEF Init, AnswersTrue
<1>4. NotFoundTrue /\ RolledBack /\ ClientKept /\ FallbackWarranted /\ TerminateMeansStopped
  BY DEF Init, NotFoundTrue, RolledBack, ClientKept, FallbackWarranted, TerminateMeansStopped,
         Answers, Statuses, Live
<1> QED
  BY <1>1, <1>2, <1>3, <1>4 DEF LInv

\* Every step of the lifecycle keeps the invariant.
LEMMA LifecycleNext == LInv /\ [LifecycleStep]_lvars => LInv'
<1> SUFFICES ASSUME LInv, [LifecycleStep]_lvars PROVE LInv'
  OBVIOUS
<1>1. CASE \E o \in Callers : CallStep(o)
  BY <1>1, CallInvariant
<1>2. CASE \E o \in Callers : Serve(o)
  BY <1>2, ServeInvariant
<1>3. CASE SandboxMoves \/ \E o \in Callers : Expire(o)
  BY <1>3, TimeInvariant
<1>4. CASE UNCHANGED lvars
  <2>1. UNCHANGED <<api, sdk, call, undo>>
    BY <1>4 DEF lvars
  <2>2. LifecycleTypeOK' /\ Roles' /\ InOrder'
    BY <2>1 DEF LInv, LifecycleTypeOK, Roles, InOrder
  <2>3. AnswersTrue' /\ NotFoundTrue'
    BY <2>1 DEF LInv, AnswersTrue, NotFoundTrue, Over
  <2>4. RolledBack' /\ ClientKept' /\ FallbackWarranted' /\ TerminateMeansStopped'
    BY <2>1 DEF LInv, RolledBack, ClientKept, FallbackWarranted, TerminateMeansStopped, Over
  <2> QED
    BY <2>2, <2>3, <2>4 DEF LInv
<1> QED
  BY <1>1, <1>2, <1>3, <1>4 DEF LifecycleStep, CallStep

-----------------------------------------------------------------------------
(* Theorems.                                                               *)

\* The inductive invariant holds in every reachable state.
THEOREM LifecycleInvariance == LifecycleSpec => []LInv
<1>1. LInv /\ [LifecycleStep]_lvars => LInv'
  BY LifecycleNext
<1> QED
  BY <1>1, LifecycleInit, PTL DEF LifecycleSpec

\* Every variable keeps its type.
THEOREM LifecycleTyped == LifecycleSpec => []LifecycleTypeOK
<1>1. LInv => LifecycleTypeOK
  BY DEF LInv
<1> QED
  BY <1>1, LifecycleInvariance, PTL

\* A create() that raises leaves no sandbox running that it knows of, unless
\* the service did not take the stop.
THEOREM NoneOrphaned == LifecycleSpec => []NoOrphan
<1>1. LInv => NoOrphan
  BY DEF LInv, RolledBack, NoOrphan, LifecycleTypeOK, Live, Over
<1> QED
  BY <1>1, LifecycleInvariance, PTL

\* A session is closed by who opened it and when no handle needs it, only.
THEOREM SessionKept == LifecycleSpec => []ClientKept
<1>1. LInv => ClientKept
  BY DEF LInv
<1> QED
  BY <1>1, LifecycleInvariance, PTL

\* Only an API without the blocking wait makes a handle give it up, whatever
\* 404s it meets.
THEOREM FallbackIsWarranted == LifecycleSpec => []FallbackWarranted
<1>1. LInv => FallbackWarranted
  BY DEF LInv
<1> QED
  BY <1>1, LifecycleInvariance, PTL

\* terminate() returns only when the sandbox was told to stop or had stopped.
THEOREM TerminateStops == LifecycleSpec => []TerminateMeansStopped
<1>1. LInv => TerminateMeansStopped
  BY DEF LInv
<1> QED
  BY <1>1, LifecycleInvariance, PTL
=============================================================================
