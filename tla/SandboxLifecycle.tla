-------------------------- MODULE SandboxLifecycle --------------------------
(***************************************************************************)
(* A Sandbox (asynchronous/sandbox.py) from its creation to terminate():   *)
(* the requests its operations make, the answers that come late or not at  *)
(* all, and the Client whose session they share.                           *)
(*                                                                         *)
(* A request is served in one step and its answer handled in another; in   *)
(* between the sandbox may change. It fails by a ConnectionError or a      *)
(* RetryableError at any time, so after it took effect as well as before.  *)
(* The pause before the next poll is part of the request that follows.     *)
(***************************************************************************)
EXTENDS Naturals

CONSTANTS Creator,      \* the call of create(), from_id() or from_name()
          Waiters,      \* calls of wait() or wait_until_ready()
          Terminators,  \* calls of terminate()
          Timed,        \* those of them that are given a timeout
          Grace,        \* OUTAGE_GRACE_SECONDS, in failures in a row
          None

Callers == {Creator} \cup Waiters \cup Terminators

Live == {"created", "ready"}
Statuses == Live \cup {"none", "over", "gone"}
Answers == Statuses \cup {"id", "missing", "window", "stopped", "not ready"}

ASSUME CallersAssumption ==
    Creator \notin Waiters \cup Terminators /\ Waiters \cap Terminators = {}

ASSUME GraceAssumption == Grace \in Nat \ {0}

ASSUME NoneAssumption == None \notin Answers \cup {"failed"}

VARIABLES status,    \* the sandbox: "none" before, "gone" after its record
          asked,     \* a stop was accepted
          offersWait,\* the API has the blocking wait
          owned,     \* the Client was opened by the call that leads to the handle
          client,    \* its session
          ssh,       \* the SSHConnectionManager of the handle
          endpoint,  \* _wait_endpoint_available
          known,     \* status of the handle
          pc, reply, \* of a call: the request it is at, and its answer
          failing,   \* failures in a row since failing_since
          deadline,  \* "none", "ahead" or "past"
          allocated, \* create() has the ID of a sandbox it started
          rollback   \* how the stop that undoes a create() ended

api == <<status, asked, offersWait>>
sdk == <<owned, client, ssh, endpoint, known>>
call == <<pc, reply, failing, deadline>>
undo == <<allocated, rollback>>
lvars == <<api, sdk, call, undo>>

-----------------------------------------------------------------------------
Reads == {"fetch", "poll", "read", "settle", "refresh"}
Startup == {"hold", "read", "settle"}
Stops == {"stop", "stop again", "undo"}
Requests == Reads \cup Startup \cup Stops \cup {"start"}

\* Those whose loop bears with failures.
Retried == Startup \cup Stops \cup {"poll"}

Ended(o) == pc[o] \in {"done", "raised"}
Handle == pc[Creator] = "done"

Init ==
    /\ status \in {"none", "created"}
    /\ asked = FALSE
    /\ offersWait \in BOOLEAN
    /\ owned \in BOOLEAN
    /\ client = "open" /\ ssh = "open"
    /\ endpoint = TRUE
    /\ known = None
    /\ pc = [o \in Callers |-> "idle"]
    /\ reply = [o \in Callers |-> None]
    /\ failing = [o \in Callers |-> 0]
    /\ deadline = [o \in Callers |-> "none"]
    /\ allocated = FALSE
    /\ rollback = None

\* The next await of a call; a success ends a row of failures.
Goto(o, place) ==
    /\ pc' = [pc EXCEPT ![o] = place]
    /\ reply' = [reply EXCEPT ![o] = None]
    /\ failing' = [failing EXCEPT ![o] = 0]

StartClock(o) ==
    deadline' = [deadline EXCEPT ![o] = IF o \in Timed THEN "ahead" ELSE "none"]

StopClock(o) == deadline' = [deadline EXCEPT ![o] = "none"]

-----------------------------------------------------------------------------
(* The service.                                                            *)

Answer(o, a) == reply' = [reply EXCEPT ![o] = a]

Unserved(o, places) == pc[o] \in places /\ reply[o] = None /\ client = "open"

ServeStart(o) ==
    /\ Unserved(o, {"start"})
    /\ status' = "created"
    /\ Answer(o, "id")
    /\ UNCHANGED <<asked, offersWait>>

ServeRead(o) ==
    /\ Unserved(o, Reads)
    /\ Answer(o, IF status = "gone" THEN "missing" ELSE status)
    /\ UNCHANGED api

\* A missing endpoint answers like a missing sandbox.
ServeWait(o) ==
    /\ Unserved(o, {"hold"})
    /\ \/ (~offersWait \/ status = "gone") /\ Answer(o, "missing")
       \/ offersWait /\ status = "created" /\ Answer(o, "window")
       \/ offersWait /\ status \in {"ready", "over"} /\ Answer(o, status)
    /\ UNCHANGED api

\* A sandbox that is starting may have to be ready first.
ServeStop(o) ==
    /\ Unserved(o, Stops)
    /\ \/ status \in Live /\ asked' = TRUE /\ Answer(o, "stopped")
       \/ status = "over" /\ Answer(o, "stopped") /\ UNCHANGED asked
       \/ status = "created" /\ Answer(o, "not ready") /\ UNCHANGED asked
       \/ status = "gone" /\ Answer(o, "missing") /\ UNCHANGED asked
    /\ UNCHANGED <<status, offersWait>>

Serve(o) ==
    /\ ServeStart(o) \/ ServeRead(o) \/ ServeWait(o) \/ ServeStop(o)
    /\ UNCHANGED <<sdk, pc, failing, deadline, undo>>

\* Started, or over: stopped, at its lifetime or of itself; forgotten later.
SandboxMoves ==
    /\ \/ status = "created" /\ status' = "ready"
       \/ status \in Live /\ status' = "over"
       \/ status = "over" /\ status' = "gone"
    /\ UNCHANGED <<asked, offersWait, sdk, call, undo>>

-----------------------------------------------------------------------------
(* How a call ends.                                                        *)

\* Mutant: a Client that was given is closed as well.
CloseClientAnyway == client' = "closed"

\* The Client is closed by whoever opened it, never when it was given.
CloseClient == client' = IF owned THEN "closed" ELSE client

\* terminate() closes what it has to on its way out, which takes a while; the
\* other calls have nothing to close.
Leave(o, finally, end) ==
    /\ Goto(o, IF o \in Terminators THEN finally ELSE end)
    /\ StopClock(o)
    /\ UNCHANGED <<client, undo>>

Return(o) == Leave(o, "closing", "done")

\* create() leaves its handler when the sandbox was told to stop, or could not be.
Undone(how) ==
    /\ rollback' = how
    /\ CloseClient
    /\ Goto(Creator, "raised")
    /\ StopClock(Creator)
    /\ UNCHANGED allocated

\* Mutant: create() does not undo what it has started.
RaiseOnly(o) ==
    IF o = Creator
    THEN CloseClient /\ Goto(o, "raised") /\ StopClock(o) /\ UNCHANGED undo
    ELSE Leave(o, "aborting", "raised")

\* An exception that the loop of the call does not catch.
Raise(o) ==
    \/ o # Creator /\ Leave(o, "aborting", "raised")
    \/ o = Creator /\ pc[o] = "undo" /\ Undone("failed")
    \/ /\ o = Creator /\ pc[o] # "undo" /\ ~allocated
       /\ CloseClient /\ Goto(o, "raised") /\ StopClock(o) /\ UNCHANGED undo
    \/ /\ o = Creator /\ pc[o] # "undo" /\ allocated
       /\ Goto(o, "undo")
       /\ deadline' = [deadline EXCEPT ![o] = "ahead"]
       /\ UNCHANGED <<client, undo>>

-----------------------------------------------------------------------------
(* create(), from_id() and from_name().                                    *)

BeginCreate ==
    /\ pc[Creator] = "idle"
    /\ \/ status = "none" /\ Goto(Creator, "prepare")
       \/ status # "none" /\ Goto(Creator, "fetch")
    /\ StartClock(Creator)
    /\ UNCHANGED <<api, sdk, undo>>

\* Workspace and image are resolved before anything is allocated.
Prepared ==
    /\ pc[Creator] = "prepare"
    /\ \/ Goto(Creator, "start") /\ UNCHANGED <<client, deadline, undo>>
       \/ Raise(Creator)
    /\ UNCHANGED <<api, owned, ssh, endpoint, known>>

Started ==
    /\ reply[Creator] = "id"
    /\ Goto(Creator, "fetch")
    /\ allocated' = TRUE
    /\ UNCHANGED <<api, sdk, deadline, rollback>>

StartupRequest == IF endpoint THEN "hold" ELSE "read"

\* The handle is there; with a command for the sandbox it has to be ready
\* first. Not the workspace that was asked for: undone.
Fetched ==
    /\ pc[Creator] = "fetch" /\ reply[Creator] \in Statuses
    /\ known' = reply[Creator]
    /\ \/ Return(Creator)
       \/ allocated /\ Goto(Creator, StartupRequest) /\ UNCHANGED <<client, deadline, undo>>
       \/ allocated /\ Raise(Creator)
    /\ UNCHANGED <<api, owned, ssh, endpoint>>

\* exec() of that command, which connects and may fail.
Executed ==
    /\ pc[Creator] = "exec"
    /\ Return(Creator) \/ Raise(Creator)
    /\ UNCHANGED <<api, owned, ssh, endpoint, known>>

-----------------------------------------------------------------------------
(* _wait_for_startup(), for create(), wait_until_ready() and terminate().  *)

\* The sandbox has left "created".
StartupOver(o, seen) ==
    \/ /\ o = Creator /\ seen = "ready"
       /\ Goto(o, "exec") /\ UNCHANGED <<client, deadline, undo>>
    \/ o \in Waiters /\ seen = "ready" /\ Return(o)
    \/ /\ o \in Terminators /\ seen = "ready"
       /\ Goto(o, "stop again") /\ UNCHANGED <<client, deadline, undo>>
    \/ o \in Terminators /\ seen # "ready" /\ Return(o)
    \/ o \notin Terminators /\ seen # "ready" /\ Raise(o)

\* Mutant: another window is opened whatever the time.
StillStartingForEver(o) ==
    Goto(o, StartupRequest) /\ UNCHANGED <<client, deadline, undo>>

\* Mutant: terminate() does not look at the answer of _wait_for_startup.
StillStartingReturns(o) ==
    \/ deadline[o] = "past" /\ Return(o)
    \/ /\ deadline[o] # "past"
       /\ Goto(o, StartupRequest)
       /\ UNCHANGED <<client, deadline, undo>>

StillStarting(o) ==
    \/ deadline[o] = "past" /\ Raise(o)
    \/ /\ deadline[o] # "past"
       /\ Goto(o, StartupRequest)
       /\ UNCHANGED <<client, deadline, undo>>

WindowElapsed(o) ==
    /\ reply[o] = "window"
    /\ StillStarting(o)
    /\ UNCHANGED <<api, owned, ssh, endpoint, known>>

StartupSeen(o) ==
    /\ pc[o] \in Startup /\ reply[o] \in Statuses
    /\ known' = reply[o]
    /\ endpoint' = (endpoint /\ pc[o] # "settle")
    /\ \/ reply[o] # "created" /\ StartupOver(o, reply[o])
       \/ reply[o] = "created" /\ StillStarting(o)
    /\ UNCHANGED <<api, owned, ssh>>

\* The read that follows a 404, within the same attempt.
Settle(o) ==
    /\ pc' = [pc EXCEPT ![o] = "settle"]
    /\ reply' = [reply EXCEPT ![o] = None]
    /\ UNCHANGED failing

\* Mutant: the first 404 is taken for an API without the endpoint.
NotFoundAtOnce(o) ==
    /\ pc[o] = "hold" /\ reply[o] = "missing"
    /\ endpoint' = FALSE
    /\ Settle(o)
    /\ UNCHANGED <<api, owned, client, ssh, known, deadline, undo>>

\* No endpoint or no sandbox: a plain read settles it.
NotFound(o) ==
    /\ pc[o] = "hold" /\ reply[o] = "missing"
    /\ Settle(o)
    /\ UNCHANGED <<api, sdk, deadline, undo>>

-----------------------------------------------------------------------------
(* wait(), wait_until_ready() and terminate().                             *)

BeginWait(o) ==
    /\ o \in Waiters /\ Handle /\ pc[o] = "idle"
    /\ Goto(o, "poll") \/ Goto(o, StartupRequest)
    /\ StartClock(o)
    /\ UNCHANGED <<api, sdk, undo>>

Polled(o) ==
    /\ pc[o] = "poll" /\ reply[o] \in Statuses
    /\ known' = reply[o]
    /\ \/ reply[o] = "over" /\ Return(o)
       \/ reply[o] # "over" /\ deadline[o] = "past" /\ Raise(o)
       \/ /\ reply[o] # "over" /\ deadline[o] # "past"
          /\ Goto(o, "poll")
          /\ UNCHANGED <<client, deadline, undo>>
    /\ UNCHANGED <<api, owned, ssh, endpoint>>

BeginTerminate(o) ==
    /\ o \in Terminators /\ Handle /\ pc[o] = "idle"
    /\ Goto(o, IF known = "over" THEN "closing" ELSE "stop")
    /\ StartClock(o)
    /\ UNCHANGED <<api, sdk, undo>>

Stopped(o) ==
    /\ reply[o] = "stopped"
    /\ IF o = Creator THEN Undone("stopped")
       ELSE Goto(o, "refresh") /\ UNCHANGED <<client, deadline, undo>>
    /\ UNCHANGED <<api, owned, ssh, endpoint, known>>

\* Waits for startup only if that is what the handle still knows of.
StopRefused(o) ==
    /\ reply[o] = "not ready"
    /\ \/ /\ pc[o] = "stop" /\ known = "created"
          /\ Goto(o, StartupRequest)
          /\ UNCHANGED <<client, deadline, undo>>
       \/ (pc[o] # "stop" \/ known # "created") /\ Raise(o)
    /\ UNCHANGED <<api, owned, ssh, endpoint, known>>

Refreshed(o) ==
    /\ pc[o] = "refresh" /\ reply[o] \in Statuses
    /\ known' = reply[o]
    /\ Return(o)
    /\ UNCHANGED <<api, owned, ssh, endpoint>>

\* The finally clause of terminate().
Closed(o) ==
    /\ pc[o] \in {"closing", "aborting"}
    /\ ssh' = "closed"
    /\ CloseClient
    /\ Goto(o, IF pc[o] = "closing" THEN "done" ELSE "raised")
    /\ UNCHANGED <<api, owned, endpoint, known, deadline, undo>>

-----------------------------------------------------------------------------
(* Failures, cancellation and time.                                        *)

\* No sandbox, wherever that does not settle anything else.
Missing(o) ==
    /\ reply[o] = "missing" /\ pc[o] # "hold"
    /\ Raise(o)
    /\ UNCHANGED <<api, owned, ssh, endpoint, known>>

\* Mutant: every failure is the first one.
PersistForEver(o) ==
    /\ deadline[o] # "past"
    /\ pc' = [pc EXCEPT ![o] = IF @ \in Startup THEN StartupRequest ELSE @]
    /\ reply' = [reply EXCEPT ![o] = None]
    /\ UNCHANGED <<failing, client, deadline, undo>>

\* Goes on during an outage that is short, until the deadline.
Persist(o) ==
    /\ failing[o] < Grace /\ deadline[o] # "past"
    /\ pc' = [pc EXCEPT ![o] = IF @ \in Startup THEN StartupRequest ELSE @]
    /\ reply' = [reply EXCEPT ![o] = None]
    /\ failing' = [failing EXCEPT ![o] = @ + 1]
    /\ UNCHANGED <<client, deadline, undo>>

\* A closed session fails like the network does.
RequestFails(o) ==
    /\ pc[o] \in Requests
    /\ \/ pc[o] \in Retried /\ Persist(o)
       \/ (pc[o] \notin Retried \/ failing[o] > 0 \/ deadline[o] = "past") /\ Raise(o)
    /\ UNCHANGED <<api, owned, ssh, endpoint, known>>

\* CancelledError at an await; in the finally clause it skips what is left.
Cancel(o) ==
    /\ pc[o] \notin {"idle"} /\ ~Ended(o)
    /\ \/ pc[o] \in {"closing", "aborting"} /\ Leave(o, "raised", "raised")
       \/ pc[o] \notin {"closing", "aborting"} /\ Raise(o)
    /\ UNCHANGED <<api, owned, ssh, endpoint, known>>

Expire(o) ==
    /\ ~Ended(o) /\ deadline[o] = "ahead"
    /\ deadline' = [deadline EXCEPT ![o] = "past"]
    /\ UNCHANGED <<api, sdk, pc, reply, failing, undo>>

\* What a call does by itself, once it has begun.
Proceed(o) ==
    \/ o = Creator /\ (Prepared \/ Started \/ Fetched \/ Executed)
    \/ client = "open" /\ (\/ WindowElapsed(o) \/ StartupSeen(o) \/ NotFound(o)
                           \/ Polled(o) \/ Stopped(o) \/ StopRefused(o)
                           \/ Refreshed(o) \/ Missing(o))
    \/ Closed(o) \/ RequestFails(o)

LifecycleStep ==
    \/ BeginCreate
    \/ \E o \in Waiters : BeginWait(o)
    \/ \E o \in Terminators : BeginTerminate(o)
    \/ \E o \in Callers : Serve(o) \/ Proceed(o) \/ Cancel(o) \/ Expire(o)
    \/ SandboxMoves

\* A request has a timeout (aiohttp) and clocks go on. Neither the service nor
\* the sandbox owes anybody a move: what is never answered fails.
CallFairness ==
    \A o \in Callers : WF_lvars(Proceed(o)) /\ WF_lvars(Expire(o))

LifecycleSpec == Init /\ [][LifecycleStep]_lvars
FairLifecycleSpec == LifecycleSpec /\ CallFairness

-----------------------------------------------------------------------------
LifecycleTypeOK ==
    /\ status \in Statuses /\ asked \in BOOLEAN /\ offersWait \in BOOLEAN
    /\ owned \in BOOLEAN /\ endpoint \in BOOLEAN
    /\ client \in {"open", "closed"} /\ ssh \in {"open", "closed"}
    /\ known \in Statuses \cup {None}
    /\ pc \in [Callers -> Requests \cup {"idle", "prepare", "exec", "closing",
                                         "aborting", "done", "raised"}]
    /\ reply \in [Callers -> Answers \cup {None}]
    /\ \A o \in Callers : reply[o] # None => pc[o] \in Requests
    /\ failing \in [Callers -> 0 .. Grace]
    /\ deadline \in [Callers -> {"none", "ahead", "past"}]
    /\ allocated \in BOOLEAN
    /\ rollback \in {None, "stopped", "failed"}

\* A create() that raises leaves nothing it knows of running, unless the
\* service did not take the stop: the ID never came, or the stop failed.
NoOrphan ==
    pc[Creator] = "raised" /\ status \in Live =>
       asked \/ ~allocated \/ rollback = "failed"

\* As the tests have it: the half-created sandbox must be stopped.
HalfCreatedStopped ==
    pc[Creator] = "raised" /\ allocated /\ status \in Live => asked

\* The session of a Client that was opened on the way is closed when no handle
\* comes of it; one that somebody gave, or a handle needs, stays open.
ClientKept ==
    /\ owned /\ pc[Creator] = "raised" => client = "closed"
    /\ client = "closed" =>
          owned /\ (pc[Creator] = "raised" \/ \E o \in Terminators : Ended(o))

\* The blocking wait is given up for good only where the API has none.
FallbackWarranted == ~endpoint => ~offersWait

\* terminate() returns only after the sandbox was told to stop or had stopped,
\* whatever it waited for in between.
TerminateMeansStopped ==
    \A o \in Terminators : pc[o] \in {"closing", "done"} =>
       asked \/ status \in {"over", "gone"}

\* A call with a timeout ends, however slow the sandbox and bad the network.
TimeoutEnds ==
    \A o \in Callers : deadline[o] # "none" /\ pc[o] # "idle" ~> Ended(o)

\* A call without one ends when the sandbox does, or its Client is closed.
WaitEnds ==
    \A o \in Waiters :
       pc[o] # "idle" /\ (status \in {"over", "gone"} \/ client = "closed") ~> Ended(o)
=============================================================================
