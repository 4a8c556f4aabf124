--------------------------- MODULE DurableProcess ---------------------------
(***************************************************************************)
(* The client half of a durable job (asynchronous/process.py): Process     *)
(* handles, each with a cached status, two output readers and a background *)
(* removal, and the coroutines a program may run on one handle at once.    *)
(* The job on the guest appears only as far as a handle can see it: its    *)
(* persisted state, its output files and whether its directory exists.     *)
(*                                                                         *)
(* A coroutine runs from one await to the next without interruption.  Each *)
(* remote call has an answer made up on the guest (Answer...) and a later  *)
(* step in which the client takes it in, so an answer may be old by then.  *)
(* SSHConnectionManager.run repeats a call whose answer is lost; a signal  *)
(* or a removal may therefore take effect more than once.                  *)
(***************************************************************************)
EXTENDS Naturals

CONSTANTS
    Handles,       \* the Process objects of the program
    Recovered,     \* those it got from get_process()
    Ops,           \* the operations the program has under way at once
    Captured,      \* the streams with stdout= or stderr="capture"
    Retain,        \* retain=True
    MaxBytes,      \* bound: bytes a command writes to one stream
    ChunkSize,     \* bytes fetched by one read, 65536 in the code
    CallsMayFail,  \* TRUE: a call may give up (deadline, retry budget)
    BadText,       \* TRUE: output may fail to decode in text mode
    None

Streams == {"out", "err"}
\* "wait" is wait() or poll(), "outToo" another read of the stream of "out".
ReadOps == {"out", "err", "outToo"}
AllOps == {"wait", "stop", "clean"} \cup ReadOps
Tasks == Handles \X (Ops \cup {"auto"})
Readers == Handles \X Streams
StreamOf(t) == IF t[2] = "err" THEN "err" ELSE "out"
ReaderOf(t) == <<t[1], StreamOf(t)>>
Running(op) == Handles \X ({op} \cap Ops)

\* The states a program tells apart; "over" stands for the terminal ones.
States == {"prepared", "starting", "running", "over"}

ASSUME ProcessAssumption ==
    /\ Recovered \subseteq Handles
    /\ Ops \subseteq AllOps
    /\ Captured \subseteq Streams
    /\ Retain \in BOOLEAN /\ CallsMayFail \in BOOLEAN /\ BadText \in BOOLEAN
    /\ MaxBytes \in Nat /\ ChunkSize \in Nat \ {0}
    /\ None \notin Tasks \cup States \cup {"removed"}

\* can_transition
Following(state) ==
    CASE state = "prepared" -> {"starting", "running", "over"}
      [] state = "starting" -> {"running", "over"}
      [] state = "running"  -> {"over"}
      [] OTHER              -> {}

VARIABLES
    phase,     \* the job's persisted state, or "removed"
    written,   \* bytes in each output file
    final,     \* history: bytes in it when the job got its terminal status
    remover,   \* history: the task whose call removed the job
    opened,    \* the handles there are
    cache,     \* _status
    slock,     \* _status_lock
    clock,     \* _cleanup_lock
    cleaned,   \* _cleaned
    grace,     \* terminate(): "none", "on" after SIGTERM, "over" after 5 s
    offset,    \* _offset of each reader
    have,      \* the bytes a reader has taken into its buffer or decoder
    lost,      \* history: those whose read raised UnicodeDecodeError
    eof,       \* _eof
    reported,  \* _eof_reported
    pc,        \* the await each task is at
    reply,     \* the answer on its way to it
    fetch,     \* _fetch(): where it reads from, up to where the answer goes,
               \* terminal_before_read
    outcome    \* how the last run of each task ended

jobVars == <<phase, written, final, remover>>
handleVars == <<opened, cleaned, grace>>
readerVars == <<offset, have, lost, eof, reported>>
taskVars == <<pc, reply, fetch, outcome>>
lockVars == <<slock, clock>>
vars == <<jobVars, handleVars, readerVars, taskVars, lockVars, cache>>

Background(h) == <<h, "auto">>

\* The awaits of a task, and how it may end: "missing" when there is no status or
\* no output file to read, "backward" when a status went back, "raised" by any
\* other exception.
Awaits == {"idle", "rlock", "lock", "ask", "sleep", "read", "term", "kill",
           "acceptTerm", "acceptKill", "clock", "remove"}
Outcomes == {"none", "ok", "missing", "backward", "raised"}

Over(state) == state = "over"
Least(m, n) == IF m <= n THEN m ELSE n
Bytes == SUBSET (1..MaxBytes)
Fetch == [from : 0..MaxBytes, to : 0..MaxBytes, ended : BOOLEAN]
NoFetch == [from |-> 0, to |-> 0, ended |-> FALSE]

Init ==
    /\ phase = "prepared"
    /\ written = [s \in Streams |-> 0]
    /\ final = [s \in Streams |-> 0]
    /\ remover = None
    /\ opened = {}
    /\ cache = [h \in Handles |-> "prepared"]
    /\ slock = [h \in Handles |-> None]
    /\ clock = [h \in Handles |-> None]
    /\ cleaned = [h \in Handles |-> FALSE]
    /\ grace = [h \in Handles |-> "none"]
    /\ offset = [r \in Readers |-> 0]
    /\ have = [r \in Readers |-> {}] /\ lost = [r \in Readers |-> {}]
    /\ eof = [r \in Readers |-> r[2] \notin Captured]
    /\ reported = [r \in Readers |-> FALSE]
    /\ pc = [t \in Tasks |-> "idle"]
    /\ reply = [t \in Tasks |-> None]
    /\ fetch = [t \in Tasks |-> NoFetch]
    /\ outcome = [t \in Tasks |-> "none"]

-----------------------------------------------------------------------------
(***************************************************************************)
(* The job, as DurableJob has it.  A command may leave descendants behind  *)
(* that write on after its terminal status.                                *)
(***************************************************************************)
JobOnly == UNCHANGED <<handleVars, readerVars, taskVars, lockVars, cache>>

EndsWith == IF phase # "over" THEN written ELSE final

Advance ==
    /\ \/ phase = "prepared" /\ phase' = "starting" /\ UNCHANGED final
       \/ phase = "starting" /\ phase' = "running" /\ UNCHANGED final
       \/ phase = "running"  /\ phase' = "over" /\ final' = written
    /\ JobOnly /\ UNCHANGED <<written, remover>>

Write(s) ==
    /\ s \in Captured
    /\ phase \in {"starting", "running", "over"}
    /\ written[s] < MaxBytes
    /\ written' = [written EXCEPT ![s] = @ + 1]
    /\ JobOnly /\ UNCHANGED <<phase, final, remover>>

\* The guest's answer to a call: its effect, and its state afterwards.
AnswerOnly == UNCHANGED <<handleVars, readerVars, pc, outcome, lockVars, cache>>
Reply(t, answer) == reply' = [reply EXCEPT ![t] = answer]
Waiting(t, where) == pc[t] = where /\ reply[t] = None

\* cat status.json
AnswerStatus(t) ==
    /\ Waiting(t, "ask")
    /\ Reply(t, phase)
    /\ AnswerOnly /\ UNCHANGED <<jobVars, fetch>>

\* dd skip=offset count=size
AnswerOutput(t) ==
    /\ Waiting(t, "read")
    /\ Reply(t, phase)
    /\ fetch' = [fetch EXCEPT
          ![t].to = Least(fetch[t].from + ChunkSize, written[StreamOf(t)])]
    /\ AnswerOnly /\ UNCHANGED jobVars

\* signal_command(..., signal="TERM"): what comes of it is up to the command.
AnswerTerm(t) ==
    /\ Waiting(t, "term")
    /\ Reply(t, phase)
    /\ AnswerOnly /\ UNCHANGED <<jobVars, fetch>>

\* signal_command(..., signal="KILL"): the job is over, or the shell gives up.
AnswerKill(t) ==
    /\ Waiting(t, "kill")
    /\ \/ /\ phase \in States
          /\ phase' = "over"
          /\ final' = EndsWith
          /\ Reply(t, "over") \/ UNCHANGED reply
       \/ /\ Reply(t, "removed")
          /\ UNCHANGED <<phase, final>>
    /\ AnswerOnly /\ UNCHANGED <<written, remover, fetch>>

\* cleanup_command
AnswerRemove(t) ==
    /\ Waiting(t, "remove")
    /\ phase' = "removed"
    /\ remover' = IF phase = "removed" THEN remover ELSE t
    /\ Reply(t, "removed") \/ UNCHANGED reply
    /\ AnswerOnly /\ UNCHANGED <<written, final, fetch>>

-----------------------------------------------------------------------------
(***************************************************************************)
(* Handles.                                                                *)
(***************************************************************************)

\* exec() returns with the acknowledged status, get_process() with the current.
Open(h) ==
    /\ h \notin opened
    /\ phase # "removed"
    /\ h \notin Recovered => phase # "prepared"
    /\ opened' = opened \cup {h}
    /\ cache' = [cache EXCEPT ![h] = phase]
    /\ UNCHANGED <<jobVars, cleaned, grace, readerVars, taskVars, lockVars>>

\* Mutant: the end of one stream is enough for the removal.
RemovableByOneEnd(h, status, ends) ==
    /\ ~Retain /\ ~cleaned[h]
    /\ Over(status)
    /\ \E s \in Streams : ends[<<h, s>>]

\* _maybe_auto_cleanup: the job is over and both streams were read to the end.
Removable(h, status, ends) ==
    /\ ~Retain /\ ~cleaned[h]
    /\ Over(status)
    /\ \A s \in Streams : ends[<<h, s>>]

\* A task goes on to where; looking for a removal, it may start the background
\* task, unless that is still busy.
GoOn(t, where) == pc' = [pc EXCEPT ![t] = where]
GoOnRemoving(t, where, status, ends) ==
    LET h == t[1] IN
    pc' = [pc EXCEPT
             ![t] = where,
             ![Background(h)] = IF @ = "idle" /\ Removable(h, status, ends) THEN "clock" ELSE @]

Ends(t, how) == outcome' = [outcome EXCEPT ![t] = how]
Taken(t) == reply' = [reply EXCEPT ![t] = None] /\ fetch' = [fetch EXCEPT ![t] = NoFetch]
Release(locks, t) == [locks EXCEPT ![t[1]] = IF @ = t THEN None ELSE @]

\* Mutant: an explicit cleanup() does not wait for the job.
BeginCleaning(t) ==
    /\ t[1] \in opened /\ t[2] = "clean" /\ pc[t] = "idle"
    /\ GoOn(t, "clock") /\ Ends(t, "none")
    /\ UNCHANGED <<jobVars, handleVars, readerVars, reply, fetch, lockVars, cache>>

\* wait(), poll() and cleanup() (or __del__) begin with a status refresh.
BeginWaiting(t) ==
    /\ t[1] \in opened /\ t[2] \in {"wait", "clean"} /\ pc[t] = "idle"
    /\ GoOn(t, "lock") /\ Ends(t, "none")
    /\ UNCHANGED <<jobVars, handleVars, readerVars, reply, fetch, lockVars, cache>>

\* A reader at EOF reports it; otherwise _fetch() begins with a status refresh.
StartReading(t) ==
    LET r == ReaderOf(t) IN
    /\ \/ ~eof[r] /\ GoOn(t, "lock") /\ Ends(t, "none") /\ UNCHANGED reported
       \/ eof[r] /\ reported[r] /\ GoOn(t, "idle") /\ Ends(t, "ok") /\ UNCHANGED reported
       \/ /\ eof[r] /\ ~reported[r]
          /\ reported' = [reported EXCEPT ![r] = TRUE]
          /\ GoOnRemoving(t, "idle", cache[t[1]], eof) /\ Ends(t, "ok")
    /\ UNCHANGED <<jobVars, handleVars, offset, have, lost, eof, reply, fetch, lockVars>>
    /\ UNCHANGED cache

\* Mutant: a reader has no lock.
NoLock(t) == TRUE

\* _lock of a reader: a read keeps it from its start until it comes back.
HasReader(t) == t[2] \in ReadOps /\ pc[t] \notin {"idle", "rlock"}
ReaderFree(t) == \A u \in Tasks : ReaderOf(u) = ReaderOf(t) => ~HasReader(u)

BeginReading(t) ==
    /\ t[1] \in opened /\ t[2] \in ReadOps /\ pc[t] = "idle"
    /\ \/ ReaderFree(t) /\ StartReading(t)
       \/ /\ ~ReaderFree(t)
          /\ GoOn(t, "rlock") /\ Ends(t, "none")
          /\ UNCHANGED <<jobVars, handleVars, readerVars, reply, fetch, lockVars, cache>>

LockReader(t) == pc[t] = "rlock" /\ ReaderFree(t) /\ StartReading(t)

\* terminate() trusts the cached status and needs a PID from it.
BeginStopping(t) ==
    LET h == t[1] IN
    /\ h \in opened /\ t[2] = "stop" /\ pc[t] = "idle"
    /\ \/ Over(cache[h]) /\ Ends(t, "ok") /\ UNCHANGED pc
       \/ cache[h] = "prepared" /\ GoOn(t, "sleep") /\ Ends(t, "none")
       \/ cache[h] \in {"starting", "running"} /\ GoOn(t, "term") /\ Ends(t, "none")
    /\ grace' = [grace EXCEPT ![h] = "none"]
    /\ UNCHANGED <<jobVars, opened, cleaned, readerVars, reply, fetch, lockVars, cache>>

\* What a task does with a status it has just refreshed.
Refreshed(t, status) ==
    \/ /\ t[2] = "wait"  \* poll()
       /\ GoOn(t, "idle") /\ Ends(t, "ok") /\ UNCHANGED fetch
    \/ /\ t[2] \in {"wait", "clean"} \/ (t[2] = "stop" /\ grace[t[1]] # "none")
       /\ ~Over(status)
       /\ GoOn(t, "sleep") /\ UNCHANGED <<outcome, fetch>>
    \/ /\ t[2] = "wait" \/ (t[2] = "stop" /\ grace[t[1]] # "none")
       /\ Over(status)
       /\ GoOnRemoving(t, "idle", status, eof) /\ Ends(t, "ok") /\ UNCHANGED fetch
    \/ /\ t[2] = "clean" /\ Over(status)
       /\ GoOnRemoving(t, "clock", status, eof) /\ UNCHANGED <<outcome, fetch>>
    \/ /\ t[2] \in ReadOps
       /\ fetch' = [fetch EXCEPT ![t] = [from |-> offset[ReaderOf(t)], to |-> offset[ReaderOf(t)],
                                        ended |-> Over(status)]]
       /\ GoOn(t, "read") /\ UNCHANGED outcome
    \/ /\ t[2] = "stop" /\ grace[t[1]] = "none"
       /\ \/ Over(status) /\ GoOn(t, "idle") /\ Ends(t, "ok")
          \/ status = "prepared" /\ GoOn(t, "sleep") /\ UNCHANGED outcome
          \/ status \in {"starting", "running"} /\ GoOn(t, "term") /\ UNCHANGED outcome
       /\ UNCHANGED fetch

\* _refresh_status: a terminal status is final and asked for no more ...
FindStatus(t) ==
    /\ pc[t] = "lock" /\ slock[t[1]] = None
    /\ Over(cache[t[1]])
    /\ Refreshed(t, "over")
    /\ UNCHANGED <<jobVars, handleVars, readerVars, reply, lockVars, cache>>

\* ... any other is read again, with the status lock held until the answer is in.
AskStatus(t) ==
    /\ pc[t] = "lock" /\ slock[t[1]] = None
    /\ ~Over(cache[t[1]])
    /\ slock' = [slock EXCEPT ![t[1]] = t]
    /\ GoOn(t, "ask")
    /\ UNCHANGED <<jobVars, handleVars, readerVars, reply, fetch, outcome, clock, cache>>

\* _record_status refuses what can_transition does not allow.
Backward(current, following) == following # current /\ following \notin Following(current)

Fails(t, how) == GoOn(t, "idle") /\ Ends(t, how) /\ UNCHANGED <<fetch, cache>>

TakeStatus(t) ==
    LET current == cache[t[1]] following == reply[t] IN
    /\ pc[t] = "ask" /\ following # None
    /\ \/ following = "removed" /\ Fails(t, "missing")
       \/ following # "removed" /\ Backward(current, following) /\ Fails(t, "backward")
       \/ /\ following # "removed" /\ ~Backward(current, following)
          /\ cache' = [cache EXCEPT ![t[1]] = following]
          /\ Refreshed(t, following)
    /\ Reply(t, None) /\ slock' = Release(slock, t)
    /\ UNCHANGED <<jobVars, handleVars, readerVars, clock>>

\* Mutant: the grace period ends without SIGKILL.
WakeUnarmed(t) ==
    /\ pc[t] = "sleep"
    /\ IF t[2] = "stop" /\ grace[t[1]] = "over"
       THEN GoOn(t, "idle") /\ Ends(t, "ok")
       ELSE GoOn(t, "lock") /\ UNCHANGED outcome
    /\ UNCHANGED <<jobVars, handleVars, readerVars, reply, fetch, lockVars, cache>>

\* asyncio.sleep is over: next round, or SIGKILL after the grace period.
Wake(t) ==
    /\ pc[t] = "sleep"
    /\ GoOn(t, IF t[2] = "stop" /\ grace[t[1]] = "over" THEN "kill" ELSE "lock")
    /\ UNCHANGED <<jobVars, handleVars, readerVars, reply, fetch, outcome, lockVars, cache>>

GraceExpires(h) ==
    /\ grace[h] = "on"
    /\ grace' = [grace EXCEPT ![h] = "over"]
    /\ UNCHANGED <<jobVars, opened, cleaned, readerVars, taskVars, lockVars, cache>>

\* _signal_job: a nonzero exit code is an error; a status waits to be accepted.
TakeSignal(t) ==
    /\ pc[t] \in {"term", "kill"} /\ reply[t] # None
    /\ \/ reply[t] = "removed" /\ GoOn(t, "idle") /\ Ends(t, "raised") /\ Taken(t)
       \/ /\ reply[t] # "removed"
          /\ GoOn(t, IF pc[t] = "term" THEN "acceptTerm" ELSE "acceptKill")
          /\ UNCHANGED <<outcome, reply, fetch>>
    /\ UNCHANGED <<jobVars, handleVars, readerVars, lockVars, cache>>

\* terminate() goes on with the status it has accepted.
Accepted(t, status) ==
    \/ /\ Over(status)
       /\ GoOnRemoving(t, "idle", status, eof) /\ Ends(t, "ok") /\ UNCHANGED grace
    \/ /\ ~Over(status) /\ pc[t] = "acceptTerm"
       /\ GoOn(t, "lock") /\ grace' = [grace EXCEPT ![t[1]] = "on"] /\ UNCHANGED outcome
    \/ /\ ~Over(status) /\ pc[t] = "acceptKill"
       /\ GoOn(t, "idle") /\ Ends(t, "raised") /\ UNCHANGED grace

\* _accept_status: the status lock is taken only now, after the answer.
Accept(t) ==
    LET current == cache[t[1]] following == reply[t] IN
    /\ pc[t] \in {"acceptTerm", "acceptKill"} /\ slock[t[1]] = None
    /\ \/ Over(current) /\ Accepted(t, current) /\ UNCHANGED cache
       \/ /\ ~Over(current) /\ Backward(current, following)
          /\ GoOn(t, "idle") /\ Ends(t, "backward") /\ UNCHANGED <<grace, cache>>
       \/ /\ ~Over(current) /\ ~Backward(current, following)
          /\ cache' = [cache EXCEPT ![t[1]] = following]
          /\ Accepted(t, following)
    /\ Taken(t)
    /\ UNCHANGED <<jobVars, opened, cleaned, readerVars, lockVars>>

\* A chunk is decoded and buffered; read(-1) and readline() may want more.  The
\* offset is past the chunk before the decoder has seen it.
TakeChunk(t) ==
    LET r == ReaderOf(t)
        bytes == fetch[t].from + 1 .. fetch[t].to IN
    /\ pc[t] = "read" /\ reply[t] \in States /\ fetch[t].to > fetch[t].from
    /\ offset' = [offset EXCEPT ![r] = @ + (fetch[t].to - fetch[t].from)]
    /\ \/ /\ have' = [have EXCEPT ![r] = @ \cup bytes]
          /\ \/ GoOn(t, "lock") /\ UNCHANGED outcome
             \/ GoOn(t, "idle") /\ Ends(t, "ok")
          /\ UNCHANGED lost
       \/ /\ BadText
          /\ lost' = [lost EXCEPT ![r] = @ \cup bytes]
          /\ GoOn(t, "idle") /\ Ends(t, "raised") /\ UNCHANGED have
    /\ Taken(t)
    /\ UNCHANGED <<jobVars, handleVars, eof, reported, lockVars, cache>>

Empty(t) == pc[t] = "read" /\ reply[t] \in States /\ fetch[t].to = fetch[t].from
SetEOF(t) ==
    /\ eof' = [eof EXCEPT ![ReaderOf(t)] = TRUE]
    /\ reported' = [reported EXCEPT ![ReaderOf(t)] = TRUE]
NotYet(t) == GoOn(t, "sleep") /\ UNCHANGED <<eof, reported, outcome>>

\* Mutant: the end of the output is judged by the status known by now.
TakeEmptyLate(t) ==
    /\ Empty(t)
    /\ \/ ~Over(cache[t[1]]) /\ NotYet(t)
       \/ /\ Over(cache[t[1]]) /\ SetEOF(t)
          /\ GoOnRemoving(t, "idle", cache[t[1]], eof') /\ Ends(t, "ok")
    /\ Taken(t)
    /\ UNCHANGED <<jobVars, handleVars, offset, have, lost, lockVars, cache>>

\* Mutant: the end of the output does not look for a removal.
TakeEmptyQuietly(t) ==
    /\ Empty(t)
    /\ \/ ~fetch[t].ended /\ NotYet(t)
       \/ fetch[t].ended /\ SetEOF(t) /\ GoOn(t, "idle") /\ Ends(t, "ok")
    /\ Taken(t)
    /\ UNCHANGED <<jobVars, handleVars, offset, have, lost, lockVars, cache>>

\* No more output for now: the end, if the job was over before the read.
TakeEmpty(t) ==
    /\ Empty(t)
    /\ \/ ~fetch[t].ended /\ NotYet(t)
       \/ /\ fetch[t].ended /\ SetEOF(t)
          /\ GoOnRemoving(t, "idle", cache[t[1]], eof') /\ Ends(t, "ok")
       \/ /\ fetch[t].ended /\ BadText
          /\ GoOn(t, "idle") /\ Ends(t, "raised") /\ UNCHANGED <<eof, reported>>
    /\ Taken(t)
    /\ UNCHANGED <<jobVars, handleVars, offset, have, lost, lockVars, cache>>

\* dd fails when there is no such file.
TakeNoFile(t) ==
    /\ pc[t] = "read" /\ reply[t] = "removed"
    /\ GoOn(t, "idle") /\ Ends(t, "missing") /\ Taken(t)
    /\ UNCHANGED <<jobVars, handleVars, readerVars, lockVars, cache>>

\* _cleanup_remote
LockCleanup(t) ==
    /\ pc[t] = "clock" /\ clock[t[1]] = None
    /\ \/ cleaned[t[1]] /\ GoOn(t, "idle") /\ Ends(t, "ok") /\ UNCHANGED clock
       \/ /\ ~cleaned[t[1]]
          /\ clock' = [clock EXCEPT ![t[1]] = t]
          /\ GoOn(t, "remove") /\ UNCHANGED outcome
    /\ UNCHANGED <<jobVars, handleVars, readerVars, reply, fetch, slock, cache>>

TakeRemoved(t) ==
    /\ pc[t] = "remove" /\ reply[t] # None
    /\ cleaned' = [cleaned EXCEPT ![t[1]] = TRUE]
    /\ GoOn(t, "idle") /\ Ends(t, "ok") /\ Taken(t)
    /\ clock' = Release(clock, t)
    /\ UNCHANGED <<jobVars, opened, grace, readerVars, slock, cache>>

Stops(t, how) ==
    /\ GoOn(t, "idle") /\ Ends(t, how)
    /\ slock' = Release(slock, t) /\ clock' = Release(clock, t)

\* A call gives up: ConnectionError, which terminate() takes for the end of the
\* grace period and nobody sees in the background removal.
CallFails(t) ==
    /\ CallsMayFail
    /\ pc[t] \in {"ask", "read", "term", "kill", "remove"}
    /\ \/ /\ t[2] = "stop" /\ pc[t] = "ask" /\ grace[t[1]] # "none"
          /\ GoOn(t, "kill") /\ slock' = Release(slock, t) /\ UNCHANGED <<outcome, clock>>
       \/ /\ ~(t[2] = "stop" /\ pc[t] = "ask" /\ grace[t[1]] # "none")
          /\ Stops(t, "raised")
    /\ Taken(t)
    /\ UNCHANGED <<jobVars, handleVars, readerVars, cache>>

\* Mutant: a cancelled refresh does not give the status lock back.
CancelHolding(t) ==
    /\ t[2] # "auto" /\ pc[t] # "idle"
    /\ GoOn(t, "idle") /\ Ends(t, "raised") /\ Taken(t)
    /\ clock' = Release(clock, t)
    /\ UNCHANGED <<jobVars, handleVars, readerVars, slock, cache>>

\* A timeout, or the program, cancels an operation at its await.
Cancel(t) ==
    /\ t[2] # "auto" /\ pc[t] # "idle"
    /\ Stops(t, "raised") /\ Taken(t)
    /\ UNCHANGED <<jobVars, handleVars, readerVars, cache>>

-----------------------------------------------------------------------------
Answer(t) ==
    \/ AnswerStatus(t) \/ (t[2] \in ReadOps /\ AnswerOutput(t))
    \/ AnswerTerm(t) \/ AnswerKill(t) \/ AnswerRemove(t)
AnswerArrives(t) == Answer(t) /\ reply'[t] # None

Begin(t) == BeginWaiting(t) \/ BeginReading(t) \/ BeginStopping(t)

Locks(t) == LockReader(t) \/ FindStatus(t) \/ AskStatus(t) \/ Accept(t) \/ LockCleanup(t)

Takes(t) ==
    \/ TakeStatus(t) \/ TakeSignal(t) \/ TakeRemoved(t) \/ Wake(t)
    \/ (t[2] \in ReadOps /\ (TakeChunk(t) \/ TakeEmpty(t) \/ TakeNoFile(t)))

Next ==
    \/ Advance
    \/ \E s \in Streams : Write(s)
    \/ \E h \in Handles : Open(h) \/ GraceExpires(h)
    \/ \E t \in Tasks :
          Begin(t) \/ Answer(t) \/ Locks(t) \/ Takes(t) \/ CallFails(t) \/ Cancel(t)

Spec == Init /\ [][Next]_vars

(***************************************************************************)
(* The event loop runs every task that can go on, asyncio.Lock serves its  *)
(* waiters first come first served (hence SF), clocks go on, and a call    *)
(* that is repeated long enough is answered.  Nothing is promised of the   *)
(* command, or of what the program calls.                                  *)
(***************************************************************************)
LoopFairness ==
    /\ \A t \in Tasks : WF_vars(Takes(t)) /\ SF_vars(Locks(t)) /\ WF_vars(AnswerArrives(t))
    /\ \A h \in Handles : WF_vars(GraceExpires(h))

FairSpec == Spec /\ LoopFairness

-----------------------------------------------------------------------------
(***************************************************************************)
(* Properties.                                                             *)
(***************************************************************************)

\* Every variable keeps its type.
TypeOK ==
    /\ phase \in States \cup {"removed"}
    /\ written \in [Streams -> 0..MaxBytes] /\ final \in [Streams -> 0..MaxBytes]
    /\ remover \in Tasks \cup {None}
    /\ opened \subseteq Handles
    /\ cache \in [Handles -> States]
    /\ slock \in [Handles -> Tasks \cup {None}] /\ clock \in [Handles -> Tasks \cup {None}]
    /\ cleaned \in [Handles -> BOOLEAN]
    /\ grace \in [Handles -> {"none", "on", "over"}]
    /\ offset \in [Readers -> 0..MaxBytes]
    /\ have \in [Readers -> Bytes] /\ lost \in [Readers -> Bytes]
    /\ eof \in [Readers -> BOOLEAN] /\ reported \in [Readers -> BOOLEAN]
    /\ pc \in [Tasks -> Awaits]
    /\ reply \in [Tasks -> States \cup {"removed", None}]
    /\ fetch \in [Tasks -> Fetch]
    /\ outcome \in [Tasks -> Outcomes]

\* A reader at EOF has all that the command wrote before its terminal status,
\* even if the command ended between the status and the output it read; only what
\* a UnicodeDecodeError was raised for is missing.
EofMeansAll ==
    \A r \in Readers :
        eof[r] /\ r[2] \in Captured => 1..final[r[2]] \subseteq have[r] \cup lost[r]

\* Whatever reads of one stream run at once, fail, are repeated or cancelled, each
\* byte up to the offset was taken once: into the buffer, or into the chunk that
\* a UnicodeDecodeError was raised for.  None is skipped, none fetched twice.
NoGaps ==
    \A r \in Readers :
        /\ have[r] \cup lost[r] = 1..offset[r]
        /\ have[r] \cap lost[r] = {}

\* README.md:212 (false in text mode): output comes without gaps.  A chunk that
\* does not decode is passed over by the next read.
NothingLost == \A r \in Readers : lost[r] = {}

\* A handle that removes its job in the background has no use for it any more:
\* none of its reads, waits and polls finds the job missing.  (terminate() may
\* still send a signal: the guest refuses it, which is another outcome.)
OwnReadsFindJob ==
    \A t \in Tasks : outcome[t] = "missing" => remover # Background(t[1])

\* A job is removed only when it is over, explicitly or in the background.
RemovesOnlyFinished == [][phase # "removed" /\ phase' = "removed" => phase = "over"]_vars

\* terminate() returns without an error only when the job is over.
StoppedMeansOver ==
    \A t \in Running("stop") : outcome[t] = "ok" => phase \in {"over", "removed"}

\* terminate() never takes a status it has overtaken for a job that moved backward.
NoFalseBackward == \A t \in Tasks : outcome[t] # "backward"

Busy(t) == pc[t] # "idle"

\* However the status lock is used, terminate() of a job that has a PID comes
\* to an end, with SIGKILL if need be, and wait() does after the job has.
CallsEnd ==
    /\ \A t \in Running("stop") : Busy(t) /\ phase # "prepared" ~> ~Busy(t)
    /\ \A t \in Running("wait") : Busy(t) /\ phase = "over" ~> ~Busy(t)

\* Once an operation on a handle has come back, the handle knows the job to be
\* over and both its streams are at EOF, the job is removed from the guest.
AutoRemoved ==
    \A h \in Handles :
        /\ \E op \in Ops : outcome[<<h, op>>] = "ok"
        /\ ~Retain /\ Over(cache[h])
        /\ \A s \in Streams : eof[<<h, s>>]
        ~> phase = "removed"
=============================================================================
