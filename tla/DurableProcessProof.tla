------------------------ MODULE DurableProcessProof ------------------------
(***************************************************************************)
(* Theorems about DurableProcess for every set of handles and operations,  *)
(* every amount of output and every size of a read.                        *)
(***************************************************************************)
EXTENDS DurableProcess, TLAPS

\* The job has a terminal status, or had one before it was removed.
Finished == phase \in {"over", "removed"}

\* A task is where its operation can be, and answers come only to its calls.
InPlace ==
    \A t \in Tasks :
        /\ pc[t] \in {"lock", "ask", "sleep"} => t[2] # "auto"
        /\ pc[t] \in {"rlock", "read"} => t[2] \in ReadOps
        /\ pc[t] \in {"term", "kill", "acceptTerm", "acceptKill"} => t[2] = "stop"
        /\ pc[t] \in {"clock", "remove"} => t[2] \in {"clean", "auto"}
        /\ t[1] \notin opened => pc[t] = "idle"
        /\ reply[t] # None =>
              pc[t] \in {"ask", "read", "term", "kill", "remove", "acceptTerm", "acceptKill"}
        /\ pc[t] \in {"acceptTerm", "acceptKill"} => reply[t] \in States

\* The status lock is held by exactly the task that asks for a status.
StatusLocked == \A t \in Tasks : pc[t] = "ask" <=> slock[t[1]] = t

\* Only one read has a reader.
ReaderLocked ==
    \A t, u \in Tasks : HasReader(t) /\ HasReader(u) /\ ReaderOf(t) = ReaderOf(u) => t = u

\* A fetch continues at its reader's offset with bytes that are in the file.
WithinFile ==
    /\ \A s \in Streams : final[s] <= written[s]
    /\ \A r \in Readers : offset[r] <= written[r[2]]
    /\ \A t \in Tasks :
          /\ pc[t] # "read" => fetch[t] = NoFetch
          /\ pc[t] = "read" =>
                /\ fetch[t].from = offset[ReaderOf(t)]
                /\ fetch[t].from <= fetch[t].to /\ fetch[t].to <= written[StreamOf(t)]

\* Whoever takes the job to be over is right.
OverIsOver ==
    \/ Finished
    \/ /\ \A h \in Handles : cache[h] # "over"
       /\ \A t \in Tasks :
             /\ reply[t] # "over"
             /\ pc[t] \notin {"clock", "remove"}
             /\ t[2] = "stop" => outcome[t] # "ok"
       /\ \A t \in Tasks : pc[t] = "read" => ~fetch[t].ended
       /\ \A r \in Readers : r[2] \in Captured => ~eof[r]

\* An ended stream was read to where it ended, and an empty read of a job that
\* was over before says that nothing is left.
EofIsFar == \A r \in Readers : eof[r] /\ r[2] \in Captured => offset[r] >= final[r[2]]
EmptyMeansAll ==
    \A t \in Tasks :
        pc[t] = "read" /\ fetch[t].ended /\ reply[t] \in States /\ fetch[t].to = fetch[t].from =>
            fetch[t].from >= final[StreamOf(t)]

\* A job is found missing only after it was removed.
MissingIsRemoved ==
    /\ remover # None => phase = "removed"
    /\ \A t \in Tasks :
          /\ pc[t] \in {"ask", "read"} /\ reply[t] = "removed" => phase = "removed"
          /\ outcome[t] = "missing" => phase = "removed"

\* The background removal begins when nothing on its handle can miss the job.
Done(h) == cache[h] = "over" /\ \A s \in Streams : eof[<<h, s>>]
OnlyWhenDone ==
    \A h \in Handles : pc[Background(h)] # "idle" \/ remover = Background(h) => Done(h)

\* A known end is asked for no more, an ended stream not read.
NotAgain ==
    \A t \in Tasks :
        /\ pc[t] = "ask" => cache[t[1]] # "over"
        /\ HasReader(t) => ~eof[ReaderOf(t)]

IInv ==
    /\ TypeOK /\ InPlace /\ StatusLocked /\ ReaderLocked /\ WithinFile
    /\ OverIsOver /\ EofIsFar /\ EmptyMeansAll /\ NoGaps
    /\ MissingIsRemoved /\ OnlyWhenDone /\ NotAgain /\ OwnReadsFindJob

-----------------------------------------------------------------------------
(* Handles, tasks and readers.                                             *)

\* A task is its handle and its operation; the background removal is one.
LEMMA TaskShape ==
    /\ \A t \in Tasks : t[1] \in Handles /\ t[2] \in Ops \cup {"auto"} /\ t = <<t[1], t[2]>>
    /\ \A t \in Tasks :
          /\ StreamOf(t) \in Streams /\ ReaderOf(t) \in Readers
          /\ ReaderOf(t)[1] = t[1] /\ ReaderOf(t)[2] = StreamOf(t)
    /\ \A h \in Handles : Background(h) \in Tasks /\ Background(h)[1] = h /\ Background(h)[2] = "auto"
    /\ \A t \in Tasks : t[2] = "auto" => t = Background(t[1])
    /\ \A h \in Handles, s \in Streams :
          <<h, s>> \in Readers /\ <<h, s>>[1] = h /\ <<h, s>>[2] = s
    /\ \A r \in Readers : r[1] \in Handles /\ r[2] \in Streams /\ r = <<r[1], r[2]>>
<1>1. \A t \in Tasks : t[1] \in Handles /\ t[2] \in Ops \cup {"auto"} /\ t = <<t[1], t[2]>>
  BY DEF Tasks
<1>2. \A r \in Readers : r[1] \in Handles /\ r[2] \in Streams /\ r = <<r[1], r[2]>>
  BY DEF Readers
<1>3. \A h \in Handles, s \in Streams : <<h, s>> \in Readers
  BY DEF Readers
<1>4. \A h \in Handles : Background(h) \in Tasks
  BY DEF Tasks, Background
<1>5. \A h \in Handles : Background(h)[1] = h /\ Background(h)[2] = "auto"
  BY DEF Background
<1>6. \A t \in Tasks :
         /\ StreamOf(t) \in Streams /\ ReaderOf(t) \in Readers
         /\ ReaderOf(t)[1] = t[1] /\ ReaderOf(t)[2] = StreamOf(t)
  BY <1>1, <1>3 DEF StreamOf, ReaderOf, Streams
<1>7. \A t \in Tasks : t[2] = "auto" => t = Background(t[1])
  BY <1>1 DEF Background
<1> QED
  BY <1>1, <1>2, <1>3, <1>4, <1>5, <1>6, <1>7

-----------------------------------------------------------------------------
(* What the types need: tasks in their places, reads within the file.      *)

Shape == TypeOK /\ InPlace /\ ReaderLocked /\ WithinFile

USE ProcessAssumption DEF jobVars, handleVars, readerVars, taskVars, lockVars,
        GoOn, Ends, Taken, Reply, JobOnly, AnswerOnly, Waiting, Awaits, Outcomes

\* A task that looks for a removal moves on, and starts the background task
\* only from its rest, for a handle whose job is over and read to the end.
LEMMA Removing ==
    ASSUME TypeOK, NEW t \in Tasks, t[2] # "auto", NEW where \in Awaits,
           NEW state, NEW ends, GoOnRemoving(t, where, state, ends)
    PROVE  /\ pc' \in [Tasks -> Awaits]
           /\ pc'[t] = where
           /\ \A u \in Tasks : u # t /\ pc'[u] # pc[u] =>
                 /\ u = Background(t[1]) /\ pc[u] = "idle" /\ pc'[u] = "clock"
                 /\ Removable(t[1], state, ends)
<1>1. t # Background(t[1]) /\ Background(t[1]) \in Tasks
  BY TaskShape
<1> QED
  BY <1>1 DEF GoOnRemoving, TypeOK

\* The types hold before anything is opened.
LEMMA ShapeInit == Init => Shape
<1> SUFFICES ASSUME Init PROVE Shape
  OBVIOUS
<1>1. TypeOK
  <2>1. NoFetch \in Fetch /\ {} \in Bytes
    BY DEF NoFetch, Fetch, Bytes
  <2> QED
    BY <2>1 DEF Init, TypeOK, States
<1>2. InPlace
  BY TaskShape DEF Init, InPlace
<1>3. WithinFile /\ ReaderLocked
  BY TaskShape DEF Init, WithinFile, ReaderLocked, HasReader
<1> QED
  BY <1>1, <1>2, <1>3 DEF Shape

\* The job and the answers of the guest keep the types.
LEMMA TypeGuest ==
    ASSUME Shape, Advance \/ (\E s \in Streams : Write(s)) \/ (\E t \in Tasks : Answer(t))
    PROVE  TypeOK'
<1> USE DEF Shape, TypeOK
<1>1. CASE Advance
  BY <1>1 DEF Advance, States
<1>2. CASE \E s \in Streams : Write(s)
  BY <1>2 DEF Write
<1>3. ASSUME NEW t \in Tasks, Answer(t) PROVE TypeOK'
  <2>1. CASE AnswerStatus(t)
    BY <2>1 DEF AnswerStatus
  <2>2. CASE t[2] \in ReadOps /\ AnswerOutput(t)
    <3>1. StreamOf(t) \in Streams /\ fetch[t] \in Fetch
      BY TaskShape
    <3>2. Least(fetch[t].from + ChunkSize, written[StreamOf(t)]) \in 0 .. MaxBytes
      BY <3>1 DEF Least, Fetch
    <3>3. fetch' \in [Tasks -> Fetch]
      BY <2>2, <3>1, <3>2 DEF AnswerOutput, Fetch
    <3> QED
      BY <2>2, <3>3 DEF AnswerOutput
  <2>3. CASE AnswerTerm(t)
    BY <2>3 DEF AnswerTerm
  <2>4. CASE AnswerKill(t)
    BY <2>4 DEF AnswerKill, EndsWith, States
  <2>5. CASE AnswerRemove(t)
    BY <2>5 DEF AnswerRemove
  <2> QED
    BY <1>3, <2>1, <2>2, <2>3, <2>4, <2>5 DEF Answer
<1> QED
  BY <1>1, <1>2, <1>3

\* Going on with a refreshed status keeps the types of what it touches.
LEMMA TypeRefreshed ==
    ASSUME TypeOK, NEW t \in Tasks, t[2] # "auto", NEW state \in States, Refreshed(t, state)
    PROVE  /\ pc' \in [Tasks -> Awaits]
           /\ outcome' \in [Tasks -> Outcomes]
           /\ fetch' \in [Tasks -> Fetch]
<1>1. pc' \in [Tasks -> Awaits]
  BY Removing DEF Refreshed, TypeOK
<1>2. outcome' \in [Tasks -> Outcomes]
  BY DEF Refreshed, TypeOK
<1>3. fetch' \in [Tasks -> Fetch]
  <2>1. CASE UNCHANGED fetch
    BY <2>1 DEF TypeOK
  <2>2. CASE fetch' = [fetch EXCEPT ![t] = [from |-> offset[ReaderOf(t)], to |-> offset[ReaderOf(t)],
                                            ended |-> Over(state)]]
    <3>1. offset[ReaderOf(t)] \in 0..MaxBytes /\ Over(state) \in BOOLEAN
      BY TaskShape DEF TypeOK, Over
    <3> QED
      BY <2>2, <3>1 DEF TypeOK, Fetch
  <2> QED
    BY <2>1, <2>2 DEF Refreshed
<1> QED
  BY <1>1, <1>2, <1>3

\* A read starts when its reader is free, or queues for it.
Started(t) ==
    /\ t[2] \in ReadOps /\ t[1] \in opened /\ pc[t] \in {"idle", "rlock"}
    /\ ReaderFree(t) /\ StartReading(t)
Queued(t) ==
    /\ t[2] \in ReadOps /\ t[1] \in opened /\ pc[t] = "idle"
    /\ GoOn(t, "rlock") /\ Ends(t, "none")
    /\ UNCHANGED <<jobVars, handleVars, readerVars, reply, fetch, lockVars, cache>>

\* That is how every read comes by its reader's lock.
LEMMA Starting ==
    ASSUME InPlace, NEW t \in Tasks
    PROVE  /\ BeginReading(t) => Started(t) \/ Queued(t)
           /\ LockReader(t) => Started(t)
<1>1. BeginReading(t) => Started(t) \/ Queued(t)
  BY DEF BeginReading, Started, Queued
<1>2. LockReader(t) => Started(t)
  BY DEF InPlace, LockReader, Started
<1> QED
  BY <1>1, <1>2

\* A read that starts only moves, and reports an end.
LEMMA TypeStarting ==
    ASSUME TypeOK, NEW t \in Tasks, t[2] \in ReadOps, StartReading(t)
    PROVE  TypeOK'
<1>1. t[2] # "auto" /\ ReaderOf(t) \in Readers
  BY TaskShape DEF ReadOps
<1>2. pc' \in [Tasks -> Awaits]
  BY <1>1, Removing DEF StartReading, TypeOK
<1>3. reported' \in [Readers -> BOOLEAN] /\ outcome' \in [Tasks -> Outcomes]
  BY <1>1 DEF StartReading, TypeOK
<1>4. UNCHANGED <<jobVars, handleVars, offset, have, lost, eof, reply, fetch, lockVars, cache>>
  BY DEF StartReading
<1> QED
  BY <1>2, <1>3, <1>4 DEF TypeOK

\* What a coroutine does between two awaits keeps the types.
LEMMA TypeTask ==
    ASSUME Shape, NEW t \in Tasks,
           Begin(t) \/ Locks(t) \/ Takes(t) \/ CallFails(t) \/ Cancel(t)
    PROVE  TypeOK'
<1> USE DEF Shape
<1>n. NoFetch \in Fetch
  BY DEF NoFetch, Fetch
<1>h. t[1] \in Handles /\ ReaderOf(t) \in Readers /\ (t[2] \in ReadOps => t[2] # "auto")
  BY TaskShape DEF ReadOps
<1>1. CASE BeginWaiting(t)
  BY <1>1 DEF BeginWaiting, TypeOK
<1>2. CASE BeginReading(t) \/ LockReader(t)
  <2>1. CASE Started(t)
    BY <2>1, TypeStarting DEF Started
  <2>2. CASE Queued(t)
    BY <2>2 DEF Queued, TypeOK
  <2> QED
    BY <1>2, <2>1, <2>2, Starting
<1>3. CASE BeginStopping(t)
  BY <1>3, <1>h DEF BeginStopping, TypeOK
<1>4. CASE FindStatus(t)
  <2>1. t[2] # "auto" /\ "over" \in States
    BY <1>4 DEF FindStatus, InPlace, States
  <2> QED
    BY <1>4, <2>1, TypeRefreshed DEF FindStatus, TypeOK
<1>5. CASE AskStatus(t)
  BY <1>5, <1>h DEF AskStatus, TypeOK
<1>6. CASE TakeStatus(t)
  <2>1. reply[t] # "removed" => reply[t] \in States
    BY <1>6 DEF TakeStatus, TypeOK
  <2>2. t[2] # "auto"
    BY <1>6 DEF TakeStatus, InPlace
  <2>3. slock' \in [Handles -> Tasks \cup {None}]
    BY <1>6 DEF TakeStatus, Release, TypeOK
  <2>4. /\ pc' \in [Tasks -> Awaits] /\ outcome' \in [Tasks -> Outcomes]
        /\ fetch' \in [Tasks -> Fetch]
        /\ cache' \in [Handles -> States]
    <3>1. CASE Fails(t, "missing") \/ Fails(t, "backward")
      BY <3>1 DEF Fails, TypeOK
    <3>2. CASE reply[t] # "removed" /\ Refreshed(t, reply[t])
               /\ cache' = [cache EXCEPT ![t[1]] = reply[t]]
      BY <2>1, <2>2, <3>2, TypeRefreshed DEF TypeOK
    <3> QED
      BY <1>6, <3>1, <3>2 DEF TakeStatus
  <2>5. Reply(t, None) /\ UNCHANGED <<jobVars, handleVars, readerVars, clock>>
    BY <1>6 DEF TakeStatus
  <2> QED
    BY <2>3, <2>4, <2>5 DEF TypeOK
<1>7. CASE Accept(t)
  <2>1. reply[t] \in States /\ t[2] # "auto"
    BY <1>7 DEF Accept, InPlace
  <2>2. pc' \in [Tasks -> Awaits]
    BY <1>7, <2>1, Removing DEF Accept, Accepted, TypeOK
  <2>3. /\ outcome' \in [Tasks -> Outcomes]
        /\ grace' \in [Handles -> {"none", "on", "over"}]
        /\ cache' \in [Handles -> States]
    BY <1>7, <1>h, <2>1 DEF Accept, Accepted, TypeOK
  <2>4. Taken(t) /\ UNCHANGED <<jobVars, opened, cleaned, readerVars, lockVars>>
    BY <1>7 DEF Accept
  <2> QED
    BY <1>n, <2>2, <2>3, <2>4 DEF TypeOK
<1>8. CASE LockCleanup(t)
  BY <1>8, <1>h DEF LockCleanup, TypeOK
<1>9. CASE TakeSignal(t)
  BY <1>9, <1>n DEF TakeSignal, TypeOK
<1>10. CASE TakeRemoved(t)
  BY <1>10, <1>h, <1>n DEF TakeRemoved, Release, TypeOK
<1>11. CASE Wake(t)
  BY <1>11 DEF Wake, TypeOK
<1>12. CASE t[2] \in ReadOps /\ TakeChunk(t)
  <2> DEFINE bytes == fetch[t].from + 1 .. fetch[t].to
  <2>1. /\ fetch[t] \in Fetch
        /\ fetch[t].from = offset[ReaderOf(t)] /\ offset[ReaderOf(t)] \in 0..MaxBytes
    BY <1>12, <1>h DEF TakeChunk, WithinFile, TypeOK
  <2>2. offset[ReaderOf(t)] + (fetch[t].to - fetch[t].from) \in 0..MaxBytes
    BY <2>1 DEF Fetch
  <2>3. bytes \in Bytes
    BY <2>1 DEF Fetch, Bytes
  <2>4. offset' \in [Readers -> 0..MaxBytes]
    BY <1>12, <1>h, <2>2 DEF TakeChunk, TypeOK
  <2>5. /\ have' = have \/ have' = [have EXCEPT ![ReaderOf(t)] = @ \cup bytes]
        /\ lost' = lost \/ lost' = [lost EXCEPT ![ReaderOf(t)] = @ \cup bytes]
    BY <1>12 DEF TakeChunk
  <2> HIDE DEF bytes
  <2>6. have' \in [Readers -> Bytes] /\ lost' \in [Readers -> Bytes]
    BY <1>h, <2>3, <2>5 DEF TypeOK, Bytes
  <2>7. fetch' \in [Tasks -> Fetch]
    BY <1>12, <1>n DEF TakeChunk, TypeOK
  <2> QED
    BY <1>12, <1>h, <2>4, <2>6, <2>7 DEF TakeChunk, TypeOK
<1>13. CASE t[2] \in ReadOps /\ TakeEmpty(t)
  <2>1. pc' \in [Tasks -> Awaits]
    BY <1>13, <1>h, Removing DEF TakeEmpty, NotYet, TypeOK
  <2> QED
    BY <1>13, <1>h, <1>n, <2>1 DEF TakeEmpty, NotYet, SetEOF, TypeOK
<1>14. CASE t[2] \in ReadOps /\ TakeNoFile(t)
  BY <1>14, <1>n DEF TakeNoFile, TypeOK
<1>15. CASE CallFails(t)
  BY <1>15, <1>h, <1>n DEF CallFails, Stops, Release, TypeOK
<1>16. CASE Cancel(t)
  BY <1>16, <1>h, <1>n DEF Cancel, Stops, Release, TypeOK
<1> QED
  BY <1>1, <1>2, <1>3, <1>4, <1>5, <1>6, <1>7, <1>8, <1>9, <1>10, <1>11, <1>12, <1>13,
     <1>14, <1>15, <1>16 DEF Begin, Locks, Takes

\* A task that only moves is in its place when the new one is.
LEMMA InPlaceMoved ==
    ASSUME Shape, NEW t \in Tasks, opened' = opened, t[1] \in opened,
           pc' \in [Tasks -> Awaits], pc'[t] \in {"idle", "rlock", "lock", "ask", "sleep", "read", "term",
                                             "kill", "clock", "remove"},
           pc'[t] \in {"lock", "ask", "sleep"} => t[2] # "auto",
           pc'[t] \in {"rlock", "read"} => t[2] \in ReadOps,
           pc'[t] \in {"term", "kill"} => t[2] = "stop",
           pc'[t] \in {"clock", "remove"} => t[2] \in {"clean", "auto"},
           reply'[t] = None,
           \A u \in Tasks : u # t => reply'[u] = reply[u],
           \A u \in Tasks : u # t /\ pc'[u] # pc[u] =>
               u = Background(t[1]) /\ pc[u] = "idle" /\ pc'[u] = "clock"
    PROVE  InPlace'
<1> SUFFICES ASSUME NEW u \in Tasks
             PROVE  /\ pc'[u] \in {"lock", "ask", "sleep"} => u[2] # "auto"
                    /\ pc'[u] \in {"rlock", "read"} => u[2] \in ReadOps
                    /\ pc'[u] \in {"term", "kill", "acceptTerm", "acceptKill"} => u[2] = "stop"
                    /\ pc'[u] \in {"clock", "remove"} => u[2] \in {"clean", "auto"}
                    /\ u[1] \notin opened => pc'[u] = "idle"
                    /\ reply'[u] # None =>
                          pc'[u] \in {"ask", "read", "term", "kill", "remove",
                                      "acceptTerm", "acceptKill"}
                    /\ pc'[u] \in {"acceptTerm", "acceptKill"} => reply'[u] \in States
  BY DEF InPlace
<1>1. CASE u = t
  BY <1>1
<1>2. CASE u # t /\ pc'[u] = pc[u]
  BY <1>2 DEF Shape, InPlace
<1>3. CASE u # t /\ pc'[u] # pc[u]
  <2>1. u = Background(t[1]) /\ pc[u] = "idle" /\ pc'[u] = "clock"
    BY <1>3
  <2>2. u[2] = "auto" /\ u[1] = t[1]
    BY <2>1, TaskShape
  <2>3. reply'[u] = None
    BY <1>3, <2>1 DEF Shape, InPlace
  <2> QED
    BY <2>1, <2>2, <2>3
<1> QED
  BY <1>1, <1>2, <1>3

\* The guest and new handles leave the tasks in their places.
LEMMA InPlaceGuest ==
    ASSUME Shape,
           \/ Advance \/ (\E s \in Streams : Write(s)) \/ (\E t \in Tasks : Answer(t))
           \/ \E h \in Handles : Open(h) \/ GraceExpires(h)
    PROVE  InPlace'
<1> USE DEF Shape, InPlace
<1>1. CASE Advance \/ (\E s \in Streams : Write(s))
  BY <1>1 DEF Advance, Write
<1>2. ASSUME NEW t \in Tasks, Answer(t) PROVE InPlace'
  <2>1. CASE AnswerStatus(t) \/ AnswerTerm(t)
    BY <2>1 DEF AnswerStatus, AnswerTerm, TypeOK
  <2>2. CASE t[2] \in ReadOps /\ AnswerOutput(t)
    BY <2>2 DEF AnswerOutput, TypeOK
  <2>3. CASE AnswerKill(t)
    BY <2>3 DEF AnswerKill, TypeOK
  <2>4. CASE AnswerRemove(t)
    BY <2>4 DEF AnswerRemove, TypeOK
  <2> QED
    BY <1>2, <2>1, <2>2, <2>3, <2>4 DEF Answer
<1>3. CASE \E h \in Handles : Open(h) \/ GraceExpires(h)
  BY <1>3 DEF Open, GraceExpires
<1> QED
  BY <1>1, <1>2, <1>3

\* A coroutine that goes on is in its place.
LEMMA InPlaceTask ==
    ASSUME Shape, NEW t \in Tasks,
           Begin(t) \/ Locks(t) \/ Takes(t) \/ CallFails(t) \/ Cancel(t)
    PROVE  InPlace'
<1>h. t[1] \in Handles /\ ReaderOf(t) \in Readers /\ (t[2] \in ReadOps => t[2] # "auto")
  BY TaskShape DEF ReadOps
<1>i. /\ pc[t] \in {"lock", "ask", "sleep"} => t[2] # "auto"
      /\ pc[t] \in {"rlock", "read"} => t[2] \in ReadOps
      /\ pc[t] \in {"term", "kill", "acceptTerm", "acceptKill"} => t[2] = "stop"
      /\ pc[t] \in {"clock", "remove"} => t[2] \in {"clean", "auto"}
      /\ pc[t] # "idle" => t[1] \in opened
      /\ pc[t] \in {"idle", "rlock", "lock", "sleep", "clock"} => reply[t] = None
  BY DEF Shape, InPlace
<1>1. CASE BeginWaiting(t)
  BY <1>1, <1>i, InPlaceMoved DEF BeginWaiting, Shape, TypeOK
<1>2. CASE BeginReading(t) \/ LockReader(t)
  <2>1. CASE Started(t)
    <3>1. pc' \in [Tasks -> Awaits] /\ pc'[t] \in {"idle", "lock"}
      BY <1>h, <2>1, Removing DEF Started, StartReading, Shape, TypeOK
    <3>2. \A u \in Tasks : u # t /\ pc'[u] # pc[u] =>
             u = Background(t[1]) /\ pc[u] = "idle" /\ pc'[u] = "clock"
      BY <1>h, <2>1, Removing DEF Started, StartReading, Shape, TypeOK
    <3>3. opened' = opened /\ reply' = reply
      BY <2>1 DEF Started, StartReading
    <3> QED
      BY <1>h, <1>i, <2>1, <3>1, <3>2, <3>3, InPlaceMoved DEF Started
  <2>2. CASE Queued(t)
    BY <1>h, <1>i, <2>2, InPlaceMoved DEF Queued, Shape, TypeOK
  <2> QED
    BY <1>2, <2>1, <2>2, Starting DEF Shape
<1>3. CASE BeginStopping(t)
  BY <1>3, <1>i, InPlaceMoved DEF BeginStopping, Shape, TypeOK
<1>4. CASE FindStatus(t)
  BY <1>4, <1>h, <1>i, Removing, InPlaceMoved DEF FindStatus, Refreshed, Shape, TypeOK
<1>5. CASE AskStatus(t)
  BY <1>5, <1>i, InPlaceMoved DEF AskStatus, Shape, TypeOK
<1>6. CASE TakeStatus(t)
  <2>1. CASE Fails(t, "missing") \/ Fails(t, "backward")
    BY <1>6, <1>i, <2>1, InPlaceMoved DEF TakeStatus, Fails, Shape, TypeOK
  <2>2. CASE Refreshed(t, reply[t])
    <3>1. Reply(t, None) /\ opened' = opened /\ t[2] # "auto" /\ t[1] \in opened
      BY <1>6, <1>i DEF TakeStatus
    <3>2. /\ pc' \in [Tasks -> Awaits]
          /\ \A u \in Tasks : u # t /\ pc'[u] # pc[u] =>
                u = Background(t[1]) /\ pc[u] = "idle" /\ pc'[u] = "clock"
      BY <2>2, <3>1, Removing DEF Refreshed, Shape, TypeOK
    <3>3. /\ pc'[t] \in {"idle", "sleep", "clock", "read", "term"}
          /\ pc'[t] = "read" => t[2] \in ReadOps
          /\ pc'[t] = "term" => t[2] = "stop"
          /\ pc'[t] = "clock" => t[2] = "clean"
      BY <2>2, <3>1, Removing DEF Refreshed, Shape, TypeOK
    <3>4. reply'[t] = None /\ \A u \in Tasks : u # t => reply'[u] = reply[u]
      BY <3>1 DEF Shape, TypeOK
    <3> HIDE DEF Reply, Shape
    <3> QED
      BY <1>h, <2>2, <3>1, <3>2, <3>3, <3>4, InPlaceMoved
  <2> QED
    BY <1>6, <2>1, <2>2 DEF TakeStatus
<1>7. CASE Accept(t)
  <2>1. Taken(t) /\ opened' = opened /\ t[2] = "stop" /\ t[2] # "auto" /\ t[1] \in opened
    BY <1>7, <1>i DEF Accept
  <2>2. /\ pc' \in [Tasks -> Awaits] /\ pc'[t] \in {"idle", "lock"}
        /\ \A u \in Tasks : u # t /\ pc'[u] # pc[u] =>
              u = Background(t[1]) /\ pc[u] = "idle" /\ pc'[u] = "clock"
    BY <1>7, <2>1, Removing DEF Accept, Accepted, Shape, TypeOK
  <2>3. reply'[t] = None /\ \A u \in Tasks : u # t => reply'[u] = reply[u]
    BY <2>1 DEF Shape, TypeOK
  <2> HIDE DEF Taken
  <2> QED
    BY <2>1, <2>2, <2>3, InPlaceMoved
<1>8. CASE LockCleanup(t)
  BY <1>8, <1>i, InPlaceMoved DEF LockCleanup, Shape, TypeOK
<1>9. CASE TakeSignal(t)
  BY <1>9, <1>i DEF TakeSignal, Shape, TypeOK, InPlace
<1>10. CASE TakeRemoved(t)
  BY <1>10, <1>i, InPlaceMoved DEF TakeRemoved, Shape, TypeOK
<1>11. CASE Wake(t)
  BY <1>11, <1>i, InPlaceMoved DEF Wake, Shape, TypeOK
<1>12. CASE t[2] \in ReadOps /\ TakeChunk(t)
  <2>1. GoOn(t, "lock") \/ GoOn(t, "idle")
    BY <1>12 DEF TakeChunk
  <2>2. Taken(t) /\ opened' = opened /\ t[1] \in opened /\ t[2] # "auto"
    BY <1>12, <1>h, <1>i DEF TakeChunk
  <2> QED
    BY <2>1, <2>2, InPlaceMoved DEF Shape, TypeOK
<1>13. CASE t[2] \in ReadOps /\ TakeEmpty(t)
  <2>1. Taken(t) /\ opened' = opened /\ t[2] # "auto" /\ t[1] \in opened
    BY <1>13, <1>h, <1>i DEF TakeEmpty, Empty
  <2>2. /\ pc' \in [Tasks -> Awaits] /\ pc'[t] \in {"idle", "sleep"}
        /\ \A u \in Tasks : u # t /\ pc'[u] # pc[u] =>
              u = Background(t[1]) /\ pc[u] = "idle" /\ pc'[u] = "clock"
    BY <1>13, <2>1, Removing DEF TakeEmpty, NotYet, Shape, TypeOK
  <2>3. reply'[t] = None /\ \A u \in Tasks : u # t => reply'[u] = reply[u]
    BY <2>1 DEF Shape, TypeOK
  <2> HIDE DEF Taken
  <2> QED
    BY <2>1, <2>2, <2>3, InPlaceMoved
<1>14. CASE t[2] \in ReadOps /\ TakeNoFile(t)
  BY <1>14, <1>i, InPlaceMoved DEF TakeNoFile, Shape, TypeOK
<1>15. CASE CallFails(t)
  BY <1>15, <1>i, InPlaceMoved DEF CallFails, Stops, Shape, TypeOK
<1>16. CASE Cancel(t)
  BY <1>16, <1>i, InPlaceMoved DEF Cancel, Stops, Shape, TypeOK
<1> QED
  BY <1>1, <1>2, <1>3, <1>4, <1>5, <1>6, <1>7, <1>8, <1>9, <1>10, <1>11, <1>12, <1>13,
     <1>14, <1>15, <1>16 DEF Begin, Locks, Takes

\* New handles and the end of a grace period keep the types.
LEMMA TypeHandles ==
    ASSUME Shape, NEW h \in Handles, Open(h) \/ GraceExpires(h)
    PROVE  TypeOK'
<1> USE DEF Shape
<1>1. CASE Open(h)
  <2>1. phase \in States
    BY <1>1 DEF Open, TypeOK
  <2> QED
    BY <1>1, <2>1 DEF Open, TypeOK
<1>2. CASE GraceExpires(h)
  BY <1>2 DEF GraceExpires, TypeOK
<1> QED
  BY <1>1, <1>2

-----------------------------------------------------------------------------
(* What a coroutine leaves alone.                                          *)

TaskStep(t) == Begin(t) \/ Locks(t) \/ Takes(t) \/ CallFails(t) \/ Cancel(t)

\* The job and the other tasks, except that the background task may start for
\* a handle that is done; a known end stays known, an ended stream ended.
Frame(t) ==
    /\ UNCHANGED jobVars
    /\ \A u \in Tasks : u # t =>
          reply'[u] = reply[u] /\ fetch'[u] = fetch[u] /\ outcome'[u] = outcome[u]
    /\ \A u \in Tasks : u # t /\ pc'[u] # pc[u] =>
          u = Background(t[1]) /\ pc[u] = "idle" /\ pc'[u] = "clock" /\ Done(t[1])'
    /\ \A r \in Readers : r # ReaderOf(t) \/ ~HasReader(t) =>
          offset'[r] = offset[r] /\ have'[r] = have[r] /\ lost'[r] = lost[r] /\ eof'[r] = eof[r]
    /\ \A r \in Readers : eof[r] => eof'[r]
    /\ \A h \in Handles : h # t[1] \/ cache[h] = "over" => cache'[h] = cache[h]

\* Refreshing a status touches no other task's state.
LEMMA RefreshedFrame ==
    ASSUME Shape, NEW t \in Tasks, t[2] # "auto", NEW state \in States, Refreshed(t, state),
           cache'[t[1]] = state, UNCHANGED eof
    PROVE  /\ \A u \in Tasks : u # t => outcome'[u] = outcome[u]
           /\ \A u \in Tasks : u # t /\ pc'[u] # pc[u] =>
                 u = Background(t[1]) /\ pc[u] = "idle" /\ pc'[u] = "clock" /\ Done(t[1])'
           /\ \A u \in Tasks : u # t => fetch'[u] = fetch[u]
<1>1. \A u \in Tasks : u # t => outcome'[u] = outcome[u]
  BY DEF Refreshed, Shape, TypeOK
<1>2. \A u \in Tasks : u # t => fetch'[u] = fetch[u]
  BY DEF Refreshed, Shape, TypeOK
<1>3. ASSUME NEW u \in Tasks, u # t, pc'[u] # pc[u]
      PROVE  u = Background(t[1]) /\ pc[u] = "idle" /\ pc'[u] = "clock" /\ Done(t[1])'
  <2>1. \E where \in Awaits : GoOnRemoving(t, where, state, eof)
    BY <1>3 DEF Refreshed, Shape, TypeOK
  <2> QED
    BY <1>3, <2>1, Removing DEF Removable, Done, Over, Shape
<1> QED
  BY <1>1, <1>2, <1>3

\* Every step of a coroutine keeps to its frame.
LEMMA TaskFrame ==
    ASSUME Shape, NEW t \in Tasks, TaskStep(t)
    PROVE  Frame(t)
<1> USE DEF Shape, TypeOK
<1>h. t[1] \in Handles /\ ReaderOf(t) \in Readers /\ (t[2] \in ReadOps => t[2] # "auto")
  BY TaskShape DEF ReadOps
<1>1. CASE BeginWaiting(t)
  BY <1>1 DEF BeginWaiting, Frame
<1>2. CASE BeginReading(t) \/ LockReader(t)
  <2>1. CASE Queued(t)
    BY <2>1 DEF Queued, Frame
  <2>2. CASE Started(t) /\ (GoOn(t, "lock") \/ GoOn(t, "idle"))
    BY <2>2 DEF Started, StartReading, Frame
  <2>3. CASE Started(t) /\ GoOnRemoving(t, "idle", cache[t[1]], eof)
    <3>1. /\ UNCHANGED <<jobVars, offset, have, lost, eof, reply, fetch, cache>>
          /\ \A u \in Tasks : u # t => outcome'[u] = outcome[u]
      BY <2>3 DEF Started, StartReading
    <3>2. Removable(t[1], cache[t[1]], eof) => Done(t[1])'
      BY <3>1 DEF Removable, Done, Over
    <3>3. \A u \in Tasks : u # t /\ pc'[u] # pc[u] =>
             u = Background(t[1]) /\ pc[u] = "idle" /\ pc'[u] = "clock" /\ Done(t[1])'
      BY <1>h, <2>3, <3>2, Removing DEF Started
    <3> QED
      BY <3>1, <3>3 DEF Frame
  <2> QED
    BY <1>2, <2>1, <2>2, <2>3, Starting DEF Started, StartReading
<1>3. CASE BeginStopping(t)
  BY <1>3 DEF BeginStopping, Frame
<1>4. CASE FindStatus(t)
  <2>1. t[2] # "auto" /\ "over" \in States
    BY <1>4 DEF FindStatus, InPlace, States
  <2>2. Refreshed(t, "over") /\ cache'[t[1]] = "over"
        /\ UNCHANGED <<jobVars, offset, have, lost, eof, reply, cache>>
    BY <1>4 DEF FindStatus, Over
  <2> HIDE DEF Shape, TypeOK
  <2> QED
    BY <2>1, <2>2, RefreshedFrame DEF Frame
<1>5. CASE AskStatus(t)
  BY <1>5 DEF AskStatus, Frame
<1>6. CASE TakeStatus(t)
  <2>1. CASE Fails(t, "missing") \/ Fails(t, "backward")
    BY <1>6, <2>1 DEF TakeStatus, Fails, Frame
  <2>2. CASE /\ reply[t] # "removed" /\ ~Backward(cache[t[1]], reply[t])
             /\ cache' = [cache EXCEPT ![t[1]] = reply[t]]
             /\ Refreshed(t, reply[t])
    <3>1. reply[t] \in States /\ t[2] # "auto"
      BY <1>6, <2>2 DEF TakeStatus, InPlace
    <3>2. cache'[t[1]] = reply[t] /\ \A h \in Handles : h # t[1] => cache'[h] = cache[h]
      BY <1>h, <2>2
    <3>3. cache[t[1]] = "over" => reply[t] = "over"
      BY <2>2, <3>1 DEF Backward, Following, States
    <3>4. UNCHANGED <<jobVars, offset, have, lost, eof>> /\ Reply(t, None)
      BY <1>6 DEF TakeStatus
    <3>5. \A u \in Tasks : u # t => reply'[u] = reply[u]
      BY <3>4
    <3> HIDE DEF Shape, TypeOK
    <3> QED
      BY <2>2, <3>1, <3>2, <3>3, <3>4, <3>5, RefreshedFrame DEF Frame
  <2> QED
    BY <1>6, <2>1, <2>2 DEF TakeStatus
<1>7. CASE Accept(t)
  <2>1. reply[t] \in States /\ t[2] # "auto"
    BY <1>7 DEF Accept, InPlace
  <2>2. UNCHANGED <<jobVars, readerVars>> /\ Taken(t)
    BY <1>7 DEF Accept
  <2>3. CASE GoOn(t, "idle") /\ Ends(t, "backward") /\ UNCHANGED cache
    BY <2>2, <2>3 DEF Frame
  <2>4. ASSUME NEW state \in States, Accepted(t, state), cache'[t[1]] = state,
               \A h \in Handles : h # t[1] \/ cache[h] = "over" => cache'[h] = cache[h]
        PROVE  Frame(t)
    <3>1. CASE GoOn(t, "lock") \/ GoOn(t, "idle")
      BY <2>2, <2>4, <3>1 DEF Accepted, Frame
    <3>2. CASE Over(state) /\ GoOnRemoving(t, "idle", state, eof) /\ Ends(t, "ok")
      BY <2>1, <2>2, <2>4, <3>2, Removing DEF Frame, Removable, Done, Over
    <3> QED
      BY <2>4, <3>1, <3>2 DEF Accepted
  <2> QED
    BY <1>7, <1>h, <2>1, <2>3, <2>4 DEF Accept, Over
<1>8. CASE LockCleanup(t)
  BY <1>8 DEF LockCleanup, Frame
<1>9. CASE TakeSignal(t)
  BY <1>9 DEF TakeSignal, Frame
<1>10. CASE TakeRemoved(t)
  BY <1>10 DEF TakeRemoved, Frame
<1>11. CASE Wake(t)
  BY <1>11 DEF Wake, Frame
<1>12. CASE t[2] \in ReadOps /\ TakeChunk(t)
  <2>1. HasReader(t)
    BY <1>12 DEF TakeChunk, HasReader
  <2> QED
    BY <1>12, <1>h, <2>1 DEF TakeChunk, Frame
<1>13. CASE t[2] \in ReadOps /\ TakeEmpty(t)
  <2>0. HasReader(t)
    BY <1>13 DEF TakeEmpty, Empty, HasReader
  <2>1. CASE GoOn(t, "sleep") \/ GoOn(t, "idle")
    BY <1>13, <1>h, <2>0, <2>1 DEF TakeEmpty, NotYet, SetEOF, Frame
  <2>2. CASE GoOnRemoving(t, "idle", cache[t[1]], eof') /\ eof' = [eof EXCEPT ![ReaderOf(t)] = TRUE]
    <3>0. PICK ends : ends = eof'
      OBVIOUS
    <3>1. Removable(t[1], cache[t[1]], ends) => Done(t[1])'
      BY <1>13, <3>0 DEF TakeEmpty, Removable, Done, Over
    <3>4. GoOnRemoving(t, "idle", cache[t[1]], ends)
      BY <2>2, <3>0
    <3>2. \A u \in Tasks : u # t /\ pc'[u] # pc[u] =>
             u = Background(t[1]) /\ pc[u] = "idle" /\ pc'[u] = "clock" /\ Done(t[1])'
      BY <1>h, <1>13, <3>1, <3>4, Removing
    <3>3. /\ Taken(t) /\ UNCHANGED <<jobVars, offset, have, lost, cache>>
          /\ \A u \in Tasks : u # t => outcome'[u] = outcome[u]
      BY <1>13, <2>2 DEF TakeEmpty, NotYet
    <3> QED
      BY <1>h, <2>0, <2>2, <3>2, <3>3 DEF Frame
  <2> QED
    BY <1>13, <2>1, <2>2 DEF TakeEmpty, NotYet, SetEOF
<1>14. CASE t[2] \in ReadOps /\ TakeNoFile(t)
  BY <1>14 DEF TakeNoFile, Frame
<1>15. CASE CallFails(t)
  BY <1>15 DEF CallFails, Stops, Frame
<1>16. CASE Cancel(t)
  BY <1>16 DEF Cancel, Stops, Frame
<1> QED
  BY <1>1, <1>2, <1>3, <1>4, <1>5, <1>6, <1>7, <1>8, <1>9, <1>10, <1>11, <1>12, <1>13,
     <1>14, <1>15, <1>16 DEF Begin, Locks, Takes, TaskStep

\* Where its knowledge of an end comes from: the cache from an answer, all else
\* from the cache; and a job found missing from an answer.
Learns(t) ==
    /\ cache'[t[1]] = "over" => cache[t[1]] = "over" \/ reply[t] = "over"
    /\ pc'[t] \in {"clock", "remove"} => pc[t] = "clock" \/ cache'[t[1]] = "over"
    /\ pc'[t] = "read" /\ fetch'[t].ended => cache'[t[1]] = "over"
    /\ pc'[t] = "ask" => cache'[t[1]] # "over"
    /\ reply'[t] \in {None, reply[t]}
    /\ pc'[t] \in {"ask", "read"} => reply'[t] = None
    /\ t[2] = "stop" /\ outcome'[t] = "ok" => outcome[t] = "ok" \/ cache'[t[1]] = "over"
    /\ outcome'[t] = "missing" =>
          outcome[t] = "missing" \/ (pc[t] \in {"ask", "read"} /\ reply[t] = "removed")

\* Every step of a coroutine learns of an end that way.
LEMMA TaskLearns ==
    ASSUME Shape, NEW t \in Tasks, TaskStep(t)
    PROVE  Learns(t)
<1> USE DEF Shape, TypeOK
<1>h. /\ t[1] \in Handles /\ ReaderOf(t) \in Readers /\ (t[2] \in ReadOps => t[2] # "auto")
      /\ t[2] \in ReadOps => t[2] # "stop" /\ t[2] # "wait" /\ t[2] # "clean"
  BY TaskShape DEF ReadOps
<1>i. /\ pc[t] \in {"lock", "ask", "sleep"} => t[2] # "auto"
      /\ pc[t] \in {"idle", "rlock", "lock", "sleep", "clock"} => reply[t] = None
  BY DEF InPlace
<1>1. CASE BeginWaiting(t)
  BY <1>1 DEF BeginWaiting, Learns
<1>2. CASE BeginReading(t) \/ LockReader(t)
  <2>1. CASE Started(t)
    BY <1>h, <2>1, Removing DEF Started, StartReading, Learns
  <2>2. CASE Queued(t)
    BY <1>h, <2>2 DEF Queued, Learns
  <2> QED
    BY <1>2, <2>1, <2>2, Starting
<1>3. CASE BeginStopping(t)
  BY <1>3 DEF BeginStopping, Over, Learns
<1>4. CASE FindStatus(t)
  BY <1>4, <1>h, <1>i, Removing DEF FindStatus, Refreshed, Over, Learns
<1>5. CASE AskStatus(t)
  BY <1>5, <1>i DEF AskStatus, Over, Learns
<1>6. CASE TakeStatus(t)
  <2>1. CASE reply[t] = "removed" /\ Fails(t, "missing")
    BY <1>6, <2>1 DEF TakeStatus, Fails, Learns
  <2>2. CASE Fails(t, "backward")
    BY <1>6, <2>2 DEF TakeStatus, Fails, Learns
  <2>3. CASE cache' = [cache EXCEPT ![t[1]] = reply[t]] /\ Refreshed(t, reply[t])
    <3>1. cache'[t[1]] = reply[t] /\ reply'[t] = None
      BY <1>6, <1>h, <2>3 DEF TakeStatus
    <3>2. pc'[t] # "ask" /\ (pc'[t] \in {"clock", "remove"} => reply[t] = "over")
      BY <1>6, <1>h, <1>i, <2>3, Removing DEF TakeStatus, Refreshed, Over
    <3>3. pc'[t] = "read" /\ fetch'[t].ended => reply[t] = "over"
      <4>1. pc'[t] = "read" => fetch'[t].ended = Over(reply[t])
        BY <1>6, <1>h, <1>i, <2>3, Removing DEF TakeStatus, Refreshed
      <4> QED
        BY <4>1 DEF Over
    <3>4. /\ t[2] = "stop" /\ outcome'[t] = "ok" => outcome[t] = "ok" \/ reply[t] = "over"
          /\ outcome'[t] = "missing" => outcome[t] = "missing"
      BY <1>h, <2>3 DEF Refreshed, Over
    <3> HIDE DEF Shape, TypeOK
    <3> QED
      BY <3>1, <3>2, <3>3, <3>4 DEF Learns
  <2> QED
    BY <1>6, <2>1, <2>2, <2>3 DEF TakeStatus
<1>7. CASE Accept(t)
  <2>1. reply[t] \in States /\ t[2] = "stop" /\ reply'[t] = None
    BY <1>7 DEF Accept, InPlace
  <2>2. CASE GoOn(t, "idle") /\ Ends(t, "backward") /\ UNCHANGED cache
    BY <2>1, <2>2 DEF Learns
  <2>3. ASSUME NEW state \in States, Accepted(t, state), cache'[t[1]] = state,
               state = cache[t[1]] \/ state = reply[t]
        PROVE  Learns(t)
    BY <2>1, <2>3, Removing DEF Accepted, Over, Learns
  <2> QED
    BY <1>7, <1>h, <2>1, <2>2, <2>3 DEF Accept, Over
<1>8. CASE LockCleanup(t)
  BY <1>8, <1>h, <1>i DEF LockCleanup, InPlace, Learns
<1>9. CASE TakeSignal(t)
  BY <1>9 DEF TakeSignal, Learns
<1>10. CASE TakeRemoved(t)
  BY <1>10 DEF TakeRemoved, InPlace, Learns
<1>11. CASE Wake(t)
  BY <1>11 DEF Wake, Learns
<1>12. CASE t[2] \in ReadOps /\ TakeChunk(t)
  BY <1>12, <1>h DEF TakeChunk, Learns
<1>13. CASE t[2] \in ReadOps /\ TakeEmpty(t)
  <2>1. pc'[t] \in {"idle", "sleep"}
    BY <1>13, <1>h, Removing DEF TakeEmpty, Empty, NotYet
  <2> QED
    BY <1>13, <1>h, <2>1 DEF TakeEmpty, Empty, NotYet, Learns
<1>14. CASE t[2] \in ReadOps /\ TakeNoFile(t)
  BY <1>14 DEF TakeNoFile, Learns
<1>15. CASE CallFails(t)
  BY <1>15 DEF CallFails, Stops, Learns
<1>16. CASE Cancel(t)
  BY <1>16 DEF Cancel, Stops, Learns
<1> QED
  BY <1>1, <1>2, <1>3, <1>4, <1>5, <1>6, <1>7, <1>8, <1>9, <1>10, <1>11, <1>12, <1>13,
     <1>14, <1>15, <1>16 DEF Begin, Locks, Takes, TaskStep

\* A read continues at its reader's offset, and no fetch outlives its read.
Fetches(t) ==
    /\ pc'[t] # "read" => fetch'[t] = NoFetch
    /\ pc'[t] = "read" =>
          fetch'[t].from = offset'[ReaderOf(t)] /\ fetch'[t].to = offset'[ReaderOf(t)]

\* A reader advances by what it was answered; its stream ends with an empty
\* answer to a read begun after the end, and it rests then.
Reads(t) ==
    LET r == ReaderOf(t)
        bytes == fetch[t].from + 1 .. fetch[t].to IN
    /\ \/ offset'[r] = offset[r] /\ have'[r] = have[r] /\ lost'[r] = lost[r]
       \/ /\ pc[t] = "read" /\ offset'[r] = offset[r] + (fetch[t].to - fetch[t].from)
          /\ \/ have'[r] = have[r] \cup bytes /\ lost'[r] = lost[r]
             \/ have'[r] = have[r] /\ lost'[r] = lost[r] \cup bytes
    /\ eof'[r] => \/ eof[r]
                  \/ /\ pc[t] = "read" /\ fetch[t].ended /\ reply[t] \in States
                     /\ fetch[t].to = fetch[t].from
    /\ HasReader(t)' => eof'[r] = eof[r] /\ (HasReader(t) \/ (ReaderFree(t) /\ ~eof[r]))

\* Every step of a coroutine reads that way.
LEMMA TaskReads ==
    ASSUME Shape, NEW t \in Tasks, TaskStep(t)
    PROVE  Fetches(t) /\ Reads(t)
<1> USE DEF Shape, TypeOK
<1>h. t[1] \in Handles /\ ReaderOf(t) \in Readers /\ (t[2] \in ReadOps => t[2] # "auto")
  BY TaskShape DEF ReadOps
<1>i. pc[t] # "read" => fetch[t] = NoFetch
  BY DEF WithinFile
<1>j. t[2] \in ReadOps => t[2] # "stop" /\ t[2] # "wait" /\ t[2] # "clean"
  BY DEF ReadOps
<1>1. CASE BeginWaiting(t)
  BY <1>1, <1>i, <1>j DEF BeginWaiting, Fetches, Reads, HasReader
<1>2. CASE BeginReading(t) \/ LockReader(t)
  <2>1. CASE Started(t)
    <3>1. pc'[t] # "read" /\ (~eof[ReaderOf(t)] \/ pc'[t] = "idle")
      BY <1>h, <2>1, Removing DEF Started, StartReading
    <3>2. UNCHANGED <<offset, have, lost, eof, fetch>> /\ pc[t] # "read" /\ ReaderFree(t)
      BY <2>1 DEF Started, StartReading
    <3> HIDE DEF Shape, TypeOK
    <3> QED
      BY <1>i, <3>1, <3>2 DEF Fetches, Reads, HasReader
  <2>2. CASE Queued(t)
    BY <1>i, <2>2 DEF Queued, Fetches, Reads, HasReader
  <2> QED
    BY <1>2, <2>1, <2>2, Starting
<1>3. CASE BeginStopping(t)
  BY <1>3, <1>i, <1>j DEF BeginStopping, Fetches, Reads, HasReader
<1>r. ASSUME NEW state, Refreshed(t, state), t[2] # "auto", pc[t] # "read",
             UNCHANGED <<offset, have, lost, eof>>,
             pc[t] \notin {"idle", "rlock"}
      PROVE  Fetches(t) /\ Reads(t)
  <2>1. Reads(t)
    BY <1>r DEF Reads, HasReader
  <2>2. CASE UNCHANGED fetch /\ pc'[t] # "read"
    <3>1. fetch'[t] = NoFetch /\ pc'[t] # "read"
      BY <1>i, <1>r, <2>2
    <3> QED
      BY <2>1, <3>1 DEF Fetches
  <2>3. CASE fetch' = [fetch EXCEPT ![t] = [from |-> offset[ReaderOf(t)], to |-> offset[ReaderOf(t)],
                                            ended |-> Over(state)]]
             /\ pc'[t] = "read"
    <3>1. fetch'[t].from = offset[ReaderOf(t)] /\ fetch'[t].to = offset[ReaderOf(t)]
      BY <2>3
    <3>2. offset' = offset /\ pc'[t] = "read"
      BY <1>r, <2>3
    <3> HIDE DEF Shape, TypeOK
    <3> QED
      BY <2>1, <3>1, <3>2 DEF Fetches
  <2>4. \/ UNCHANGED fetch /\ pc'[t] # "read"
        \/ /\ fetch' = [fetch EXCEPT ![t] = [from |-> offset[ReaderOf(t)],
                                             to |-> offset[ReaderOf(t)], ended |-> Over(state)]]
           /\ pc'[t] = "read"
    BY <1>r, Removing DEF Refreshed
  <2> QED
    BY <2>1, <2>2, <2>3, <2>4
<1>4. CASE FindStatus(t)
  <2>1. t[2] # "auto"
    BY <1>4 DEF FindStatus, InPlace
  <2> QED
    BY <1>4, <1>r, <2>1 DEF FindStatus
<1>5. CASE AskStatus(t)
  BY <1>5, <1>i DEF AskStatus, Fetches, Reads, HasReader
<1>6. CASE TakeStatus(t)
  <2>1. CASE Fails(t, "missing") \/ Fails(t, "backward")
    BY <1>6, <1>i, <2>1 DEF TakeStatus, Fails, Fetches, Reads, HasReader
  <2>2. CASE Refreshed(t, reply[t])
    BY <1>6, <1>r, <2>2 DEF TakeStatus, InPlace
  <2> QED
    BY <1>6, <2>1, <2>2 DEF TakeStatus
<1>7. CASE Accept(t)
  <2>1. pc'[t] # "read" /\ t[2] = "stop"
    BY <1>7, Removing DEF Accept, Accepted, InPlace
  <2>2. Taken(t) /\ UNCHANGED <<offset, have, lost, eof>>
    BY <1>7 DEF Accept
  <2> QED
    BY <1>j, <2>1, <2>2 DEF Fetches, Reads, HasReader
<1>8. CASE LockCleanup(t)
  BY <1>8, <1>i DEF LockCleanup, Fetches, Reads, HasReader
<1>9. CASE TakeSignal(t)
  BY <1>9, <1>i DEF TakeSignal, Fetches, Reads, HasReader
<1>10. CASE TakeRemoved(t)
  BY <1>10 DEF TakeRemoved, Fetches, Reads, HasReader
<1>11. CASE Wake(t)
  BY <1>11, <1>i DEF Wake, Fetches, Reads, HasReader
<1>12. CASE t[2] \in ReadOps /\ TakeChunk(t)
  <2>1. Fetches(t)
    BY <1>12 DEF TakeChunk, Fetches
  <2>2. pc[t] = "read" /\ HasReader(t) /\ UNCHANGED eof
    BY <1>12 DEF TakeChunk, HasReader
  <2> DEFINE bytes == fetch[t].from + 1 .. fetch[t].to
  <2>3. /\ offset'[ReaderOf(t)] = offset[ReaderOf(t)] + (fetch[t].to - fetch[t].from)
        /\ \/ have' = [have EXCEPT ![ReaderOf(t)] = @ \cup bytes] /\ lost' = lost
           \/ have' = have /\ lost' = [lost EXCEPT ![ReaderOf(t)] = @ \cup bytes]
    BY <1>12, <1>h DEF TakeChunk
  <2> HIDE DEF bytes
  <2>4. \/ have'[ReaderOf(t)] = have[ReaderOf(t)] \cup bytes /\ lost'[ReaderOf(t)] = lost[ReaderOf(t)]
        \/ have'[ReaderOf(t)] = have[ReaderOf(t)] /\ lost'[ReaderOf(t)] = lost[ReaderOf(t)] \cup bytes
    BY <1>h, <2>3
  <2> QED
    BY <2>1, <2>2, <2>3, <2>4 DEF Reads, bytes
<1>13. CASE t[2] \in ReadOps /\ TakeEmpty(t)
  <2>1. pc'[t] \in {"idle", "sleep"} /\ pc[t] = "read" /\ HasReader(t)
    BY <1>13, <1>h, Removing DEF TakeEmpty, Empty, NotYet, HasReader
  <2>2. Taken(t) /\ UNCHANGED <<offset, have, lost>>
    BY <1>13 DEF TakeEmpty
  <2>3. UNCHANGED eof \/ (fetch[t].ended /\ pc'[t] = "idle")
    BY <1>13, <1>h, Removing DEF TakeEmpty, NotYet
  <2>4. reply[t] \in States /\ fetch[t].to = fetch[t].from
    BY <1>13 DEF TakeEmpty, Empty
  <2> HIDE DEF Shape, TypeOK
  <2>5. Reads(t)
    BY <2>1, <2>2, <2>3, <2>4 DEF Reads, HasReader
  <2>6. Fetches(t)
    BY <2>1, <2>2 DEF Fetches, Shape, TypeOK
  <2> QED
    BY <2>5, <2>6
<1>14. CASE t[2] \in ReadOps /\ TakeNoFile(t)
  BY <1>14 DEF TakeNoFile, Fetches, Reads, HasReader
<1>15. CASE CallFails(t)
  BY <1>15 DEF CallFails, Stops, Fetches, Reads, HasReader
<1>16. CASE Cancel(t)
  BY <1>16 DEF Cancel, Stops, Fetches, Reads, HasReader
<1> QED
  BY <1>1, <1>2, <1>3, <1>4, <1>5, <1>6, <1>7, <1>8, <1>9, <1>10, <1>11, <1>12, <1>13,
     <1>14, <1>15, <1>16 DEF Begin, Locks, Takes, TaskStep

\* A coroutine has the status lock exactly while it asks, and writes the cache
\* only while nobody else has it.  The background task does not start itself.
LEMMA TaskLocks ==
    ASSUME Shape, StatusLocked, NEW t \in Tasks, TaskStep(t)
    PROVE  /\ \A h \in Handles : h # t[1] => slock'[h] = slock[h]
           /\ pc'[t] = "ask" <=> slock'[t[1]] = t
           /\ \/ slock'[t[1]] = slock[t[1]]
              \/ slock[t[1]] \in {None, t} /\ slock'[t[1]] \in {None, t}
           /\ cache'[t[1]] # cache[t[1]] => slock[t[1]] \in {None, t}
           /\ t[2] = "auto" => pc[t] # "idle"
<1> USE DEF Shape, TypeOK, StatusLocked
<1>h. t[1] \in Handles /\ ReaderOf(t) \in Readers /\ (t[2] \in ReadOps => t[2] # "auto") /\ t # None
  BY TaskShape DEF ReadOps
<1>i. /\ pc[t] \in {"lock", "ask", "sleep"} => t[2] # "auto"
      /\ pc[t] = "ask" <=> slock[t[1]] = t
  BY DEF InPlace
<1>1. CASE BeginWaiting(t)
  BY <1>1, <1>i DEF BeginWaiting
<1>2. CASE BeginReading(t) \/ LockReader(t)
  <2>1. CASE Started(t)
    BY <1>h, <1>i, <2>1, Removing DEF Started, StartReading
  <2>2. CASE Queued(t)
    BY <1>h, <1>i, <2>2 DEF Queued
  <2> QED
    BY <1>2, <2>1, <2>2, Starting
<1>3. CASE BeginStopping(t)
  BY <1>3, <1>i DEF BeginStopping
<1>4. CASE FindStatus(t)
  <2>1. pc'[t] # "ask"
    BY <1>4, <1>h, <1>i, Removing DEF FindStatus, Refreshed
  <2> QED
    BY <1>4, <1>i, <2>1 DEF FindStatus
<1>5. CASE AskStatus(t)
  BY <1>5, <1>h, <1>i DEF AskStatus
<1>6. CASE TakeStatus(t)
  <2>1. pc'[t] # "ask"
    BY <1>6, <1>h, <1>i, Removing DEF TakeStatus, Refreshed, Fails
  <2> QED
    BY <1>6, <1>h, <1>i, <2>1 DEF TakeStatus, Release
<1>7. CASE Accept(t)
  <2>1. pc'[t] # "ask"
    BY <1>7, <1>h, <1>i, Removing DEF Accept, Accepted, InPlace
  <2> QED
    BY <1>7, <1>h, <1>i, <2>1 DEF Accept
<1>8. CASE LockCleanup(t)
  BY <1>8, <1>i DEF LockCleanup
<1>9. CASE TakeSignal(t)
  BY <1>9, <1>i DEF TakeSignal
<1>10. CASE TakeRemoved(t)
  BY <1>10, <1>i DEF TakeRemoved
<1>11. CASE Wake(t)
  BY <1>11, <1>i DEF Wake
<1>12. CASE t[2] \in ReadOps /\ TakeChunk(t)
  BY <1>12, <1>h, <1>i DEF TakeChunk
<1>13. CASE t[2] \in ReadOps /\ TakeEmpty(t)
  <2>1. pc'[t] # "ask"
    BY <1>13, <1>h, Removing DEF TakeEmpty, NotYet
  <2> QED
    BY <1>13, <1>h, <1>i, <2>1 DEF TakeEmpty, Empty
<1>14. CASE t[2] \in ReadOps /\ TakeNoFile(t)
  BY <1>14, <1>h, <1>i DEF TakeNoFile
<1>15. CASE CallFails(t)
  BY <1>15, <1>h, <1>i DEF CallFails, Stops, Release
<1>16. CASE Cancel(t)
  BY <1>16, <1>h, <1>i DEF Cancel, Stops, Release
<1> QED
  BY <1>1, <1>2, <1>3, <1>4, <1>5, <1>6, <1>7, <1>8, <1>9, <1>10, <1>11, <1>12, <1>13,
     <1>14, <1>15, <1>16 DEF Begin, Locks, Takes, TaskStep

-----------------------------------------------------------------------------
(* A step of a coroutine, from what it leaves alone, learns and reads.     *)

\* A coroutine takes a reader that is free, and no other.
LEMMA ReaderLockedTask ==
    ASSUME IInv, NEW t \in Tasks, TaskStep(t)
    PROVE  ReaderLocked'
<1>1. Shape /\ Frame(t) /\ Reads(t) /\ ReaderLocked
  BY TaskFrame, TaskReads DEF IInv, Shape
<1>2. ASSUME NEW u \in Tasks, u # t, HasReader(u)' PROVE HasReader(u)
  <2>1. u[2] \in ReadOps /\ pc'[u] \notin {"idle", "rlock"}
    BY <1>2 DEF HasReader
  <2>2. u # Background(t[1])
    BY <2>1, TaskShape DEF ReadOps
  <2>3. pc'[u] = pc[u]
    BY <1>1, <1>2, <2>2 DEF Frame
  <2> QED
    BY <2>1, <2>3 DEF HasReader
<1>3. ASSUME NEW u \in Tasks, u # t, HasReader(t)', HasReader(u)', ReaderOf(t) = ReaderOf(u)
      PROVE  FALSE
  <2>1. HasReader(u) /\ (HasReader(t) \/ ReaderFree(t))
    BY <1>1, <1>2, <1>3 DEF Reads
  <2> QED
    BY <1>1, <1>3, <2>1 DEF ReaderLocked, ReaderFree
<1>4. ASSUME NEW u \in Tasks, NEW v \in Tasks, HasReader(u)', HasReader(v)', ReaderOf(u) = ReaderOf(v)
      PROVE  u = v
  BY <1>1, <1>2, <1>3, <1>4 DEF ReaderLocked
<1> QED
  BY <1>4 DEF ReaderLocked, ReaderOf, StreamOf

\* Another read of the same reader has it to itself.
LEMMA OtherReads ==
    ASSUME IInv, NEW t \in Tasks, TaskStep(t), NEW u \in Tasks, u # t,
           pc'[u] = "read" \/ HasReader(u)'
    PROVE  /\ pc'[u] = pc[u] /\ HasReader(u)
           /\ offset'[ReaderOf(u)] = offset[ReaderOf(u)] /\ eof'[ReaderOf(u)] = eof[ReaderOf(u)]
<1>1. Shape /\ InPlace /\ Frame(t) /\ ReaderLocked
  BY TaskFrame DEF IInv, Shape
<1>2. pc'[u] = pc[u]
  <2>1. CASE pc'[u] = "read"
    BY <1>1, <2>1 DEF Frame
  <2>2. CASE HasReader(u)'
    <3>1. u # Background(t[1])
      BY <2>2, TaskShape DEF HasReader, ReadOps
    <3> QED
      BY <1>1, <3>1 DEF Frame
  <2> QED
    BY <2>1, <2>2
<1>3. HasReader(u)
  BY <1>1, <1>2 DEF HasReader, InPlace
<1>4. ReaderOf(u) \in Readers /\ (ReaderOf(u) # ReaderOf(t) \/ ~HasReader(t))
  BY <1>1, <1>3, TaskShape DEF ReaderLocked
<1> QED
  BY <1>1, <1>2, <1>3, <1>4 DEF Frame

\* A coroutine leaves the output within the file, and takes every byte once.
LEMMA WithinFileTask ==
    ASSUME IInv, NEW t \in Tasks, TaskStep(t)
    PROVE  WithinFile' /\ NoGaps'
<1>1. Shape /\ TypeOK /\ Frame(t) /\ Fetches(t) /\ Reads(t) /\ WithinFile /\ NoGaps
  BY TaskFrame, TaskReads DEF IInv, Shape
<1>2. UNCHANGED <<final, written>> /\ \A s \in Streams : final[s] <= written[s]
  BY <1>1 DEF Frame, WithinFile
<1>r. /\ ReaderOf(t) \in Readers /\ StreamOf(t) \in Streams
      /\ ReaderOf(t)[2] = StreamOf(t) /\ fetch[t].from \in Nat /\ fetch[t].to \in Nat
      /\ offset[ReaderOf(t)] \in Nat /\ written[StreamOf(t)] \in Nat
  BY <1>1, TaskShape DEF TypeOK, Fetch
<1>o. offset'[ReaderOf(t)] \in Nat
  <2>1. pc[t] = "read" => fetch[t].from = offset[ReaderOf(t)]
    BY <1>1 DEF WithinFile
  <2>2. \/ offset'[ReaderOf(t)] = offset[ReaderOf(t)]
        \/ /\ pc[t] = "read"
           /\ offset'[ReaderOf(t)] = offset[ReaderOf(t)] + (fetch[t].to - fetch[t].from)
    BY <1>1 DEF Reads
  <2> QED
    BY <1>r, <2>1, <2>2
<1>3. ASSUME NEW r \in Readers
      PROVE  /\ offset'[r] <= written[r[2]]
             /\ have'[r] \cup lost'[r] = 1..offset'[r] /\ have'[r] \cap lost'[r] = {}
  <2>0. /\ have[r] \cup lost[r] = 1..offset[r] /\ have[r] \cap lost[r] = {}
        /\ offset[r] <= written[r[2]]
    BY <1>1 DEF NoGaps, WithinFile
  <2>1. CASE offset'[r] = offset[r] /\ have'[r] = have[r] /\ lost'[r] = lost[r]
    BY <2>0, <2>1
  <2>2. CASE r = ReaderOf(t) /\ pc[t] = "read"
             /\ offset'[r] = offset[r] + (fetch[t].to - fetch[t].from)
    <3> DEFINE bytes == fetch[t].from + 1 .. fetch[t].to
    <3>1. /\ fetch[t].from = offset[r] /\ fetch[t].from <= fetch[t].to
          /\ fetch[t].to <= written[r[2]]
      BY <1>1, <1>r, <2>2 DEF WithinFile
    <3>2. offset'[r] = fetch[t].to
      BY <1>r, <2>2, <3>1
    <3>3. 1..offset'[r] = (1..offset[r]) \cup bytes /\ (1..offset[r]) \cap bytes = {}
      BY <1>r, <2>2, <3>1, <3>2
    <3>4. \/ offset'[r] = offset[r] /\ have'[r] = have[r] /\ lost'[r] = lost[r]
          \/ have'[r] = have[r] \cup bytes /\ lost'[r] = lost[r]
          \/ have'[r] = have[r] /\ lost'[r] = lost[r] \cup bytes
      BY <1>1, <2>2 DEF Reads
    <3> HIDE DEF bytes
    <3>5. have'[r] \cup lost'[r] = 1..offset'[r] /\ have'[r] \cap lost'[r] = {}
      BY <2>0, <3>3, <3>4
    <3> QED
      BY <3>1, <3>2, <3>5
  <2>3. r # ReaderOf(t) => offset'[r] = offset[r] /\ have'[r] = have[r] /\ lost'[r] = lost[r]
    BY <1>1 DEF Frame
  <2> QED
    BY <1>1, <2>1, <2>2, <2>3 DEF Reads
<1>4. ASSUME NEW u \in Tasks
      PROVE  /\ pc'[u] # "read" => fetch'[u] = NoFetch
             /\ pc'[u] = "read" =>
                   /\ fetch'[u].from = offset'[ReaderOf(u)]
                   /\ fetch'[u].from <= fetch'[u].to /\ fetch'[u].to <= written[StreamOf(u)]
  <2>1. CASE u = t
    <3>1. offset'[ReaderOf(t)] <= written[StreamOf(t)] /\ offset'[ReaderOf(t)] \in Nat
      BY <1>3, <1>o, <1>r
    <3> QED
      BY <1>1, <2>1, <3>1 DEF Fetches
  <2>2. CASE u # t /\ pc'[u] = "read"
    <3>1. pc[u] = "read" /\ offset'[ReaderOf(u)] = offset[ReaderOf(u)]
      BY <2>2, OtherReads
    <3>2. fetch'[u] = fetch[u]
      BY <1>1, <2>2 DEF Frame
    <3> QED
      BY <1>1, <2>2, <3>1, <3>2 DEF WithinFile
  <2>3. CASE u # t /\ pc'[u] # "read"
    <3>1. pc[u] # "read" /\ fetch'[u] = fetch[u]
      BY <1>1, <2>3 DEF Frame
    <3> QED
      BY <1>1, <2>3, <3>1 DEF WithinFile
  <2> QED
    BY <2>1, <2>2, <2>3
<1>5. WithinFile'
  BY <1>2, <1>3, <1>4 DEF WithinFile, ReaderOf, StreamOf
<1>6. NoGaps'
  BY <1>3 DEF NoGaps
<1> QED
  BY <1>5, <1>6

\* A coroutine keeps the status lock to the one that asks.
LEMMA StatusLockedTask ==
    ASSUME IInv, NEW t \in Tasks, TaskStep(t)
    PROVE  StatusLocked'
<1>1. Shape /\ StatusLocked /\ Frame(t)
  BY TaskFrame DEF IInv, Shape
<1> SUFFICES ASSUME NEW u \in Tasks PROVE pc'[u] = "ask" <=> slock'[u[1]] = u
  BY DEF StatusLocked
<1>2. CASE u = t
  BY <1>1, <1>2, TaskLocks
<1>3. CASE u # t
  <2>1. pc'[u] = "ask" <=> pc[u] = "ask"
    BY <1>1, <1>3 DEF Frame
  <2>2. u[1] \in Handles /\ u # None
    BY TaskShape
  <2>3. slock'[u[1]] = u <=> slock[u[1]] = u
    BY <1>1, <1>3, <2>2, TaskLocks
  <2> QED
    BY <1>1, <2>1, <2>3 DEF StatusLocked
<1> QED
  BY <1>2, <1>3

\* Before the job is over, a coroutine has nowhere to learn it from.
LEMMA OverIsOverTask ==
    ASSUME IInv, NEW t \in Tasks, TaskStep(t)
    PROVE  OverIsOver'
<1>1. Shape /\ Frame(t) /\ Learns(t) /\ Reads(t) /\ InPlace
  BY TaskFrame, TaskLearns, TaskReads DEF IInv, Shape
<1>h. t[1] \in Handles
  BY TaskShape
<1>2. CASE Finished
  BY <1>1, <1>2 DEF Frame, Finished, OverIsOver
<1>3. CASE ~Finished
  <2>1. /\ \A h \in Handles : cache[h] # "over"
        /\ \A u \in Tasks :
              /\ reply[u] # "over"
              /\ pc[u] \notin {"clock", "remove"}
              /\ u[2] = "stop" => outcome[u] # "ok"
        /\ \A u \in Tasks : pc[u] = "read" => ~fetch[u].ended
        /\ \A r \in Readers : r[2] \in Captured => ~eof[r]
    BY <1>3 DEF IInv, OverIsOver
  <2>2. cache'[t[1]] # "over"
    BY <1>1, <1>h, <2>1 DEF Learns
  <2>3. \A h \in Handles : cache'[h] # "over"
    BY <1>1, <2>1, <2>2 DEF Frame
  <2>4. \A u \in Tasks : u # t => pc'[u] = pc[u]
    BY <1>1, <2>2 DEF Frame, Done
  <2>5. ASSUME NEW u \in Tasks
        PROVE  /\ reply'[u] # "over"
               /\ pc'[u] \notin {"clock", "remove"}
               /\ u[2] = "stop" => outcome'[u] # "ok"
    BY <1>1, <2>1, <2>2, <2>4 DEF Frame, Learns, States
  <2>6. ASSUME NEW u \in Tasks, pc'[u] = "read" PROVE ~fetch'[u].ended
    <3>1. CASE u = t
      BY <1>1, <2>2, <2>6, <3>1 DEF Learns
    <3>2. CASE u # t
      BY <1>1, <2>1, <2>4, <2>6, <3>2 DEF Frame
    <3> QED
      BY <3>1, <3>2
  <2>7. ASSUME NEW r \in Readers, r[2] \in Captured PROVE ~eof'[r]
    <3>1. CASE r = ReaderOf(t)
      BY <1>1, <2>1, <2>7, <3>1 DEF Reads
    <3>2. CASE r # ReaderOf(t)
      BY <1>1, <2>1, <2>7, <3>2 DEF Frame
    <3> QED
      BY <3>1, <3>2
  <2> QED
    BY <2>3, <2>5, <2>6, <2>7 DEF OverIsOver
<1> QED
  BY <1>2, <1>3

\* A stream ends for a reader only when it has everything.
LEMMA OutputTask ==
    ASSUME IInv, NEW t \in Tasks, TaskStep(t)
    PROVE  EofIsFar' /\ EmptyMeansAll'
<1>1. /\ Shape /\ TypeOK /\ WithinFile
      /\ Frame(t) /\ Learns(t) /\ Fetches(t) /\ Reads(t)
  BY TaskFrame, TaskLearns, TaskReads DEF IInv, Shape
<1>f. final' = final
  BY <1>1 DEF Frame
<1>2. ASSUME NEW r \in Readers, eof'[r], r[2] \in Captured PROVE offset'[r] >= final[r[2]]
  <2>1. CASE r # ReaderOf(t)
    BY <1>1, <1>2, <2>1 DEF IInv, EofIsFar, Frame
  <2>2. CASE r = ReaderOf(t)
    <3>1. r[2] = StreamOf(t) /\ StreamOf(t) \in Streams
      BY <2>2, TaskShape
    <3>2. offset[r] >= final[r[2]]
      <4>1. CASE eof[r]
        BY <1>2, <4>1 DEF IInv, EofIsFar
      <4>2. CASE /\ pc[t] = "read" /\ fetch[t].ended /\ reply[t] \in States
                 /\ fetch[t].to = fetch[t].from
        BY <1>1, <2>2, <3>1, <4>2 DEF IInv, EmptyMeansAll, WithinFile
      <4> QED
        BY <1>1, <1>2, <2>2, <4>1, <4>2 DEF Reads
    <3>3. /\ offset[r] \in Nat /\ final[r[2]] \in Nat
          /\ fetch[t].from \in Nat /\ fetch[t].to \in Nat
      BY <1>1, <3>1 DEF TypeOK, Fetch
    <3>4. pc[t] = "read" => fetch[t].from <= fetch[t].to
      BY <1>1 DEF WithinFile
    <3>5. offset'[r] = offset[r]
          \/ (pc[t] = "read" /\ offset'[r] = offset[r] + (fetch[t].to - fetch[t].from))
      BY <1>1, <2>2 DEF Reads
    <3> QED
      BY <3>2, <3>3, <3>4, <3>5
  <2> QED
    BY <2>1, <2>2
<1>3. ASSUME NEW u \in Tasks, pc'[u] = "read", fetch'[u].ended, reply'[u] \in States,
             fetch'[u].to = fetch'[u].from
      PROVE  fetch'[u].from >= final[StreamOf(u)]
  <2>1. u # t
    BY <1>1, <1>3, ProcessAssumption DEF Learns
  <2>2. pc[u] = "read" /\ fetch'[u] = fetch[u] /\ reply'[u] = reply[u]
    BY <1>1, <1>3, <2>1 DEF Frame
  <2> QED
    BY <1>3, <2>1, <2>2 DEF IInv, EmptyMeansAll
<1>4. EofIsFar'
  BY <1>2, <1>f DEF EofIsFar
<1>5. EmptyMeansAll'
  BY <1>3, <1>f DEF EmptyMeansAll, StreamOf
<1> QED
  BY <1>4, <1>5

\* A coroutine finds the job missing only when told so, and never because of
\* the background removal of its own handle.
LEMMA MissingTask ==
    ASSUME IInv, NEW t \in Tasks, TaskStep(t)
    PROVE  MissingIsRemoved' /\ OnlyWhenDone' /\ NotAgain' /\ OwnReadsFindJob'
<1>1. /\ Shape /\ InPlace /\ StatusLocked
      /\ Frame(t) /\ Learns(t) /\ Reads(t)
  BY TaskFrame, TaskLearns, TaskReads DEF IInv, Shape
<1>h. t[1] \in Handles
  BY TaskShape
<1>2. MissingIsRemoved'
  BY <1>1 DEF IInv, MissingIsRemoved, Frame, Learns
<1>3. \A h \in Handles : Done(h) => Done(h)'
  BY <1>1, TaskShape DEF Done, Frame
<1>4. OnlyWhenDone'
  <2> SUFFICES ASSUME NEW h \in Handles, pc'[Background(h)] # "idle" \/ remover' = Background(h)
               PROVE  Done(h)'
    BY DEF OnlyWhenDone
  <2>1. CASE pc[Background(h)] # "idle" \/ remover = Background(h)
    BY <1>3, <2>1 DEF IInv, OnlyWhenDone
  <2>2. CASE pc[Background(h)] = "idle" /\ pc'[Background(h)] # "idle"
    <3>1. Background(h) \in Tasks /\ Background(h)[1] = h /\ Background(h)[2] = "auto"
      BY TaskShape
    <3>2. Background(h) # t
      BY <1>1, <2>2, <3>1, TaskLocks
    <3>3. Background(h) = Background(t[1]) /\ Done(t[1])'
      BY <1>1, <2>2, <3>1, <3>2 DEF Frame
    <3>4. h = t[1]
      BY <1>h, <3>1, <3>3, TaskShape
    <3> QED
      BY <3>3, <3>4
  <2> QED
    BY <1>1, <2>1, <2>2 DEF Frame
<1>5. NotAgain'
  <2> SUFFICES ASSUME NEW u \in Tasks
               PROVE  /\ pc'[u] = "ask" => cache'[u[1]] # "over"
                      /\ HasReader(u)' => ~eof'[ReaderOf(u)]
    BY DEF NotAgain, ReaderOf, StreamOf
  <2>1. CASE u = t
    BY <1>1, <2>1 DEF Learns, Reads, IInv, NotAgain
  <2>2. CASE u # t
    <3>1. u[1] \in Handles /\ u # None
      BY TaskShape
    <3>2. ASSUME pc'[u] = "ask" PROVE cache'[u[1]] # "over"
      <4>1. pc[u] = "ask" /\ slock[u[1]] = u
        BY <1>1, <2>2, <3>2 DEF Frame, StatusLocked
      <4>2. cache'[u[1]] = cache[u[1]]
        BY <1>1, <2>2, <3>1, <4>1, TaskLocks DEF Frame
      <4> QED
        BY <4>1, <4>2 DEF IInv, NotAgain
    <3>3. ASSUME HasReader(u)' PROVE ~eof'[ReaderOf(u)]
      <4>1. HasReader(u) /\ eof'[ReaderOf(u)] = eof[ReaderOf(u)]
        BY <2>2, <3>3, OtherReads
      <4> QED
        BY <4>1 DEF IInv, NotAgain
    <3> QED
      BY <3>2, <3>3
  <2> QED
    BY <2>1, <2>2
<1>6. OwnReadsFindJob'
  <2> SUFFICES ASSUME NEW u \in Tasks, outcome'[u] = "missing", remover' = Background(u[1])
               PROVE  FALSE
    BY DEF OwnReadsFindJob
  <2>1. remover = Background(u[1])
    BY <1>1 DEF Frame
  <2>2. outcome[u] # "missing"
    BY <2>1 DEF IInv, OwnReadsFindJob
  <2>3. u = t /\ pc[t] \in {"ask", "read"}
    BY <1>1, <2>2 DEF Frame, Learns
  <2>4. Done(t[1])
    BY <1>h, <2>1, <2>3 DEF IInv, OnlyWhenDone
  <2>5. pc[t] = "read"
    BY <2>3, <2>4 DEF IInv, NotAgain, Done
  <2>6. HasReader(t) /\ StreamOf(t) \in Streams
    BY <1>1, <2>5, TaskShape DEF InPlace, HasReader
  <2>7. eof[ReaderOf(t)]
    BY <2>4, <2>6 DEF Done, ReaderOf
  <2> QED
    BY <2>5, <2>6, <2>7 DEF IInv, NotAgain
<1> QED
  BY <1>2, <1>4, <1>5, <1>6

-----------------------------------------------------------------------------
(* A step of the job, an answer of the guest, a new handle, the clock.     *)

\* A read is answered with what the file has from its offset on.
Answered(t) ==
    /\ pc[t] = "read" /\ reply[t] = None
    /\ fetch'[t].from = fetch[t].from /\ fetch'[t].ended = fetch[t].ended
    /\ fetch'[t].to = Least(fetch[t].from + ChunkSize, written[StreamOf(t)])

\* The job moves forward, its output grows, or it is removed for good.
LEMMA GuestStep ==
    ASSUME Shape, Advance \/ (\E s \in Streams : Write(s)) \/ (\E t \in Tasks : Answer(t))
    PROVE  /\ UNCHANGED <<handleVars, readerVars, pc, outcome, lockVars, cache>>
           /\ \A t \in Tasks : reply'[t] # reply[t] =>
                 /\ reply[t] = None /\ pc[t] \in {"ask", "read", "term", "kill", "remove"}
                 /\ reply'[t] = "over" => Finished'
                 /\ pc[t] \in {"ask", "read"} => reply'[t] = phase /\ phase' = phase
           /\ \A t \in Tasks : fetch'[t] = fetch[t] \/ Answered(t)
           /\ \A t \in Tasks : pc[t] = "read" /\ reply'[t] # reply[t] =>
                 Answered(t) /\ UNCHANGED jobVars
           /\ \A s \in Streams : written[s] <= written'[s]
           /\ UNCHANGED final \/ (~Finished /\ final' = written /\ written' = written /\ Finished')
           /\ Finished => Finished'
           /\ phase = "removed" => phase' = "removed"
           /\ UNCHANGED remover
              \/ (phase # "removed" /\ phase' = "removed" /\ remover' \in Tasks /\ pc[remover'] = "remove")
           /\ phase # "removed" /\ phase' = "removed" => \E t \in Tasks : pc[t] = "remove"
<1> USE DEF Shape, TypeOK
<1>1. CASE Advance
  BY <1>1 DEF Advance, Finished
<1>2. CASE \E s \in Streams : Write(s)
  BY <1>2 DEF Write, Finished
<1>3. ASSUME NEW t \in Tasks, AnswerStatus(t) \/ AnswerTerm(t)
      PROVE  /\ UNCHANGED <<jobVars, fetch>> /\ AnswerOnly
             /\ pc[t] \in {"ask", "term"} /\ Reply(t, phase) /\ reply[t] = None
  BY <1>3 DEF AnswerStatus, AnswerTerm
<1>4. CASE \E t \in Tasks : AnswerStatus(t) \/ AnswerTerm(t)
  BY <1>3, <1>4 DEF Finished
<1>5. CASE \E t \in Tasks : t[2] \in ReadOps /\ AnswerOutput(t)
  BY <1>5 DEF AnswerOutput, Answered, Finished
<1>6. CASE \E t \in Tasks : AnswerKill(t)
  BY <1>6 DEF AnswerKill, EndsWith, Finished, States
<1>7. CASE \E t \in Tasks : AnswerRemove(t)
  BY <1>7 DEF AnswerRemove, Finished
<1> QED
  BY <1>1, <1>2, <1>4, <1>5, <1>6, <1>7 DEF Answer

\* The guest keeps the output within the file.
LEMMA WithinFileGuest ==
    ASSUME IInv, Advance \/ (\E s \in Streams : Write(s)) \/ (\E t \in Tasks : Answer(t))
    PROVE  WithinFile' /\ ReaderLocked' /\ NoGaps'
<1>1. Shape
  BY DEF IInv, Shape
<1>2. /\ UNCHANGED <<readerVars, pc>>
      /\ \A s \in Streams : written[s] <= written'[s]
      /\ UNCHANGED final \/ final' = written
      /\ \A t \in Tasks : fetch'[t] = fetch[t] \/ Answered(t)
  BY <1>1, GuestStep
<1>3. TypeOK /\ TypeOK' /\ WithinFile
  BY <1>1, TypeGuest DEF Shape
<1>4. ASSUME NEW s \in Streams PROVE final'[s] <= written'[s]
  BY <1>2, <1>3 DEF WithinFile, TypeOK
<1>5. ASSUME NEW r \in Readers PROVE offset'[r] <= written'[r[2]]
  <2>1. r[2] \in Streams
    BY TaskShape
  <2>2. /\ offset[r] <= written[r[2]] /\ offset'[r] = offset[r]
        /\ offset[r] \in Nat /\ written[r[2]] \in Nat /\ written'[r[2]] \in Nat
        /\ written[r[2]] <= written'[r[2]]
    BY <1>2, <1>3, <2>1 DEF WithinFile, TypeOK
  <2> QED
    BY <2>2
<1>6. ASSUME NEW t \in Tasks
      PROVE  /\ pc'[t] # "read" => fetch'[t] = NoFetch
             /\ pc'[t] = "read" =>
                   /\ fetch'[t].from = offset'[ReaderOf(t)]
                   /\ fetch'[t].from <= fetch'[t].to /\ fetch'[t].to <= written'[StreamOf(t)]
  <2>1. CASE pc[t] # "read"
    BY <1>2, <1>3, <2>1 DEF WithinFile, Answered
  <2>2. CASE pc[t] = "read"
    <3>1. /\ fetch[t].from = offset[ReaderOf(t)] /\ fetch[t].from <= fetch[t].to
          /\ fetch[t].to <= written[StreamOf(t)]
      BY <1>3, <2>2 DEF WithinFile
    <3>2. /\ fetch[t].from \in Nat /\ fetch[t].to \in Nat /\ written[StreamOf(t)] \in Nat
          /\ written'[StreamOf(t)] \in Nat /\ written[StreamOf(t)] <= written'[StreamOf(t)]
      BY <1>2, <1>3, TaskShape DEF TypeOK, Fetch
    <3>3. fetch'[t].from = fetch[t].from /\ offset' = offset /\ pc' = pc
      BY <1>2 DEF Answered
    <3>4. \/ fetch'[t].to = fetch[t].to
          \/ fetch'[t].to = Least(fetch[t].from + ChunkSize, written[StreamOf(t)])
      BY <1>2 DEF Answered
    <3>5. fetch[t].from <= fetch'[t].to /\ fetch'[t].to <= written'[StreamOf(t)]
      BY <3>1, <3>2, <3>4 DEF Least
    <3> QED
      BY <2>2, <3>1, <3>3, <3>5
  <2> QED
    BY <2>1, <2>2
<1>7. WithinFile'
  BY <1>4, <1>5, <1>6 DEF WithinFile, ReaderOf, StreamOf
<1>8. ReaderLocked' /\ NoGaps'
  BY <1>2 DEF IInv, ReaderLocked, HasReader, ReaderOf, StreamOf, NoGaps
<1> QED
  BY <1>7, <1>8

\* What the guest answers is true, and an empty read after the end says that
\* all was read.
LEMMA OutputGuest ==
    ASSUME IInv, Advance \/ (\E s \in Streams : Write(s)) \/ (\E t \in Tasks : Answer(t))
    PROVE  OverIsOver' /\ EofIsFar' /\ EmptyMeansAll'
<1>1. Shape /\ TypeOK /\ WithinFile
  BY DEF IInv, Shape
<1>2. /\ UNCHANGED <<offset, eof, pc, outcome, cache>>
      /\ \A t \in Tasks : fetch'[t] = fetch[t] \/ Answered(t)
      /\ UNCHANGED final \/ (~Finished /\ Finished')
      /\ Finished => Finished'
  BY <1>1, GuestStep
<1>3. \A t \in Tasks : reply'[t] # reply[t] /\ reply'[t] = "over" => Finished'
  BY <1>1, GuestStep
<1>4. OverIsOver'
  BY <1>2, <1>3 DEF IInv, OverIsOver, Answered
<1>5. EofIsFar'
  <2>1. CASE UNCHANGED final
    BY <1>2, <2>1 DEF IInv, EofIsFar
  <2>2. CASE ~Finished
    BY <1>2, <2>2 DEF IInv, OverIsOver, EofIsFar
  <2> QED
    BY <1>2, <2>1, <2>2
<1>6. EmptyMeansAll'
  <2> SUFFICES ASSUME NEW t \in Tasks, pc'[t] = "read", fetch'[t].ended,
                      reply'[t] \in States, fetch'[t].to = fetch'[t].from
               PROVE  fetch'[t].from >= final'[StreamOf(t)]
    BY DEF EmptyMeansAll, StreamOf
  <2>1. pc[t] = "read" /\ fetch[t].ended /\ StreamOf(t) \in Streams
    BY <1>2, TaskShape DEF Answered
  <2>2. Finished
    BY <2>1 DEF IInv, OverIsOver
  <2>3. final' = final
    BY <1>2, <2>2
  <2>4. CASE reply'[t] = reply[t]
    <3>1. fetch'[t] = fetch[t]
      BY <1>2, <2>4, ProcessAssumption DEF Answered
    <3> QED
      BY <2>1, <2>3, <2>4, <3>1 DEF IInv, EmptyMeansAll
  <2>5. CASE reply'[t] # reply[t]
    <3>1. /\ fetch'[t].from = fetch[t].from
          /\ fetch'[t].to = Least(fetch[t].from + ChunkSize, written[StreamOf(t)])
      BY <1>1, <2>1, <2>5, GuestStep DEF Answered
    <3>2. /\ fetch[t].from \in Nat /\ written[StreamOf(t)] \in Nat /\ final[StreamOf(t)] \in Nat
          /\ final[StreamOf(t)] <= written[StreamOf(t)]
      BY <1>1, <2>1 DEF TypeOK, Fetch, WithinFile
    <3>3. fetch[t].from >= written[StreamOf(t)]
      BY <3>1, <3>2 DEF Least
    <3> QED
      BY <2>3, <3>1, <3>2, <3>3
  <2> QED
    BY <2>4, <2>5
<1> QED
  BY <1>4, <1>5, <1>6

\* The guest lets nobody miss a job that is there, and removes one in the
\* background only for a handle that is done.
LEMMA MissingGuest ==
    ASSUME IInv, Advance \/ (\E s \in Streams : Write(s)) \/ (\E t \in Tasks : Answer(t))
    PROVE  StatusLocked' /\ MissingIsRemoved' /\ OnlyWhenDone' /\ NotAgain' /\ OwnReadsFindJob'
<1>1. Shape /\ TypeOK /\ TypeOK'
  BY TypeGuest DEF IInv, Shape
<1>2. UNCHANGED <<readerVars, pc, outcome, lockVars, cache>>
  BY <1>1, GuestStep
<1>3. /\ phase = "removed" => phase' = "removed"
      /\ UNCHANGED remover
         \/ (phase # "removed" /\ phase' = "removed" /\ remover' \in Tasks /\ pc[remover'] = "remove")
  BY <1>1, GuestStep
<1>4. StatusLocked' /\ NotAgain'
  BY <1>2 DEF IInv, StatusLocked, NotAgain, HasReader, ReaderOf, StreamOf
<1>5. MissingIsRemoved'
  <2>1. \A t \in Tasks : reply'[t] # reply[t] /\ pc[t] \in {"ask", "read"} =>
           reply'[t] = phase /\ phase' = phase
    BY <1>1, GuestStep
  <2> QED
    BY <1>2, <1>3, <2>1 DEF IInv, MissingIsRemoved
<1>6. OnlyWhenDone'
  BY <1>2, <1>3 DEF IInv, OnlyWhenDone, Done
<1>7. OwnReadsFindJob'
  <2>1. CASE UNCHANGED remover
    BY <1>2, <2>1 DEF IInv, OwnReadsFindJob
  <2>2. CASE phase # "removed"
    BY <1>2, <2>2 DEF IInv, MissingIsRemoved, OwnReadsFindJob
  <2> QED
    BY <1>3, <2>1, <2>2
<1> QED
  BY <1>4, <1>5, <1>6, <1>7

\* A new handle knows what the job was when it was opened, and the end of a
\* grace period changes nothing else.
LEMMA HandleStep ==
    ASSUME IInv, NEW h \in Handles, Open(h) \/ GraceExpires(h)
    PROVE  /\ WithinFile' /\ ReaderLocked' /\ NoGaps'
           /\ StatusLocked' /\ OverIsOver' /\ EofIsFar' /\ EmptyMeansAll'
           /\ MissingIsRemoved' /\ OnlyWhenDone' /\ NotAgain' /\ OwnReadsFindJob'
<1>1. Shape /\ TypeOK /\ InPlace
  BY DEF IInv, Shape
<1>2. /\ UNCHANGED <<jobVars, readerVars, taskVars, lockVars>>
      /\ \A g \in Handles : cache'[g] # cache[g] =>
            g \notin opened /\ phase # "removed" /\ cache'[g] = phase
  BY <1>1 DEF Open, GraceExpires, TypeOK
<1>3. WithinFile' /\ StatusLocked' /\ EofIsFar' /\ EmptyMeansAll' /\ MissingIsRemoved'
      /\ OwnReadsFindJob' /\ ReaderLocked' /\ NoGaps'
  BY <1>2 DEF IInv, WithinFile, StatusLocked, EofIsFar, EmptyMeansAll, MissingIsRemoved,
              OwnReadsFindJob, ReaderLocked, HasReader, ReaderOf, StreamOf, NoGaps
<1>4. OverIsOver'
  BY <1>2 DEF IInv, OverIsOver, Finished
<1>5. ASSUME NEW g \in Handles, pc'[Background(g)] # "idle" \/ remover' = Background(g)
      PROVE  Done(g)'
  <2>1. Done(g) /\ Background(g) \in Tasks /\ Background(g)[1] = g
    BY <1>2, <1>5, TaskShape DEF IInv, OnlyWhenDone
  <2>2. CASE remover = Background(g)
    <3>1. Background(g) # None
      BY <2>1
    <3>2. phase = "removed"
      BY <2>2, <3>1 DEF IInv, MissingIsRemoved
    <3> QED
      BY <1>2, <2>1, <3>2 DEF Done
  <2>3. CASE pc[Background(g)] # "idle"
    BY <1>1, <1>2, <2>1, <2>3 DEF InPlace, Done
  <2> QED
    BY <1>2, <1>5, <2>2, <2>3
<1>6. NotAgain'
  <2>1. \A t \in Tasks : t[1] \in Handles
    BY TaskShape
  <2> QED
    BY <1>1, <1>2, <2>1 DEF IInv, NotAgain, InPlace, HasReader, ReaderOf, StreamOf
<1> QED
  BY <1>3, <1>4, <1>5, <1>6 DEF OnlyWhenDone

-----------------------------------------------------------------------------
(* Theorems.                                                               *)

\* Nothing has been opened, read or asked at first.
LEMMA InvariantInit == Init => IInv
<1> SUFFICES ASSUME Init PROVE IInv
  OBVIOUS
<1>1. TypeOK /\ InPlace /\ ReaderLocked /\ WithinFile
  BY ShapeInit DEF Shape
<1>2. \A t \in Tasks : t[1] \in Handles /\ t # None
  BY TaskShape
<1>3. StatusLocked /\ NotAgain /\ OwnReadsFindJob /\ MissingIsRemoved
  BY <1>2 DEF Init, StatusLocked, NotAgain, HasReader, OwnReadsFindJob, MissingIsRemoved
<1>4. OverIsOver
  BY <1>2 DEF Init, OverIsOver, States
<1>5. EofIsFar /\ EmptyMeansAll /\ NoGaps
  <2>1. \A r \in Readers : r[2] \in Streams
    BY TaskShape
  <2> QED
    BY <2>1 DEF Init, EofIsFar, EmptyMeansAll, NoGaps
<1>6. OnlyWhenDone
  <2>1. \A h \in Handles : Background(h) \in Tasks
    BY TaskShape
  <2> QED
    BY <2>1 DEF Init, OnlyWhenDone
<1> QED
  BY <1>1, <1>3, <1>4, <1>5, <1>6 DEF IInv

\* Every step of the job, the guest, a coroutine or the clock keeps it so.
LEMMA InvariantNext == IInv /\ [Next]_vars => IInv'
<1> SUFFICES ASSUME IInv, [Next]_vars PROVE IInv'
  OBVIOUS
<1>1. Shape
  BY DEF IInv, Shape
<1>2. CASE Advance \/ (\E s \in Streams : Write(s)) \/ (\E t \in Tasks : Answer(t))
  <2>1. TypeOK' /\ InPlace' /\ WithinFile' /\ ReaderLocked' /\ NoGaps'
    BY <1>1, <1>2, TypeGuest, InPlaceGuest, WithinFileGuest
  <2>2. /\ OverIsOver' /\ EofIsFar' /\ EmptyMeansAll'
        /\ StatusLocked' /\ MissingIsRemoved' /\ OnlyWhenDone' /\ NotAgain' /\ OwnReadsFindJob'
    BY <1>2, OutputGuest, MissingGuest
  <2> QED
    BY <2>1, <2>2 DEF IInv
<1>3. CASE \E h \in Handles : Open(h) \/ GraceExpires(h)
  <2>1. TypeOK' /\ InPlace'
    BY <1>1, <1>3, TypeHandles, InPlaceGuest
  <2>2. /\ WithinFile' /\ ReaderLocked' /\ NoGaps'
        /\ StatusLocked' /\ OverIsOver' /\ EofIsFar' /\ EmptyMeansAll'
        /\ MissingIsRemoved' /\ OnlyWhenDone' /\ NotAgain' /\ OwnReadsFindJob'
    BY <1>3, HandleStep
  <2> QED
    BY <2>1, <2>2 DEF IInv
<1>4. CASE \E t \in Tasks : TaskStep(t)
  <2>1. TypeOK' /\ InPlace'
    BY <1>1, <1>4, TypeTask, InPlaceTask DEF TaskStep
  <2>2. /\ WithinFile' /\ ReaderLocked' /\ NoGaps'
        /\ StatusLocked' /\ OverIsOver' /\ EofIsFar' /\ EmptyMeansAll'
    BY <1>4, WithinFileTask, ReaderLockedTask, StatusLockedTask, OverIsOverTask, OutputTask
  <2>3. MissingIsRemoved' /\ OnlyWhenDone' /\ NotAgain' /\ OwnReadsFindJob'
    BY <1>4, MissingTask
  <2> QED
    BY <2>1, <2>2, <2>3 DEF IInv
<1>5. CASE UNCHANGED vars
  <2>1. TypeOK' /\ InPlace' /\ StatusLocked' /\ WithinFile' /\ ReaderLocked' /\ NoGaps'
    BY <1>5 DEF vars, IInv, TypeOK, InPlace, StatusLocked, WithinFile, ReaderLocked, HasReader,
                ReaderOf, StreamOf, NoGaps
  <2>2. OverIsOver' /\ EofIsFar' /\ EmptyMeansAll' /\ MissingIsRemoved'
    BY <1>5 DEF vars, IInv, OverIsOver, Finished, EofIsFar, EmptyMeansAll, StreamOf,
                MissingIsRemoved
  <2>3. OnlyWhenDone' /\ NotAgain' /\ OwnReadsFindJob'
    BY <1>5 DEF vars, IInv, OnlyWhenDone, Done, NotAgain, HasReader, ReaderOf, StreamOf,
                OwnReadsFindJob
  <2> QED
    BY <2>1, <2>2, <2>3 DEF IInv
<1> QED
  BY <1>2, <1>3, <1>4, <1>5 DEF Next, TaskStep

\* The inductive invariant holds in every reachable state.
THEOREM Invariance == Spec => []IInv
<1>1. Init => IInv
  BY InvariantInit
<1>2. IInv /\ [Next]_vars => IInv'
  BY InvariantNext
<1> QED
  BY <1>1, <1>2, PTL DEF Spec

\* Every variable keeps its type.
THEOREM TypeCorrect == Spec => []TypeOK
<1>1. IInv => TypeOK
  BY DEF IInv
<1> QED
  BY <1>1, Invariance, PTL

\* However status checks, reads, cancellations and the end of the command
\* interleave, a reader at EOF has all that was written before the end, but what
\* a UnicodeDecodeError was raised for.
THEOREM OutputWhole == Spec => []EofMeansAll
<1>1. IInv => EofMeansAll
  <2> SUFFICES ASSUME IInv, NEW r \in Readers, eof[r], r[2] \in Captured
               PROVE  1..final[r[2]] \subseteq have[r] \cup lost[r]
    BY DEF EofMeansAll
  <2>1. r[2] \in Streams
    BY TaskShape
  <2>2. /\ offset[r] >= final[r[2]] /\ have[r] \cup lost[r] = 1..offset[r]
        /\ offset[r] \in Nat /\ final[r[2]] \in Nat
    BY <2>1 DEF IInv, EofIsFar, NoGaps, TypeOK
  <2> QED
    BY <2>2
<1> QED
  BY <1>1, Invariance, PTL

\* No read, wait() or poll() finds the job missing because its own handle removed
\* it in the background.  (terminate() may send its signal too late.)
THEOREM OwnRemovalUnseen == Spec => []OwnReadsFindJob
<1>1. IInv => OwnReadsFindJob
  BY DEF IInv
<1> QED
  BY <1>1, Invariance, PTL

\* When terminate() returns without an error, the job is over.
THEOREM StopIsTrue == Spec => []StoppedMeansOver
<1>1. IInv => StoppedMeansOver
  BY DEF IInv, OverIsOver, Finished, StoppedMeansOver, Running, Tasks
<1> QED
  BY <1>1, Invariance, PTL

\* Neither cleanup() nor a background removal takes a job away that may still
\* run, whatever was lost, repeated or cancelled.
THEOREM RemovalIsLate == Spec => RemovesOnlyFinished
<1>1. IInv /\ [Next]_vars => [phase # "removed" /\ phase' = "removed" => phase = "over"]_vars
  <2> SUFFICES ASSUME IInv, Next, phase # "removed", phase' = "removed"
               PROVE  phase = "over"
    OBVIOUS
  <2>1. Shape
    BY DEF IInv, Shape
  <2>2. CASE Advance \/ (\E s \in Streams : Write(s)) \/ (\E t \in Tasks : Answer(t))
    <3>1. PICK t \in Tasks : pc[t] = "remove"
      BY <2>1, <2>2, GuestStep
    <3> QED
      BY <3>1 DEF IInv, OverIsOver, Finished
  <2>3. CASE \E h \in Handles : Open(h) \/ GraceExpires(h)
    BY <2>3 DEF Open, GraceExpires
  <2>4. CASE \E t \in Tasks : TaskStep(t)
    BY <2>1, <2>4, TaskFrame DEF Frame
  <2> QED
    BY <2>2, <2>3, <2>4 DEF Next, TaskStep
<1> QED
  BY <1>1, Invariance, PTL DEF Spec, RemovesOnlyFinished

\* Whatever reads of one stream run at once, fail, are repeated or cancelled, every
\* byte up to a reader's offset was taken once: into its buffer, or into the chunk
\* whose read raised UnicodeDecodeError.
THEOREM EachByteOnce == Spec => []NoGaps
<1>1. IInv => NoGaps
  BY DEF IInv
<1> QED
  BY <1>1, Invariance, PTL
=============================================================================
